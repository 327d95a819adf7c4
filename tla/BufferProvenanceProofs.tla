------------------------- MODULE BufferProvenanceProofs -------------------------
(****************************************************************************)
(* Theorems about BufferProvenance, for every set of callers, sources and   *)
(* operations and programs of every length.                                 *)
(****************************************************************************)
EXTENDS BufferProvenance, SequenceTheorems, TLAPS

-----------------------------------------------------------------------------
(* The calls of a function never lie beyond its last operation.             *)
LEMMA WriteType ==
    ASSUME NEW cells \in [Cells -> Contents], NEW o \in Ops
    PROVE  Write(cells, o) \in [Cells -> Contents]
BY OpsAssumption DEF Write, Op

LEMMA EmitType ==
    ASSUME TypeOK, NEW f \in Functions, NEW o \in Ops,
           body' = [body EXCEPT ![f] = Append(@, o)]
    PROVE  /\ body' \in [Functions -> Seq(Ops)]
           /\ \A g \in Functions :
                 /\ Len(body'[g]) \in Nat
                 /\ Len(body[g]) <= Len(body'[g])
                 /\ \A i \in 1..Len(body[g]) : body'[g][i] = body[g][i]
<1>1. body[f] \in Seq(Ops)
  BY DEF TypeOK
<1>2. /\ Append(body[f], o) \in Seq(Ops)
      /\ Len(Append(body[f], o)) = Len(body[f]) + 1
      /\ \A i \in 1..Len(body[f]) : Append(body[f], o)[i] = body[f][i]
  BY <1>1, AppendProperties
<1>3. \A g \in Functions : body'[g] = IF g = f THEN Append(body[f], o) ELSE body[g]
  BY DEF TypeOK
<1>4. body' \in [Functions -> Seq(Ops)]
  BY <1>2, <1>3 DEF TypeOK
<1>5. \A g \in Functions : Len(body[g]) \in Nat
  BY LenProperties DEF TypeOK
<1>6. ASSUME NEW g \in Functions
      PROVE  /\ Len(body'[g]) \in Nat
             /\ Len(body[g]) <= Len(body'[g])
             /\ \A i \in 1..Len(body[g]) : body'[g][i] = body[g][i]
  <2>1. CASE g = f
    BY <1>2, <1>3, <1>5, <2>1
  <2>2. CASE g # f
    BY <1>3, <1>5, <2>2
  <2>. QED  BY <2>1, <2>2
<1>. QED  BY <1>4, <1>6

LEMMA TypeInit == Init => TypeOK
<1>. SUFFICES ASSUME Init PROVE TypeOK
  OBVIOUS
<1>1. <<>> \in Seq(Ops) /\ Len(<<>>) = 0
  BY EmptySeq
<1>2. body \in [Functions -> Seq(Ops)] /\ call \in [Functions -> Nat]
  BY <1>1 DEF Init
<1>3. \A f \in Functions : call[f] <= Len(body[f])
  BY <1>1 DEF Init
<1>4. memory \in [Callers -> [Cells -> Contents]]
  BY DEF Init, Contents
<1>. QED  BY <1>2, <1>3, <1>4 DEF Init, TypeOK

LEMMA TypeStep == TypeOK /\ [Next]_vars => TypeOK'
<1>. SUFFICES ASSUME TypeOK, [Next]_vars PROVE TypeOK'
  OBVIOUS
<1>0. \A f \in Functions : Len(body[f]) \in Nat /\ call[f] \in Nat
  BY LenProperties DEF TypeOK
<1>1. ASSUME NEW c \in Callers, NEW o \in Ops, CallerOp(c, o) PROVE TypeOK'
  <2>1. c \in Functions
    BY DEF Functions
  <2>2. body' = [body EXCEPT ![c] = Append(@, o)]
    BY <1>1 DEF CallerOp
  <2>3. body' \in [Functions -> Seq(Ops)]
    BY <2>1, <2>2, EmitType
  <2>4. \A f \in Functions : call'[f] <= Len(body'[f])
    BY <1>0, <1>1, <2>1, <2>2, EmitType DEF CallerOp, TypeOK
  <2>5. memory[c] \in [Cells -> Contents]
    BY DEF TypeOK
  <2>6. Write(memory[c], o) \in [Cells -> Contents]
    BY <2>5, WriteType
  <2>7. memory' = [memory EXCEPT ![c] = Write(memory[c], o)]
    BY <1>1 DEF CallerOp
  <2>8. memory' \in [Callers -> [Cells -> Contents]]
    BY <2>6, <2>7 DEF TypeOK
  <2>. QED  BY <1>1, <2>3, <2>4, <2>8 DEF CallerOp, TypeOK
<1>2. CASE EnterMain
  <2>1. call' \in [Functions -> Nat] /\ \A f \in Functions : call'[f] = Len(body[f])
    BY <1>0, <1>2 DEF EnterMain
  <2>2. \A f \in Functions : call'[f] <= Len(body'[f])
    BY <1>0, <1>2, <2>1 DEF EnterMain
  <2>. QED  BY <1>2, <2>1, <2>2 DEF EnterMain, TypeOK
<1>3. ASSUME NEW o \in Ops, MainOp(o) PROVE TypeOK'
  <2>1. Main \in Functions
    BY DEF Functions
  <2>2. body' = [body EXCEPT ![Main] = Append(@, o)]
    BY <1>3 DEF MainOp
  <2>3. body' \in [Functions -> Seq(Ops)]
    BY <2>1, <2>2, EmitType
  <2>4. \A f \in Functions : call'[f] <= Len(body'[f])
    BY <1>0, <1>3, <2>1, <2>2, EmitType DEF MainOp, TypeOK
  <2>5. \A c \in Callers : Write(memory[c], o) \in [Cells -> Contents]
    BY WriteType DEF TypeOK
  <2>6. memory' \in [Callers -> [Cells -> Contents]]
    BY <1>3, <2>5 DEF MainOp
  <2>. QED  BY <1>3, <2>3, <2>4, <2>6 DEF MainOp, TypeOK
<1>4. CASE Anchor
  <2>1. Main \in Functions
    BY DEF Functions
  <2>2. /\ call' \in [Functions -> Nat]
        /\ \A f \in Functions : call'[f] = IF f = Main THEN Len(body[Main]) ELSE call[f]
    BY <1>0, <1>4, <2>1 DEF Anchor, TypeOK
  <2>3. \A f \in Functions : call'[f] <= Len(body'[f])
    BY <1>0, <1>4, <2>2 DEF Anchor, TypeOK
  <2>. QED  BY <1>4, <2>2, <2>3 DEF Anchor, TypeOK
<1>5. ASSUME NEW f \in Functions, NEW o \in Ops, LaterOp(f, o) PROVE TypeOK'
  <2>1. body' = [body EXCEPT ![f] = Append(@, o)]
    BY <1>5 DEF LaterOp
  <2>2. body' \in [Functions -> Seq(Ops)]
    BY <2>1, EmitType
  <2>3. \A g \in Functions : call'[g] <= Len(body'[g])
    BY <1>0, <1>5, <2>1, EmitType DEF LaterOp, TypeOK
  <2>. QED  BY <1>5, <2>2, <2>3 DEF LaterOp, TypeOK
<1>6. CASE UNCHANGED vars
  BY <1>6 DEF vars, TypeOK
<1>. QED  BY <1>1, <1>2, <1>3, <1>4, <1>5, <1>6 DEF Next

(* Every variable of the model keeps its type, and no function's call lies  *)
(* beyond its operations.                                                   *)
THEOREM TypeCorrect == Spec => []TypeOK
<1>. QED  BY TypeInit, TypeStep, PTL DEF Spec

-----------------------------------------------------------------------------
(* What a finder names writes the buffer, and nothing behind it does.       *)
LEMMA NamedIsLastWrite ==
    ASSUME NEW f,
           NEW i \in RngSource(f) \cup WeakSource(f) \cup FillSource(f) \cup CopySource(f)
    PROVE  i \in Before(f) /\ Overwrites(body[f][i]) /\ ~LaterWrite(f, i)
<1>1. CASE i \in RngSource(f)
  BY <1>1 DEF RngSource, RngCalls, CallsInto, Overwrites
<1>2. CASE i \in WeakSource(f)
  BY <1>2 DEF WeakSource, WeakStores, Stores, Overwrites
<1>3. CASE i \in FillSource(f)
  BY <1>3 DEF FillSource, Fills, CallsInto, Overwrites
<1>4. CASE i \in CopySource(f)
  <2>1. /\ i \in Before(f)
        /\ body[f][i].kind = "CALL" /\ body[f][i].first
    BY <1>4 DEF CopySource, Copies, CallsInto
  <2>2. ~LaterWrite(f, i)
    <3>1. i \in Copies(f) /\ \A j \in Copies(f) : j >= i => ~LaterWrite(f, j)
      BY <1>4 DEF CopySource
    <3>2. i >= i
      BY <2>1 DEF Before
    <3>. QED  BY <3>1, <3>2
  <2>. QED  BY <2>1, <2>2 DEF Overwrites
<1>. QED  BY <1>1, <1>2, <1>3, <1>4

LEMMA OneLastWriterStep == TypeOK => OneLastWriter
<1>. SUFFICES ASSUME TypeOK, NEW f \in Functions,
                     NEW i \in RngSource(f) \cup WeakSource(f) \cup FillSource(f) \cup CopySource(f),
                     NEW j \in RngSource(f) \cup WeakSource(f) \cup FillSource(f) \cup CopySource(f)
              PROVE  i = j
  BY DEF OneLastWriter
<1>1. /\ i \in Before(f) /\ Overwrites(body[f][i]) /\ ~LaterWrite(f, i)
      /\ j \in Before(f) /\ Overwrites(body[f][j]) /\ ~LaterWrite(f, j)
  BY NamedIsLastWrite
<1>2. ~(i < j) /\ ~(j < i)
  BY <1>1 DEF LaterWrite
<1>3. i \in Nat /\ j \in Nat
  BY <1>1 DEF Before
<1>. QED  BY <1>2, <1>3

(* At most one operation of a function is ever named as the source of its   *)
(* buffer: an RNG fact, a weak-randomness fact and a constant-fill fact     *)
(* found in one function exclude each other.                                *)
THEOREM SourcesExclude == Spec => []OneLastWriter
<1>. QED  BY TypeCorrect, OneLastWriterStep, PTL

-----------------------------------------------------------------------------
(* Two states that agree on every function up to its call have equal facts. *)
LEMMA FactsOfPrefix ==
    ASSUME call' = call, param' = param, lost' = lost,
           \A g \in Functions : \A i \in 1..call[g] : body'[g][i] = body[g][i]
    PROVE  Facts' = Facts
<1>1. \A g \in Functions : Before(g)' = Before(g)
  BY DEF Before
<1>2. \A g \in Functions : \A i \in Before(g) : body'[g][i] = body[g][i]
  BY DEF Before
<1>3. \A g \in Functions : /\ RngCalls(g)' = RngCalls(g)
                           /\ Copies(g)' = Copies(g)
                           /\ Fills(g)' = Fills(g)
                           /\ Stores(g)' = Stores(g)
  BY <1>1, <1>2 DEF RngCalls, Copies, Fills, Stores, CallsInto
<1>4. \A g \in Functions : \A i : LaterWrite(g, i)' <=> LaterWrite(g, i)
  BY <1>1, <1>2 DEF LaterWrite
<1>5. \A g \in Functions : \A i \in Before(g) : body'[g][i].value = body[g][i].value
  BY <1>2
<1>6. \A g \in Functions : /\ RngCalls(g) \subseteq Before(g)
                           /\ Copies(g) \subseteq Before(g)
                           /\ Fills(g) \subseteq Before(g)
                           /\ Stores(g) \subseteq Before(g)
  BY DEF RngCalls, Copies, Fills, Stores, CallsInto
<1>7. \A g \in Functions : RngSource(g)' = RngSource(g) /\ FillSource(g)' = FillSource(g)
  BY <1>3, <1>4 DEF RngSource, FillSource
<1>8. \A g \in Functions : WeakStores(g)' = WeakStores(g)
  BY <1>3, <1>5, <1>6 DEF WeakStores
<1>9. \A g \in Functions : WeakSource(g)' = WeakSource(g)
  BY <1>4, <1>8 DEF WeakSource
<1>10. \A g \in Functions : CopySource(g)' = CopySource(g)
  BY <1>3, <1>4, <1>5, <1>6 DEF CopySource
<1>11. Main \in Functions /\ Callers \subseteq Functions
  BY DEF Functions
<1>12. StackConstants(Main)' = StackConstants(Main)
  <2>1. \A x \in Checked : StackCopies(Main, x)' = StackCopies(Main, x)
    BY <1>1, <1>2, <1>11 DEF StackCopies
  <2>2. \A x \in Checked : StackCopies(Main, x) \subseteq Before(Main)
    BY DEF StackCopies
  <2>. QED  BY <1>5, <1>11, <2>1, <2>2 DEF StackConstants
<1>13. /\ \A g \in Functions : Values(g, RngSource(g))' = Values(g, RngSource(g))
       /\ \A g \in Functions : Values(g, WeakSource(g))' = Values(g, WeakSource(g))
  <2>1. \A g \in Functions : RngSource(g) \subseteq Before(g) /\ WeakSource(g) \subseteq Before(g)
    BY <1>6 DEF RngSource, WeakSource, WeakStores
  <2>. QED  BY <1>5, <1>7, <1>9, <2>1 DEF Values
<1>14. RngOrigins' = RngOrigins
  <2>1. [c \in Callers |-> Values(c, RngSource(c))]' = [c \in Callers |-> Values(c, RngSource(c))]
    BY <1>11, <1>13
  <2>. QED  BY <1>3, <1>11, <1>13, <2>1 DEF RngOrigins, FromCallers
<1>15. WeakOrigins' = WeakOrigins
  <2>1. [c \in Callers |-> Values(c, WeakSource(c))]' = [c \in Callers |-> Values(c, WeakSource(c))]
    BY <1>11, <1>13
  <2>. QED  BY <1>8, <1>11, <1>13, <2>1 DEF WeakOrigins, FromCallers
<1>16. ConstantKey' <=> ConstantKey
  BY <1>3, <1>7, <1>10, <1>11, <1>12 DEF ConstantKey
<1>. QED  BY <1>14, <1>15, <1>16 DEF Facts

(* Once the key is used, what the program does behind that call, and behind *)
(* the calls of Main in its callers, never changes a fact.                  *)
THEOREM FactsLookBack == Spec => FutureBlind
<1>1. ASSUME TypeOK, [Next]_vars, phase = "used" PROVE Facts' = Facts
  <2>1. ASSUME NEW f \in Functions, NEW o \in Ops, LaterOp(f, o) PROVE Facts' = Facts
    <3>1. \A g \in Functions : \A i \in 1..Len(body[g]) : body'[g][i] = body[g][i]
      BY <1>1, <2>1, EmitType DEF LaterOp
    <3>2. \A g \in Functions : 1..call[g] \subseteq 1..Len(body[g])
      <4>1. \A g \in Functions : call[g] \in Nat /\ Len(body[g]) \in Nat /\ call[g] <= Len(body[g])
        BY <1>1, LenProperties DEF TypeOK
      <4>. QED  BY <4>1
    <3>3. \A g \in Functions : \A i \in 1..call[g] : body'[g][i] = body[g][i]
      BY <3>1, <3>2
    <3>. QED  BY <2>1, <3>3, FactsOfPrefix DEF LaterOp
  <2>2. CASE UNCHANGED vars
    BY <2>2, FactsOfPrefix DEF vars
  <2>. QED  BY <1>1, <2>1, <2>2 DEF Next, CallerOp, EnterMain, MainOp, Anchor
<1>2. TypeOK /\ [Next]_vars => [phase = "used" => Facts' = Facts]_vars
  BY <1>1
<1>. QED  BY TypeCorrect, <1>2, PTL DEF Spec, FutureBlind

-----------------------------------------------------------------------------
(* The memory agrees with the operations executed so far: a cell holds what *)
(* the last operation of Main that writes it wrote, or, if none did, what   *)
(* the last one of the caller did.                                          *)
Executed(f) ==
    IF phase = "used" \/ (phase = "callee" /\ f \in Callers) THEN call[f] ELSE Len(body[f])
Unwritten(s, n, x) == \A i \in 1..n : x \notin s[i].writes
LastIs(s, n, x, v) ==
    \A i \in 1..n :
        (x \in s[i].writes /\ \A j \in 1..n : x \in s[j].writes => j <= i) => v = s[i].value

PhaseInv ==
    /\ phase = "callers" => body[Main] = <<>>
    /\ phase = "callee" => \A c \in Callers : call[c] = Len(body[c])
MemoryInv ==
    \A c \in Callers, x \in Cells :
        /\ LastIs(body[Main], Executed(Main), x, memory[c][x])
        /\ Unwritten(body[Main], Executed(Main), x) =>
              LastIs(body[c], Executed(c), x, memory[c][x])

LEMMA LastOfAppend ==
    ASSUME NEW s \in Seq(Ops), NEW o \in Ops, NEW x, NEW v
    PROVE  /\ Unwritten(Append(s, o), Len(s) + 1, x) <=>
                  Unwritten(s, Len(s), x) /\ x \notin o.writes
           /\ LastIs(s, Len(s), x, v) =>
                  LastIs(Append(s, o), Len(s) + 1, x, IF x \in o.writes THEN o.value ELSE v)
           /\ x \in o.writes => LastIs(Append(s, o), Len(s) + 1, x, o.value)
<1>. DEFINE t == Append(s, o)
            n == Len(s)
<1>1. /\ n \in Nat
      /\ \A i \in 1..n : t[i] = s[i]
      /\ t[n + 1] = o
  BY AppendProperties, LenProperties
<1>2. \A i \in 1..(n + 1) : i \in 1..n \/ i = n + 1
  BY <1>1
<1>3. \A i \in 1..n : i \in 1..(n + 1) /\ ~(n + 1 <= i)
  BY <1>1
<1>4. n + 1 \in 1..(n + 1)
  BY <1>1
<1>. HIDE DEF t, n
<1>5. Unwritten(t, n + 1, x) <=> Unwritten(s, n, x) /\ x \notin o.writes
  BY <1>1, <1>2, <1>3, <1>4 DEF Unwritten
<1>6. ASSUME x \in o.writes PROVE LastIs(t, n + 1, x, o.value)
  BY <1>1, <1>2, <1>3, <1>4, <1>6 DEF LastIs
<1>7. ASSUME x \notin o.writes, LastIs(s, n, x, v) PROVE LastIs(t, n + 1, x, v)
  <2>. SUFFICES ASSUME NEW i \in 1..(n + 1), x \in t[i].writes,
                       \A j \in 1..(n + 1) : x \in t[j].writes => j <= i
                PROVE  v = t[i].value
    BY DEF LastIs
  <2>1. i \in 1..n
    BY <1>1, <1>2, <1>7
  <2>2. \A j \in 1..n : x \in s[j].writes => j <= i
    BY <1>1, <1>3
  <2>. QED  BY <1>1, <1>7, <2>1, <2>2 DEF LastIs
<1>. QED  BY <1>5, <1>6, <1>7 DEF t, n

LEMMA LastOfPrefix ==
    ASSUME NEW s, NEW t, NEW n, \A i \in 1..n : t[i] = s[i], NEW x, NEW v
    PROVE  /\ Unwritten(t, n, x) <=> Unwritten(s, n, x)
           /\ LastIs(t, n, x, v) <=> LastIs(s, n, x, v)
BY DEF Unwritten, LastIs

LEMMA MemoryInit == Init => PhaseInv /\ MemoryInv
<1>. SUFFICES ASSUME Init PROVE PhaseInv /\ MemoryInv
  OBVIOUS
<1>1. \A f \in Functions : body[f] = <<>> /\ Executed(f) = 0
  BY EmptySeq DEF Init, Executed
<1>2. Main \in Functions /\ Callers \subseteq Functions
  BY DEF Functions
<1>3. 1..0 = {}
  OBVIOUS
<1>. QED  BY <1>1, <1>2, <1>3 DEF Init, PhaseInv, MemoryInv, LastIs, Unwritten

LEMMA PhaseStep == TypeOK /\ PhaseInv /\ [Next]_vars => PhaseInv'
<1>. SUFFICES ASSUME TypeOK, PhaseInv, [Next]_vars PROVE PhaseInv'
  OBVIOUS
<1>0. Main \in Functions /\ Callers \subseteq Functions /\ Main \notin Callers
  BY FunctionsAssumption DEF Functions
<1>1. ASSUME NEW c \in Callers, NEW o \in Ops, CallerOp(c, o) PROVE PhaseInv'
  BY <1>0, <1>1 DEF CallerOp, PhaseInv, TypeOK
<1>2. CASE EnterMain
  BY <1>0, <1>2 DEF EnterMain, PhaseInv
<1>3. ASSUME NEW o \in Ops, MainOp(o) PROVE PhaseInv'
  <2>1. \A c \in Callers : body'[c] = body[c]
    BY <1>0, <1>3 DEF MainOp, TypeOK
  <2>. QED  BY <1>3, <2>1 DEF MainOp, PhaseInv
<1>4. CASE Anchor
  BY <1>4 DEF Anchor, PhaseInv
<1>5. ASSUME NEW f \in Functions, NEW o \in Ops, LaterOp(f, o) PROVE PhaseInv'
  BY <1>5 DEF LaterOp, PhaseInv
<1>6. CASE UNCHANGED vars
  BY <1>6 DEF vars, PhaseInv
<1>. QED  BY <1>1, <1>2, <1>3, <1>4, <1>5, <1>6 DEF Next

LEMMA MemoryStep == TypeOK /\ PhaseInv /\ MemoryInv /\ [Next]_vars => MemoryInv'
<1>. SUFFICES ASSUME TypeOK, PhaseInv, MemoryInv, [Next]_vars PROVE MemoryInv'
  OBVIOUS
<1>0. Main \in Functions /\ Callers \subseteq Functions /\ Main \notin Callers
  BY FunctionsAssumption DEF Functions
<1>1. \A f \in Functions : body[f] \in Seq(Ops) /\ Len(body[f]) \in Nat
  BY LenProperties DEF TypeOK
<1>2. ASSUME NEW c \in Callers, NEW o \in Ops, CallerOp(c, o) PROVE MemoryInv'
  <2>1. /\ phase = "callers" /\ phase' = "callers" /\ call' = call
        /\ body'[c] = Append(body[c], o)
        /\ \A f \in Functions : f # c => body'[f] = body[f]
        /\ memory'[c] = Write(memory[c], o)
        /\ \A d \in Callers : d # c => memory'[d] = memory[d]
    BY <1>0, <1>2 DEF CallerOp, TypeOK
  <2>2. \A f \in Functions : Executed(f) = Len(body[f]) /\ Executed(f)' = Len(body'[f])
    BY <2>1 DEF Executed
  <2>3. Len(body'[c]) = Len(body[c]) + 1
    BY <1>0, <1>1, <2>1, AppendProperties
  <2>4. body[Main] = <<>> /\ body'[Main] = <<>>
    BY <1>0, <2>1 DEF PhaseInv
  <2>5. Len(<<>>) = 0 /\ 1..0 = {}
    BY EmptySeq
  <2>6. \A s, x, v : LastIs(s, 0, x, v) /\ Unwritten(s, 0, x)
    BY <2>5 DEF LastIs, Unwritten
  <2>7. \A d \in Callers, x \in Cells : LastIs(body[d], Len(body[d]), x, memory[d][x])
    BY <1>0, <2>2, <2>4, <2>5, <2>6 DEF MemoryInv
  <2>8. \A d \in Callers, x \in Cells : LastIs(body'[d], Len(body'[d]), x, memory'[d][x])
    <3>. TAKE d \in Callers, x \in Cells
    <3>1. CASE d = c
      <4>1. memory'[c][x] = IF x \in o.writes THEN o.value ELSE memory[c][x]
        BY <2>1 DEF Write
      <4>2. LastIs(body[c], Len(body[c]), x, memory[c][x])
        BY <2>7
      <4>3. LastIs(Append(body[c], o), Len(body[c]) + 1, x,
                   IF x \in o.writes THEN o.value ELSE memory[c][x])
        BY <1>0, <1>1, <4>2, LastOfAppend
      <4>4. LastIs(body'[c], Len(body'[c]), x, memory'[c][x])
        BY <2>1, <2>3, <4>1, <4>3
      <4>. QED  BY <3>1, <4>4
    <3>2. CASE d # c
      BY <1>0, <2>1, <2>7, <3>2
    <3>. QED  BY <3>1, <3>2
  <2>. QED  BY <1>0, <2>2, <2>4, <2>5, <2>6, <2>8 DEF MemoryInv
<1>3. CASE EnterMain
  <2>1. /\ phase = "callers" /\ phase' = "callee"
        /\ \A f \in Functions : call'[f] = Len(body[f])
        /\ body' = body /\ memory' = memory
    BY <1>3 DEF EnterMain
  <2>2. \A f \in Functions : Executed(f)' = Executed(f)
    BY <2>1 DEF Executed
  <2>. QED  BY <1>0, <2>1, <2>2 DEF MemoryInv
<1>4. ASSUME NEW o \in Ops, MainOp(o) PROVE MemoryInv'
  <2>1. /\ phase = "callee" /\ phase' = "callee" /\ call' = call
        /\ body'[Main] = Append(body[Main], o)
        /\ \A c \in Callers : body'[c] = body[c] /\ memory'[c] = Write(memory[c], o)
    BY <1>0, <1>4 DEF MainOp, TypeOK
  <2>2. /\ Executed(Main) = Len(body[Main]) /\ Executed(Main)' = Len(body'[Main])
        /\ \A c \in Callers : Executed(c)' = Executed(c)
    BY <1>0, <2>1 DEF Executed
  <2>3. Len(body'[Main]) = Len(body[Main]) + 1
    BY <1>0, <1>1, <2>1, AppendProperties
  <2>. SUFFICES ASSUME NEW c \in Callers, NEW x \in Cells
                PROVE  /\ LastIs(body'[Main], Len(body[Main]) + 1, x, memory'[c][x])
                       /\ Unwritten(body'[Main], Len(body[Main]) + 1, x) =>
                             LastIs(body[c], Executed(c), x, memory'[c][x])
    BY <2>1, <2>2, <2>3 DEF MemoryInv
  <2>4. memory'[c][x] = IF x \in o.writes THEN o.value ELSE memory[c][x]
    BY <2>1 DEF Write
  <2>5. /\ LastIs(body[Main], Len(body[Main]), x, memory[c][x])
        /\ Unwritten(body[Main], Len(body[Main]), x) =>
              LastIs(body[c], Executed(c), x, memory[c][x])
    BY <2>2 DEF MemoryInv
  <2>6. LastIs(body'[Main], Len(body[Main]) + 1, x, memory'[c][x])
    BY <1>0, <1>1, <2>1, <2>4, <2>5, LastOfAppend
  <2>7. ASSUME Unwritten(body'[Main], Len(body[Main]) + 1, x)
        PROVE  Unwritten(body[Main], Len(body[Main]), x) /\ memory'[c][x] = memory[c][x]
    BY <1>0, <1>1, <2>1, <2>4, <2>7, LastOfAppend
  <2>. QED  BY <2>5, <2>6, <2>7
<1>5. CASE Anchor
  <2>1. /\ phase = "callee" /\ phase' = "used"
        /\ call'[Main] = Len(body[Main]) /\ \A c \in Callers : call'[c] = call[c]
        /\ body' = body /\ memory' = memory
    BY <1>0, <1>5 DEF Anchor, TypeOK
  <2>2. Executed(Main)' = Executed(Main) /\ \A c \in Callers : Executed(c)' = Executed(c)
    BY <1>0, <2>1 DEF Executed
  <2>. QED  BY <2>1, <2>2 DEF MemoryInv
<1>6. ASSUME NEW f \in Functions, NEW o \in Ops, LaterOp(f, o) PROVE MemoryInv'
  <2>1. /\ phase = "used" /\ phase' = "used" /\ call' = call /\ memory' = memory
        /\ body' = [body EXCEPT ![f] = Append(@, o)]
    BY <1>6 DEF LaterOp
  <2>2. \A g \in Functions : Executed(g) = call[g] /\ Executed(g)' = call[g]
    BY <2>1 DEF Executed
  <2>3. \A g \in Functions : \A i \in 1..call[g] : body'[g][i] = body[g][i]
    <3>1. \A g \in Functions : 1..call[g] \subseteq 1..Len(body[g])
      <4>1. \A g \in Functions : call[g] \in Nat /\ call[g] <= Len(body[g])
        BY DEF TypeOK
      <4>. QED  BY <1>1, <4>1
    <3>. QED  BY <2>1, <3>1, EmitType
  <2>4. \A g \in Functions : \A x, v :
           /\ Unwritten(body'[g], call[g], x) <=> Unwritten(body[g], call[g], x)
           /\ LastIs(body'[g], call[g], x, v) <=> LastIs(body[g], call[g], x, v)
    BY <2>3, LastOfPrefix
  <2>. QED  BY <1>0, <2>1, <2>2, <2>4 DEF MemoryInv
<1>7. CASE UNCHANGED vars
  <2>1. /\ phase' = phase /\ body' = body /\ call' = call /\ memory' = memory
    BY <1>7 DEF vars
  <2>2. \A f \in Functions : Executed(f)' = Executed(f)
    BY <2>1 DEF Executed
  <2>. QED  BY <1>0, <2>1, <2>2 DEF MemoryInv
<1>. QED  BY <1>2, <1>3, <1>4, <1>5, <1>6, <1>7 DEF Next

LEMMA MemoryCorrect == Spec => [](TypeOK /\ PhaseInv /\ MemoryInv)
<1>. QED  BY TypeInit, TypeStep, MemoryInit, PhaseStep, MemoryStep, PTL DEF Spec

-----------------------------------------------------------------------------
(* In an exact program the operation a finder names is the last one to      *)
(* write each of the checked cells it writes.                               *)
LEMMA NamedWins ==
    ASSUME TypeOK, ExactProgram, NEW f \in Functions,
           NEW i \in Before(f), ~LaterWrite(f, i), NEW x \in body[f][i].writes, x \in Checked,
           NEW v, LastIs(body[f], call[f], x, v)
    PROVE  v = body[f][i].value
<1>1. \A g \in Functions : \A j \in Before(g) : j \in DOMAIN body[g] /\ body[g][j] \in Ops
  <2>. TAKE g \in Functions
  <2>1. body[g] \in Seq(Ops) /\ call[g] \in Nat /\ call[g] <= Len(body[g])
    BY DEF TypeOK
  <2>2. DOMAIN body[g] = 1..Len(body[g]) /\ Len(body[g]) \in Nat
    BY <2>1, LenProperties
  <2>. QED  BY <2>1, <2>2, ElementOfSeq DEF Before
<1>2. ASSUME NEW j \in Before(f), x \in body[f][j].writes PROVE Overwrites(body[f][j])
  <2>1. body[f][j] \in Ops /\ Exact(body[f][j])
    BY <1>1 DEF ExactProgram
  <2>2. body[f][j].first
    BY <1>2, <2>1 DEF Exact
  <2>3. body[f][j].kind \in {"COPY", "STORE", "CALL"}
    BY <2>1, OpsAssumption DEF Op
  <2>. QED  BY <2>2, <2>3 DEF Overwrites
<1>3. \A j \in Before(f) : x \in body[f][j].writes => j <= i
  BY <1>2 DEF LaterWrite, Before
<1>. QED  BY <1>3 DEF LastIs, Before

(* What the memory holds where an operation found in Main, or in every      *)
(* caller of a Main that leaves the buffer alone, is its last write.        *)
LEMMA MainWins ==
    ASSUME TypeOK, MemoryInv, phase = "used", ExactProgram, NEW i \in Before(Main),
           ~LaterWrite(Main, i), NEW c \in Callers, NEW x \in body[Main][i].writes, x \in Checked
    PROVE  memory[c][x] = body[Main][i].value
<1>1. Main \in Functions
  BY DEF Functions
<1>2. LastIs(body[Main], call[Main], x, memory[c][x])
  BY CheckedAssumption DEF MemoryInv, Executed
<1>. QED  BY <1>1, <1>2, NamedWins

LEMMA CallerWins ==
    ASSUME TypeOK, MemoryInv, phase = "used", ExactProgram, ~WrittenBehindHop,
           NEW c \in Callers, NEW i \in Before(c), ~LaterWrite(c, i),
           NEW x \in body[c][i].writes, x \in Checked
    PROVE  memory[c][x] = body[c][i].value
<1>1. c \in Functions
  BY DEF Functions
<1>2. Unwritten(body[Main], call[Main], x)
  BY DEF Unwritten, WrittenBehindHop, Before
<1>3. LastIs(body[c], call[c], x, memory[c][x])
  BY <1>2, CheckedAssumption DEF MemoryInv, Executed
<1>. QED  BY <1>1, <1>3, NamedWins

LEMMA BeforeIsOps ==
    ASSUME TypeOK, ExactProgram, NEW f \in Functions, NEW i \in Before(f)
    PROVE  body[f][i] \in Ops /\ Exact(body[f][i])
<1>1. body[f] \in Seq(Ops) /\ call[f] \in Nat /\ call[f] <= Len(body[f])
  BY DEF TypeOK
<1>2. DOMAIN body[f] = 1..Len(body[f]) /\ Len(body[f]) \in Nat
  BY <1>1, LenProperties
<1>3. i \in DOMAIN body[f]
  BY <1>1, <1>2 DEF Before
<1>. QED  BY <1>1, <1>2, <1>3, ElementOfSeq DEF ExactProgram

LEMMA RngFills ==
    ASSUME TypeOK, ExactProgram, NEW f \in Functions, NEW i \in RngSource(f)
    PROVE  i \in Before(f) /\ ~LaterWrite(f, i) /\ body[f][i].writes = Cells
<1>1. /\ i \in Before(f) /\ ~LaterWrite(f, i)
      /\ body[f][i].kind = "CALL" /\ body[f][i].callee \in RngSources /\ body[f][i].first
  BY DEF RngSource, RngCalls, CallsInto
<1>2. Exact(body[f][i])
  BY <1>1, BeforeIsOps
<1>. QED  BY <1>1, <1>2 DEF Exact

LEMMA StoreReaches ==
    ASSUME StoresChecked, NEW f \in Functions, NEW i \in WeakSource(f)
    PROVE  i \in Before(f) /\ ~LaterWrite(f, i) /\ \E x \in Checked : x \in body[f][i].writes
BY DEF StoresChecked, WeakSource, WeakStores, Stores

LEMMA RngSound == TypeOK /\ MemoryInv => RngFactIsTrue
<1>. SUFFICES ASSUME TypeOK, MemoryInv, phase = "used", ExactProgram,
                     RngCalls(Main) # {} \/ ~WrittenBehindHop,
                     NEW v \in RngOrigins, NEW c \in Callers, NEW x \in Checked
              PROVE  memory[c][x] = v
  BY DEF RngFactIsTrue
<1>0. Main \in Functions /\ c \in Functions
  BY DEF Functions
<1>1. CASE RngCalls(Main) # {}
  <2>1. PICK i \in RngSource(Main) : v = body[Main][i].value
    BY <1>1 DEF RngOrigins, Values
  <2>2. i \in Before(Main) /\ ~LaterWrite(Main, i) /\ x \in body[Main][i].writes
    BY <1>0, RngFills, CheckedAssumption
  <2>. QED  BY <2>1, <2>2, MainWins
<1>2. CASE RngCalls(Main) = {}
  <2>1. Values(c, RngSource(c)) = {v}
    BY <1>2 DEF RngOrigins, FromCallers
  <2>2. PICK i \in RngSource(c) : v = body[c][i].value
    BY <2>1 DEF Values
  <2>3. i \in Before(c) /\ ~LaterWrite(c, i) /\ x \in body[c][i].writes
    BY <1>0, RngFills, CheckedAssumption
  <2>. QED  BY <1>2, <2>2, <2>3, CallerWins
<1>. QED  BY <1>1, <1>2

LEMMA WeakSound == TypeOK /\ MemoryInv => WeakFactIsTrue
<1>. SUFFICES ASSUME TypeOK, MemoryInv, phase = "used", ExactProgram, StoresChecked,
                     WeakStores(Main) # {} \/ ~WrittenBehindHop,
                     NEW v \in WeakOrigins, NEW c \in Callers
              PROVE  \E x \in Checked : memory[c][x] = v
  BY DEF WeakFactIsTrue
<1>0. Main \in Functions /\ c \in Functions
  BY DEF Functions
<1>1. CASE WeakStores(Main) # {}
  <2>1. PICK i \in WeakSource(Main) : v = body[Main][i].value
    BY <1>1 DEF WeakOrigins, Values
  <2>2. i \in Before(Main) /\ ~LaterWrite(Main, i)
    BY <1>0, StoreReaches
  <2>3. PICK x \in Checked : x \in body[Main][i].writes
    BY <1>0, StoreReaches
  <2>. QED  BY <2>1, <2>2, <2>3, MainWins
<1>2. CASE WeakStores(Main) = {}
  <2>1. Values(c, WeakSource(c)) = {v}
    BY <1>2 DEF WeakOrigins, FromCallers
  <2>2. PICK i \in WeakSource(c) : v = body[c][i].value
    BY <2>1 DEF Values
  <2>3. i \in Before(c) /\ ~LaterWrite(c, i)
    BY <1>0, StoreReaches
  <2>4. PICK x \in Checked : x \in body[c][i].writes
    BY <1>0, StoreReaches
  <2>. QED  BY <1>2, <2>2, <2>3, <2>4, CallerWins
<1>. QED  BY <1>1, <1>2

LEMMA FillSound == TypeOK /\ MemoryInv => ConstantFillIsTrue
<1>. SUFFICES ASSUME TypeOK, MemoryInv, phase = "used", ExactProgram,
                     NEW i \in FillSource(Main) \cup CopySource(Main),
                     NEW c \in Callers, NEW x \in Checked
              PROVE  memory[c][x] = "const"
  BY DEF ConstantFillIsTrue
<1>0. Main \in Functions
  BY DEF Functions
<1>1. i \in Before(Main) /\ ~LaterWrite(Main, i)
  BY NamedIsLastWrite
<1>2. /\ body[Main][i].kind = "CALL" /\ body[Main][i].first /\ body[Main][i].value = "const"
      /\ \/ body[Main][i].callee = "memset" /\ body[Main][i].covers
         \/ body[Main][i].callee \in {"memcpy", "memmove"}
  BY DEF FillSource, Fills, CopySource, Copies, CallsInto
<1>3. Checked \subseteq body[Main][i].writes
  BY <1>0, <1>1, <1>2, BeforeIsOps, CheckedAssumption DEF Exact
<1>. QED  BY <1>1, <1>2, <1>3, MainWins

(* In a program whose pointers and sizes are what they seem, an             *)
(* operand_origin fact is true of each of the first 16 bytes of the key on  *)
(* every path (tracer.py compares stack writes with no more than these).    *)
THEOREM RngFactSound == Spec => []RngFactIsTrue
<1>. QED  BY MemoryCorrect, RngSound, PTL

(* In such a program a weak_randomness fact is true of some of these bytes  *)
(* on every path, if the store it names wrote one of them.                  *)
THEOREM WeakFactSound == Spec => []WeakFactIsTrue
<1>. QED  BY MemoryCorrect, WeakSound, PTL

(* In such a program the first 16 bytes of a key said to be filled or       *)
(* copied from a constant are constant, on every path and whatever the size *)
(* of the key: a memset is asked for no more (required_size).               *)
THEOREM ConstantFillSound == Spec => []ConstantFillIsTrue
<1>. QED  BY MemoryCorrect, FillSound, PTL
=============================================================================
