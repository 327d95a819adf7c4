--------------------------- MODULE OperandTraceProofs ---------------------------
(****************************************************************************)
(* Proofs about OperandTrace for every program, every bound on hops and     *)
(* every order of the candidates.                                           *)
(****************************************************************************)
EXTENDS OperandTrace, FiniteSetTheorems, WellFoundedInduction, TLAPS

LEMMA DefinitionTypes ==
    ASSUME prog \in Program, NEW n \in Varnodes
    PROVE  /\ prog.def[n] \in Definition
           /\ prog.key[n] \in Keys
           /\ prog.def[n].op \in Literals \cup Hops \cup CutOps \cup {"COPY", "MULTIEQUAL"}
           /\ prog.def[n].origin \in Origins
           /\ prog.def[n].inputs \subseteq Varnodes
           /\ prog.def[n].lost \in BOOLEAN
BY DEF Program, Definition

LEMMA OutcomeTypes ==
    /\ \A t \in {"None", "INPUT", "CALL"} : Unresolved(t) \in Outcome
    /\ \A op \in CutOps : Unresolved(Terminal(op)) \in Outcome
    /\ \A op : Fallback(op) \in Outcome
    /\ Resolved \subseteq Outcome
    /\ \A t : Unresolved(t) \notin Resolved
BY OperandAssumption DEF Unresolved, Outcome, CutOps, Terminal, Fallback, Resolved, Literals

(* The rest of a stack and its last fork.                                   *)
LEMMA StackTypes ==
    ASSUME NEW stack \in Seq(Fork), stack # <<>>
    PROVE  /\ Rest(stack) \in Seq(Fork)
           /\ Last(stack) \in Fork
           /\ Len(stack) \in Nat \ {0}
           /\ Len(Rest(stack)) = Len(stack) - 1
           /\ \A i \in 1..Len(Rest(stack)) : Rest(stack)[i] = stack[i]
<1>1. Len(stack) \in Nat \ {0} /\ stack \in [1..Len(stack) -> Fork]
    OBVIOUS
<1>2. Last(stack) \in Fork
    BY <1>1 DEF Last
<1>3. /\ Len(Rest(stack)) = Len(stack) - 1
      /\ \A i \in 1..(Len(stack) - 1) : Rest(stack)[i] = stack[i]
    BY <1>1 DEF Rest
<1>4. Rest(stack) \in Seq(Fork)
    BY <1>1 DEF Rest
<1> QED
    BY <1>1, <1>2, <1>3, <1>4

LEMMA ForkTypes ==
    ASSUME NEW fork \in Fork
    PROVE  /\ \A outcome \in Outcome : Gather(fork, outcome) \in Fork
           /\ \A m \in Varnodes : Take(fork, m) \in Fork
BY DEF Fork, Gather, Take

LEMMA ReturnTypeOK ==
    ASSUME TypeOK, NEW stack \in Seq(Fork), NEW outcome \in Outcome, Return(outcome, stack)
    PROVE  TypeOK'
<1>1. CASE stack = <<>>
    BY <1>1 DEF Return, TypeOK
<1>2. CASE stack # <<>>
    <2>1. /\ Rest(stack) \in Seq(Fork)
          /\ Gather(Last(stack), outcome) \in Fork
        BY <1>2, StackTypes, ForkTypes
    <2>2. forks' \in Seq(Fork) /\ forks' # <<>>
        BY <1>2, <2>1 DEF Return
    <2> QED
        BY <1>2, <2>2 DEF Return, TypeOK
<1> QED
    BY <1>1, <1>2

LEMMA WaitTypes ==
    ASSUME TypeOK, NEW hops \in 0..MaxHops, Wait(hops)
    PROVE  forks' \in Seq(Fork) /\ forks' # <<>>
<1>1. Seen \in SUBSET Keys /\ Visit.inputs \in SUBSET Varnodes
    BY DefinitionTypes DEF TypeOK, Walk, Seen, Visit
<1>2. Lost \in SUBSET Outcome
    BY OutcomeTypes DEF Lost
<1>3. [at |-> walk.at, hops |-> hops, seen |-> Seen, todo |-> Visit.inputs, found |-> Lost]
          \in Fork
    BY <1>1, <1>2 DEF TypeOK, Walk, Fork
<1> QED
    BY <1>3 DEF Wait, TypeOK

LEMMA NextTypeOK == TypeOK /\ [Next]_vars => TypeOK'
<1> SUFFICES ASSUME TypeOK, [Next]_vars PROVE TypeOK'
    OBVIOUS
<1>0. /\ walk.at \in Varnodes /\ walk.hops \in 0..MaxHops /\ walk.seen \subseteq Keys
      /\ Visit.op \in Literals \cup Hops \cup CutOps \cup {"COPY", "MULTIEQUAL"}
      /\ Visit.origin \in Origins
      /\ Visit.inputs \subseteq Varnodes
      /\ Seen \subseteq Keys
      /\ forks \in Seq(Fork)
    BY DefinitionTypes DEF TypeOK, Walk, Visit, Seen
<1>1. CASE Cycle
    BY <1>0, <1>1, OutcomeTypes, ReturnTypeOK DEF Cycle
<1>2. CASE Literal
    <2>1. [terminal |-> Visit.op, origin |-> Visit.origin] \in Outcome
        BY <1>0, <1>2 DEF Literal, Outcome
    <2> QED
        BY <1>0, <1>2, <2>1, ReturnTypeOK DEF Literal
<1>3. CASE Cut
    BY <1>0, <1>3, OutcomeTypes, ReturnTypeOK DEF Cut
<1>4. CASE Exhausted
    BY <1>0, <1>4, OutcomeTypes, ReturnTypeOK DEF Exhausted
<1>5. CASE Copy
    BY <1>0, <1>5 DEF Copy, TypeOK, Walk
<1>6. CASE Merge
    BY <1>0, <1>6, WaitTypes DEF Merge, TypeOK
<1>7. CASE Hop
    <2>1. walk.hops - 1 \in 0..MaxHops
        BY <1>0, <1>7, OperandAssumption DEF Hop
    <2> QED
        BY <2>1, <1>7, WaitTypes DEF Hop, TypeOK
<1>8. ASSUME NEW m \in Varnodes, Candidate(m) PROVE TypeOK'
    <2>1. forks # <<>> /\ Top \in Fork
        BY <1>0, <1>8, StackTypes DEF Candidate, TypeOK, Top
    <2>2. Rest(forks) \in Seq(Fork) /\ Take(Top, m) \in Fork
        BY <1>0, <2>1, StackTypes, ForkTypes
    <2>3. forks' \in Seq(Fork)
        BY <1>8, <2>2 DEF Candidate
    <2>4. walk' \in Walk
        BY <1>8, <2>1 DEF Candidate, Walk, Fork
    <2> QED
        BY <1>8, <2>3, <2>4 DEF Candidate, TypeOK
<1>9. ASSUME phase = "fork" PROVE Rest(forks) \in Seq(Fork) /\ Top \in Fork
    BY <1>0, <1>9, StackTypes DEF TypeOK, Top
<1>10. CASE Agree
    <2>1. Top.found \subseteq Outcome
        BY <1>9, <1>10 DEF Agree, Fork
    <2> QED
        BY <1>9, <1>10, <2>1, ReturnTypeOK DEF Agree
<1>11. CASE Disagree
    BY <1>9, <1>11, OutcomeTypes, ReturnTypeOK DEF Disagree
<1>12. CASE UNCHANGED vars
    BY <1>12 DEF vars, TypeOK
<1> QED
    BY <1>1, <1>2, <1>3, <1>4, <1>5, <1>6, <1>7, <1>8, <1>10, <1>11, <1>12 DEF Next

LEMMA InitTypeOK == Init => TypeOK
BY OperandAssumption, ProgramsAssumption, OutcomeTypes DEF Init, TypeOK, Walk

(* The state of _walk and of the calls that wait for it keeps its types; in *)
(* particular no candidate is walked with more hops than the bound or with  *)
(* less than none.                                                          *)
THEOREM TypeCorrect == Spec => []TypeOK
<1> QED
    BY InitTypeOK, NextTypeOK, PTL DEF Spec

(****************************************************************************)
(* The reference evaluation.  Derivable's rounds grow from the literals     *)
(* upwards to the least set of pairs that are justified by their inputs.    *)
(****************************************************************************)
Pairs == Varnodes \X (0..MaxHops)
Justify(known, outcome) ==
    {pair \in Pairs : Justified(pair[1], pair[2], outcome, known)}
Closed(set, outcome) == Justify(set, outcome) \subseteq set
Least(outcome) ==
    {pair \in Pairs : \A set \in SUBSET Pairs : Closed(set, outcome) => pair \in set}

LEMMA JustifyMonotone ==
    ASSUME NEW S, NEW T, S \subseteq T, NEW outcome
    PROVE  Justify(S, outcome) \subseteq Justify(T, outcome)
BY DEF Justify, Justified

LEMMA LeastIsFixed ==
    ASSUME NEW outcome
    PROVE  Justify(Least(outcome), outcome) = Least(outcome)
<1> DEFINE L == Least(outcome)
           J == Justify(L, outcome)
<1>1. L \in SUBSET Pairs /\ J \in SUBSET Pairs
    BY DEF Least, Justify
<1>2. ASSUME NEW S \in SUBSET Pairs, Closed(S, outcome) PROVE L \subseteq S
    BY <1>2 DEF Least
<1>3. J \subseteq L
    <2> SUFFICES ASSUME NEW p \in J, NEW S \in SUBSET Pairs, Closed(S, outcome) PROVE p \in S
        BY <1>1 DEF Least
    <2>1. J \subseteq Justify(S, outcome)
        BY <1>2, JustifyMonotone
    <2> QED
        BY <2>1 DEF Closed
<1>4. Closed(J, outcome)
    BY <1>3, JustifyMonotone DEF Closed
<1> QED
    BY <1>1, <1>2, <1>3, <1>4

LEMMA Minimum ==
    ASSUME NEW T \in SUBSET Nat, T # {}
    PROVE  \E n \in T : \A k \in T : n <= k
<1>1. PICK R : R = OpToRel(<, Nat)
    OBVIOUS
<1>2. IsWellFoundedOn(R, Nat)
    BY <1>1, NatLessThanWellFounded
<1>3. PICK n \in T : \A k \in T : <<k, n>> \notin R
    BY <1>2, WFMin
<1>4. \A k \in T : ~(k < n)
    BY <1>1, <1>3 DEF OpToRel
<1> QED
    BY <1>4

(* Induction up to N, for a set of numbers.                                 *)
LEMMA Induction ==
    ASSUME NEW N \in Nat, NEW T, 0 \in T, \A i \in 1..N : i - 1 \in T => i \in T
    PROVE  \A i \in 0..N : i \in T
<1> SUFFICES ASSUME (0..N) \ T # {} PROVE FALSE
    OBVIOUS
<1>1. (0..N) \ T \in SUBSET Nat
    OBVIOUS
<1>2. PICK n \in (0..N) \ T : \A k \in (0..N) \ T : n <= k
    BY <1>1, Minimum
<1>3. n \in 1..N /\ n - 1 \in 0..N /\ ~(n <= n - 1)
    BY <1>2
<1> QED
    BY <1>2, <1>3

(* A function defined from its value before, up to N.                       *)
Iterates(f, N, A, a, g) ==
    f \in [0..N -> A] /\ f[0] = a /\ \A i \in 1..N : f[i] = g[<<f[i - 1], i>>]

LEMMA Recursion ==
    ASSUME NEW N \in Nat, NEW A, NEW a \in A, NEW g \in [A \X (1..N) -> A]
    PROVE  \E f : Iterates(f, N, A, a, g)
<1> DEFINE Is(f, k) == /\ f \in [0..k -> A] /\ f[0] = a
                       /\ \A i \in 1..k : f[i] = g[<<f[i - 1], i>>]
           T == {k \in 0..N : \E f : Is(f, k)}
<1>1. 0 \in T
    <2>1. Is([i \in 0..0 |-> a], 0)
        OBVIOUS
    <2> HIDE DEF Is
    <2> QED
        BY <2>1
<1>2. ASSUME NEW k \in 1..N, k - 1 \in T PROVE k \in T
    <2>1. PICK f : Is(f, k - 1)
        BY <1>2
    <2>2. PICK x : x = g[<<f[k - 1], k>>]
        OBVIOUS
    <2> DEFINE h == [i \in 0..k |-> IF i = k THEN x ELSE f[i]]
    <2>3. x \in A /\ \A i \in 0..(k - 1) : f[i] \in A
        BY <2>1, <2>2
    <2>4. h \in [0..k -> A] /\ h[0] = a
        BY <2>1, <2>3
    <2>5. ASSUME NEW i \in 1..k PROVE h[i] = g[<<h[i - 1], i>>]
        <3>1. h[i - 1] = f[i - 1]
            OBVIOUS
        <3>2. CASE i = k
            <4>1. h[i] = x /\ <<h[i - 1], i>> = <<f[k - 1], k>>
                BY <3>1, <3>2
            <4> HIDE DEF h
            <4> QED
                BY <2>2, <4>1
        <3>3. CASE i # k
            <4>1. i \in 1..(k - 1) /\ h[i] = f[i]
                BY <3>3
            <4> QED
                BY <2>1, <3>1, <4>1
        <3> QED
            BY <3>2, <3>3
    <2>6. Is(h, k)
        BY <2>4, <2>5
    <2> HIDE DEF h, Is
    <2> QED
        BY <2>6
<1>3. N \in T
    <2> HIDE DEF T
    <2> QED
        BY <1>1, <1>2, Induction
<1>4. PICK f : Is(f, N)
    BY <1>3
<1>5. Iterates(f, N, A, a, g)
    BY <1>4 DEF Iterates
<1> QED
    BY <1>5

Rounds == Cardinality(Varnodes) * (MaxHops + 1)
IsUpto(upto, N, outcome) ==
    upto = [i \in 0..N |-> IF i = 0 THEN {} ELSE Justify(upto[i - 1], outcome)]
Upto(outcome) == CHOOSE upto : IsUpto(upto, Rounds, outcome)

LEMMA RoundsFacts ==
    /\ Rounds \in Nat /\ MaxHops \in Nat
    /\ IsFiniteSet(Pairs) /\ Cardinality(Pairs) = Rounds
<1>1. Cardinality(Varnodes) \in Nat /\ MaxHops \in Nat
    BY VarnodesAssumption, OperandAssumption, FS_CardinalityType
<1>2. IsFiniteSet(0..MaxHops) /\ Cardinality(0..MaxHops) = MaxHops + 1
    BY <1>1, FS_Interval
<1>3. IsFiniteSet(Pairs) /\ Cardinality(Pairs) = Cardinality(Varnodes) * (MaxHops + 1)
    BY <1>2, VarnodesAssumption, FS_Product DEF Pairs
<1>4. Cardinality(Pairs) \in Nat
    BY <1>3, FS_CardinalityType
<1> QED
    BY <1>1, <1>3, <1>4 DEF Rounds

LEMMA UptoExists ==
    ASSUME NEW outcome, NEW N \in Nat
    PROVE  \E upto : IsUpto(upto, N, outcome)
<1> DEFINE A == SUBSET Pairs
           g == [pair \in A \X (1..N) |-> Justify(pair[1], outcome)]
<1>1. {} \in A /\ \A S : Justify(S, outcome) \in A
    BY DEF Justify
<1>2. g \in [A \X (1..N) -> A] /\ \A S \in A, i \in 1..N : g[<<S, i>>] = Justify(S, outcome)
    BY <1>1
<1> HIDE DEF A, g
<1>3. PICK f : Iterates(f, N, A, {}, g)
    BY <1>1, <1>2, Recursion
<1>4. /\ f = [i \in 0..N |-> f[i]] /\ f[0] = {}
      /\ \A i \in 1..N : i - 1 \in 0..N /\ f[i - 1] \in A /\ f[i] = g[<<f[i - 1], i>>]
    BY <1>3 DEF Iterates
<1>5. ASSUME NEW i \in 0..N PROVE f[i] = IF i = 0 THEN {} ELSE Justify(f[i - 1], outcome)
    <2>1. CASE i = 0
        BY <1>4, <2>1
    <2>2. CASE i # 0
        <3>1. i \in 1..N
            BY <2>2
        <3>2. f[i] = g[<<f[i - 1], i>>] /\ f[i - 1] \in A
            BY <1>4, <3>1
        <3> QED
            BY <1>2, <2>2, <3>1, <3>2
    <2> QED
        BY <2>1, <2>2
<1>6. [i \in 0..N |-> f[i]] = [i \in 0..N |-> IF i = 0 THEN {} ELSE Justify(f[i - 1], outcome)]
    BY <1>5
<1>7. f = [i \in 0..N |-> IF i = 0 THEN {} ELSE Justify(f[i - 1], outcome)]
    BY <1>4, <1>6
<1>8. IsUpto(f, N, outcome)
    BY <1>7 DEF IsUpto
<1> QED
    BY <1>8

(* The rounds grow, and what resolves with some hops does with more.        *)
LEMMA UptoFacts ==
    ASSUME NEW outcome
    PROVE  LET u == Upto(outcome) IN
           /\ Derivable(outcome) = u[Rounds]
           /\ u[0] = {}
           /\ \A i \in 1..Rounds : u[i] = Justify(u[i - 1], outcome)
           /\ \A i \in 0..Rounds : u[i] \subseteq Pairs
           /\ \A i \in 1..Rounds : u[i - 1] \subseteq u[i]
           /\ \A i \in 0..Rounds : \A n \in Varnodes : \A g, h \in 0..MaxHops :
                  g <= h /\ <<n, g>> \in u[i] => <<n, h>> \in u[i]
<1> DEFINE u == Upto(outcome)
<1>0. IsUpto(u, Rounds, outcome)
    BY RoundsFacts, UptoExists DEF Upto
<1>1. Derivable(outcome) = u[Rounds]
    BY DEF Derivable, Upto, IsUpto, Justify, Rounds, Pairs
<1> HIDE DEF u
<1>2. u[0] = {} /\ \A i \in 1..Rounds : u[i] = Justify(u[i - 1], outcome)
    <2>1. u = [i \in 0..Rounds |-> IF i = 0 THEN {} ELSE Justify(u[i - 1], outcome)]
        BY <1>0 DEF IsUpto
    <2>2. \A i \in 0..Rounds : u[i] = IF i = 0 THEN {} ELSE Justify(u[i - 1], outcome)
        BY <2>1
    <2>3. 0 \in 0..Rounds /\ \A i \in 1..Rounds : i \in 0..Rounds /\ i # 0
        BY RoundsFacts
    <2> QED
        BY <2>2, <2>3
<1>3. \A i \in 0..Rounds : u[i] \subseteq Pairs
    BY <1>2, RoundsFacts DEF Justify
<1>4. \A i \in 1..Rounds : u[i - 1] \subseteq u[i]
    <2> DEFINE T == {i \in 0..Rounds : i > 0 => u[i - 1] \subseteq u[i]}
    <2>1. 0 \in T
        BY RoundsFacts
    <2>2. ASSUME NEW i \in 1..Rounds, i - 1 \in T PROVE i \in T
        <3>1. CASE i = 1
            BY <1>2, <3>1
        <3>2. CASE i # 1
            <4>1. i - 1 \in 1..Rounds /\ u[i - 1 - 1] \subseteq u[i - 1]
                BY <2>2, <3>2
            <4>2. Justify(u[i - 1 - 1], outcome) \subseteq Justify(u[i - 1], outcome)
                BY <4>1, JustifyMonotone
            <4>3. u[i - 1] \subseteq u[i]
                BY <1>2, <4>1, <4>2
            <4> QED
                BY <4>3
        <3> QED
            BY <3>1, <3>2
    <2>3. \A i \in 0..Rounds : i \in T
        <3> HIDE DEF T
        <3> QED
            BY <2>1, <2>2, RoundsFacts, Induction
    <2> QED
        BY <2>3
<1>5. \A i \in 0..Rounds : \A n \in Varnodes : \A g, h \in 0..MaxHops :
          g <= h /\ <<n, g>> \in u[i] => <<n, h>> \in u[i]
    <2> DEFINE T == {i \in 0..Rounds : \A n \in Varnodes : \A g, h \in 0..MaxHops :
                        g <= h /\ <<n, g>> \in u[i] => <<n, h>> \in u[i]}
    <2>1. 0 \in T
        BY <1>2, RoundsFacts
    <2>2. ASSUME NEW i \in 1..Rounds, i - 1 \in T PROVE i \in T
        <3> SUFFICES ASSUME NEW n \in Varnodes, NEW g \in 0..MaxHops, NEW h \in 0..MaxHops,
                            g <= h, <<n, g>> \in u[i]
                     PROVE  <<n, h>> \in u[i]
            OBVIOUS
        <3>1. Justified(n, g, outcome, u[i - 1])
            BY <1>2 DEF Justify
        <3>2. \A m \in Varnodes : \A x, y \in 0..MaxHops :
                  x <= y /\ <<m, x>> \in u[i - 1] => <<m, y>> \in u[i - 1]
            BY <2>2
        <3>3. u[i - 1] \in SUBSET Pairs
            BY <1>3, RoundsFacts
        <3> SUFFICES Justified(n, h, outcome, u[i - 1])
            BY <1>2 DEF Justify, Pairs
        <3> DEFINE d == prog.def[n]
        <3>0. /\ h \in Nat /\ \A m \in d.inputs : \A x : <<m, x>> \in u[i - 1] => m \in Varnodes
              /\ \A known, y : Justified(n, y, outcome, known) <=>
                    \/ d.op = outcome.terminal /\ d.origin = outcome.origin
                    \/ /\ d.op \in {"COPY", "MULTIEQUAL"} \cup Hops
                       /\ ~d.lost /\ d.inputs # {}
                       /\ d.op \in Hops => y > 0
                       /\ \A m \in d.inputs :
                             <<m, IF d.op \in Hops THEN y - 1 ELSE y>> \in known
            BY <3>3, RoundsFacts DEF Pairs, Justified
        <3> HIDE DEF d
        <3>4. CASE d.op = outcome.terminal /\ d.origin = outcome.origin
            BY <3>0, <3>4
        <3>5. CASE /\ d.op \in {"COPY", "MULTIEQUAL"} \cup Hops
                   /\ ~d.lost /\ d.inputs # {}
                   /\ d.op \in Hops => g > 0
                   /\ \A m \in d.inputs :
                         <<m, IF d.op \in Hops THEN g - 1 ELSE g>> \in u[i - 1]
            <4>1. CASE d.op \in Hops
                <5>1. g > 0 /\ h > 0 /\ g - 1 \in 0..MaxHops /\ h - 1 \in 0..MaxHops
                      /\ g - 1 <= h - 1
                    BY <3>5, <4>1, RoundsFacts
                <5>2. \A m \in d.inputs : <<m, g - 1>> \in u[i - 1]
                    BY <3>5, <4>1
                <5>3. \A m \in d.inputs : <<m, h - 1>> \in u[i - 1]
                    BY <3>0, <3>2, <5>1, <5>2
                <5> QED
                    BY <3>0, <3>5, <4>1, <5>1, <5>3
            <4>2. CASE d.op \notin Hops
                <5>1. \A m \in d.inputs : <<m, g>> \in u[i - 1]
                    BY <3>5, <4>2
                <5>2. \A m \in d.inputs : <<m, h>> \in u[i - 1]
                    BY <3>0, <3>2, <5>1
                <5> QED
                    BY <3>0, <3>5, <4>2, <5>2
            <4> QED
                BY <4>1, <4>2
        <3> QED
            BY <3>0, <3>1, <3>4, <3>5
    <2>3. \A i \in 0..Rounds : i \in T
        <3> HIDE DEF T
        <3> QED
            BY <2>1, <2>2, RoundsFacts, Induction
    <2> QED
        BY <2>3
<1> QED
    BY <1>1, <1>2, <1>3, <1>4, <1>5 DEF u

(* There are rounds enough: each adds a pair until nothing is missing.      *)
LEMMA LeastIsDerivable ==
    ASSUME NEW outcome
    PROVE  Least(outcome) \subseteq Derivable(outcome)
<1>1. PICK u : u = Upto(outcome)
    OBVIOUS
<1>2. /\ Derivable(outcome) = u[Rounds]
      /\ \A i \in 1..Rounds : u[i] = Justify(u[i - 1], outcome) /\ u[i - 1] \subseteq u[i]
      /\ \A i \in 0..Rounds : u[i] \in SUBSET Pairs
    BY <1>1, UptoFacts
<1>3. \A i \in 0..Rounds : IsFiniteSet(u[i]) /\ Cardinality(u[i]) \in Nat
    BY <1>2, RoundsFacts, FS_Subset, FS_CardinalityType
<1> DEFINE T == {i \in 0..Rounds : Closed(u[i], outcome) \/ Cardinality(u[i]) >= i}
<1>4. 0 \in T
    BY <1>3, RoundsFacts
<1>5. ASSUME NEW i \in 1..Rounds, i - 1 \in T PROVE i \in T
    <2>0. i - 1 \in 0..Rounds /\ i \in 0..Rounds /\ i \in Nat
        BY RoundsFacts
    <2>1. u[i] = Justify(u[i - 1], outcome) /\ u[i - 1] \subseteq u[i]
        BY <1>2
    <2>2. CASE u[i] = u[i - 1]
        <3>1. Closed(u[i], outcome)
            BY <2>1, <2>2 DEF Closed
        <3> QED
            BY <2>0, <3>1
    <2>3. CASE u[i] # u[i - 1]
        <3>1. ~Closed(u[i - 1], outcome)
            BY <2>1, <2>3 DEF Closed
        <3>2. Cardinality(u[i - 1]) >= i - 1
            BY <1>5, <3>1
        <3>3. /\ Cardinality(u[i - 1]) <= Cardinality(u[i])
              /\ Cardinality(u[i]) # Cardinality(u[i - 1])
            BY <1>3, <2>0, <2>1, <2>3, FS_Subset
        <3>4. Cardinality(u[i]) \in Nat /\ Cardinality(u[i - 1]) \in Nat
            BY <1>3, <2>0
        <3>5. Cardinality(u[i]) >= i
            BY <2>0, <3>2, <3>3, <3>4
        <3> QED
            BY <2>0, <3>5
    <2> QED
        BY <2>2, <2>3
<1>6. \A i \in 0..Rounds : i \in T
    <2> HIDE DEF T
    <2> QED
        BY <1>4, <1>5, RoundsFacts, Induction
<1>7. Closed(u[Rounds], outcome) \/ Cardinality(u[Rounds]) >= Rounds
    BY <1>6, RoundsFacts
<1>8. ASSUME Cardinality(u[Rounds]) >= Rounds PROVE u[Rounds] = Pairs
    <2>1. /\ u[Rounds] \in SUBSET Pairs /\ Cardinality(u[Rounds]) \in Nat
          /\ Cardinality(u[Rounds]) <= Cardinality(Pairs)
          /\ Cardinality(Pairs) = Cardinality(u[Rounds]) => Pairs = u[Rounds]
        BY <1>2, <1>3, RoundsFacts, FS_Subset
    <2> QED
        BY <1>8, <2>1, RoundsFacts
<1>9. Closed(u[Rounds], outcome)
    BY <1>7, <1>8 DEF Closed, Justify
<1>10. u[Rounds] \in SUBSET Pairs
    BY <1>2, RoundsFacts
<1> QED
    BY <1>2, <1>9, <1>10 DEF Least

(* What resolves is a value the varnode must have.                          *)
LEMMA LeastDenotes ==
    ASSUME NEW outcome \in Resolved, NEW pair \in Least(outcome)
    PROVE  pair[1] \in Denoting(outcome, Shown)
<1> DEFINE L == Least(outcome)
           set == {n \in Varnodes : \E h \in 0..MaxHops : <<n, h>> \in L}
<1>1. \A p \in L : p[1] \in set
    BY DEF Least, Pairs
<1>2. ASSUME NEW n \in set
      PROVE  LET d == prog.def[n] IN
             \/ d.op \in Literals /\ d.op = outcome.terminal /\ d.origin = outcome.origin
             \/ /\ d.op \in Hops \cup {"COPY", "MULTIEQUAL"}
                /\ ~d.lost
                /\ Shown[n] # {} /\ Shown[n] \subseteq set
    <2>1. PICK h \in 0..MaxHops : <<n, h>> \in L
        OBVIOUS
    <2>2. <<n, h>> \in Justify(L, outcome)
        BY <2>1, LeastIsFixed
    <2>3. Justified(n, h, outcome, L)
        BY <2>2 DEF Justify
    <2>4. Shown[n] = prog.def[n].inputs
        BY DEF Shown
    <2>5. outcome.terminal \in Literals
        BY DEF Resolved
    <2>6. ASSUME NEW m, NEW g, <<m, g>> \in L PROVE m \in set
        BY <1>1, <2>6
    <2> HIDE DEF L, set
    <2> QED
        BY <2>3, <2>4, <2>5, <2>6 DEF Justified
<1>3. OnlyFrom(set, outcome, Shown)
    BY <1>2 DEF OnlyFrom
<1>4. set \in SUBSET Varnodes /\ pair[1] \in set
    BY <1>1
<1> HIDE DEF set
<1> QED
    BY <1>3, <1>4 DEF Denoting

(****************************************************************************)
(* Soundness.  An outcome returned for a varnode resolves it, once what the *)
(* forks below wait for is known to resolve their varnodes.                 *)
(****************************************************************************)
Den == [outcome \in Resolved |-> Least(outcome)]

Denotes(outcome, pair) == outcome \in Resolved => pair \in Den[outcome]
(* Whatever resolves p resolves q, which was copied from it.                *)
Follows(p, q) == \A outcome \in Resolved : p \in Den[outcome] => q \in Den[outcome]

Inputs(fork) == prog.def[fork.at].inputs
(* The varnode of a fork, with the hops that were left when it was visited. *)
Place(fork) ==
    <<fork.at, IF prog.def[fork.at].op \in Hops THEN fork.hops + 1 ELSE fork.hops>>
Covers(fork, m) == \E outcome \in fork.found : Denotes(outcome, <<m, fork.hops>>)
(* The fork waits for one candidate, which the walk at pair answers.        *)
Waits(fork, pair) ==
    \E c \in Inputs(fork) :
        /\ Follows(pair, <<c, fork.hops>>)
        /\ \A m \in Inputs(fork) \ (fork.todo \cup {c}) : Covers(fork, m)

ForkOK(fork) ==
    /\ prog.def[fork.at].op \in Hops \cup {"MULTIEQUAL"}
    /\ Place(fork) \in Pairs
    /\ fork.todo \subseteq Inputs(fork)
    /\ prog.def[fork.at].lost => Unresolved("INPUT") \in fork.found
    /\ fork.found # {} => prog.def[fork.at].lost \/ Inputs(fork) # {}

(* The forks of a stack, each waiting for the one above it, the last one    *)
(* for pair.                                                                *)
Root == <<Operand, MaxHops>>
StackOK(stack, pair) ==
    /\ \A i \in 1..Len(stack) : ForkOK(stack[i])
    /\ \A i \in 1..(Len(stack) - 1) : Waits(stack[i], Place(stack[i + 1]))
    /\ IF stack = <<>> THEN Follows(pair, Root)
                       ELSE Follows(Place(stack[1]), Root) /\ Waits(Last(stack), pair)

WalkInv ==
    /\ prog \in Programs
    /\ phase = "walk" => StackOK(forks, <<walk.at, walk.hops>>)
    /\ phase = "fork" => /\ ForkOK(Top)
                         /\ StackOK(Rest(forks), Place(Top))
                         /\ \A m \in Inputs(Top) \ Top.todo : Covers(Top, m)
    /\ phase = "done" => Denotes(result, Root)

LEMMA DenStable == prog' = prog => Den' = Den
BY DEF Den, Least, Closed, Justify, Justified

LEMMA StackStable ==
    ASSUME prog' = prog
    PROVE  /\ \A fork : /\ Place(fork)' = Place(fork) /\ Inputs(fork)' = Inputs(fork)
                        /\ ForkOK(fork) => ForkOK(fork)'
           /\ \A fork, m : Covers(fork, m) => Covers(fork, m)'
           /\ \A stack, pair : StackOK(stack, pair) => StackOK(stack, pair)'
<1>1. Den' = Den
    BY DenStable
<1>2. \A fork : /\ Place(fork)' = Place(fork) /\ Inputs(fork)' = Inputs(fork)
                /\ ForkOK(fork) => ForkOK(fork)'
    BY DEF ForkOK, Inputs, Place
<1>3. \A fork, m : Covers(fork, m) <=> Covers(fork, m)'
    BY <1>1 DEF Covers, Denotes
<1>4. \A p, q : Follows(p, q) <=> Follows(p, q)'
    BY <1>1 DEF Follows
<1>5. \A fork, pair : Waits(fork, pair) <=> Waits(fork, pair)'
    BY <1>3, <1>4, <1>2 DEF Waits
<1>6. ASSUME NEW stack, NEW pair, StackOK(stack, pair) PROVE StackOK(stack, pair)'
    BY <1>2, <1>4, <1>5, <1>6 DEF StackOK
<1> QED
    BY <1>2, <1>3, <1>6

(* What resolves the sources of a varnode resolves the varnode.             *)
LEMMA DenClosed ==
    ASSUME prog \in Program, NEW n \in Varnodes, NEW h \in 0..MaxHops,
           NEW outcome \in Resolved
    PROVE  /\ prog.def[n].op \in Literals
              /\ outcome = [terminal |-> prog.def[n].op, origin |-> prog.def[n].origin]
              => <<n, h>> \in Den[outcome]
           /\ \A g \in 0..MaxHops :
                 /\ prog.def[n].op \in Hops \cup {"COPY", "MULTIEQUAL"}
                 /\ ~prog.def[n].lost
                 /\ h = IF prog.def[n].op \in Hops THEN g + 1 ELSE g
                 /\ prog.def[n].inputs # {}
                 /\ \A m \in prog.def[n].inputs : <<m, g>> \in Den[outcome]
                 => <<n, h>> \in Den[outcome]
<1>1. Den[outcome] = Justify(Den[outcome], outcome)
    BY LeastIsFixed DEF Den
<1>2. ASSUME Justified(n, h, outcome, Den[outcome]) PROVE <<n, h>> \in Den[outcome]
    BY <1>1, <1>2 DEF Justify, Pairs
<1>3. MaxHops \in Nat
    BY OperandAssumption
<1> QED
    BY <1>2, <1>3 DEF Justified

(* A call that returns what denotes n keeps the invariant.                  *)
LEMMA ReturnInv ==
    ASSUME prog \in Programs, NEW stack \in Seq(Fork), NEW outcome \in Outcome,
           NEW n, StackOK(stack, n), Denotes(outcome, n), Return(outcome, stack)
    PROVE  WalkInv'
<1>0. prog' = prog /\ Den' = Den
    BY DenStable DEF Return
<1>1. CASE stack = <<>>
    <2>1. Denotes(outcome, Root)
        BY <1>1 DEF StackOK, Follows, Denotes
    <2> QED
        BY <1>0, <1>1, <2>1 DEF Return, WalkInv, Denotes
<1>2. CASE stack # <<>>
    <2> DEFINE low == Rest(stack)
               old == Last(stack)
               new == Gather(old, outcome)
    <2>1. /\ low \in Seq(Fork) /\ old \in Fork /\ new \in Fork
          /\ Len(stack) \in Nat \ {0} /\ Len(low) = Len(stack) - 1
          /\ \A i \in 1..Len(low) : low[i] = stack[i]
          /\ old = stack[Len(stack)]
        BY <1>2, StackTypes, ForkTypes DEF Last
    <2>2. forks' = Append(low, new) /\ phase' = "fork"
        BY <1>2 DEF Return
    <2>3. Top' = new /\ Rest(forks)' = low
        BY <2>1, <2>2 DEF Top, Last, Rest
    <2>4. Place(new) = Place(old) /\ new.at = old.at /\ new.hops = old.hops
          /\ new.todo = old.todo /\ new.found = old.found \cup {outcome}
        BY DEF Gather, Place
    <2>5. PICK c \in Inputs(old) :
              /\ Follows(n, <<c, old.hops>>)
              /\ \A m \in Inputs(old) \ (old.todo \cup {c}) : Covers(old, m)
        BY <1>2 DEF StackOK, Waits
    <2>6. Denotes(outcome, <<c, old.hops>>)
        BY <2>5 DEF Follows, Denotes
    <2>7. \A m \in Inputs(new) \ new.todo : Covers(new, m)
        BY <2>4, <2>5, <2>6 DEF Covers, Inputs
    <2>8. ForkOK(new)
        <3>1. ForkOK(old)
            BY <2>1 DEF StackOK
        <3>2. Inputs(old) # {}
            BY <2>5
        <3> QED
            BY <2>4, <3>1, <3>2 DEF ForkOK, Inputs
    <2>9. StackOK(low, Place(new))
        <3>1. \A i \in 1..Len(low) : ForkOK(low[i])
            BY <2>1 DEF StackOK
        <3>2. \A i \in 1..(Len(low) - 1) : Waits(low[i], Place(low[i + 1]))
            BY <2>1 DEF StackOK
        <3>3. CASE low = <<>>
            <4>1. Len(stack) = 1
                BY <2>1, <3>3
            <4>2. Follows(Place(old), Root)
                BY <1>2, <2>1, <4>1 DEF StackOK
            <4> QED
                BY <2>4, <3>1, <3>2, <3>3, <4>2 DEF StackOK
        <3>4. CASE low # <<>>
            <4>1. Len(stack) - 1 \in 1..Len(low) /\ Len(stack) - 1 \in 1..(Len(stack) - 1)
                BY <2>1, <3>4
            <4>2. Last(low) = stack[Len(stack) - 1] /\ low[1] = stack[1]
                BY <2>1, <4>1 DEF Last
            <4>3. Waits(stack[Len(stack) - 1], Place(stack[Len(stack) - 1 + 1]))
                BY <4>1 DEF StackOK
            <4>4. Waits(Last(low), Place(old))
                BY <2>1, <4>2, <4>3
            <4>5. Follows(Place(low[1]), Root)
                BY <1>2, <4>2 DEF StackOK
            <4> QED
                BY <2>4, <3>1, <3>2, <3>4, <4>4, <4>5 DEF StackOK
        <3> QED
            BY <3>3, <3>4
    <2> HIDE DEF low, old, new
    <2>10. /\ ForkOK(Top)' /\ StackOK(Rest(forks), Place(Top))'
           /\ \A m \in (Inputs(Top) \ Top.todo)' : Covers(Top, m)'
        <3>1. PICK s, f, q : s = low /\ f = new /\ q = Place(f)
            OBVIOUS
        <3>2. /\ ForkOK(f)' /\ StackOK(s, q)' /\ q' = Place(f)' /\ Inputs(f)' = Inputs(f)
              /\ \A m \in Inputs(f) \ f.todo : Covers(f, m)'
            BY <1>0, <2>7, <2>8, <2>9, <3>1, StackStable
        <3>3. Top' = f /\ Rest(forks)' = s
            BY <2>3, <3>1
        <3> QED
            BY <3>2, <3>3
    <2> QED
        BY <1>0, <2>2, <2>10 DEF WalkInv
<1> QED
    BY <1>1, <1>2

(* What the walk copied stands for the copy.                                *)
LEMMA StackFollows ==
    ASSUME NEW stack, NEW n, NEW m, StackOK(stack, n), Follows(m, n)
    PROVE  StackOK(stack, m)
BY DEF StackOK, Waits, Follows

(* A fork is pushed, with all its candidates still to walk.                 *)
LEMMA WaitInv ==
    ASSUME TypeOK, prog \in Programs, StackOK(forks, <<walk.at, walk.hops>>),
           Visit.op \in Hops \cup {"MULTIEQUAL"},
           NEW hops \in 0..MaxHops,
           walk.hops = IF Visit.op \in Hops THEN hops + 1 ELSE hops,
           Wait(hops), phase' = "fork", prog' = prog
    PROVE  WalkInv'
<1>0. Den' = Den
    BY DenStable
<1>1. PICK new : new = [at |-> walk.at, hops |-> hops, seen |-> Seen,
                        todo |-> Visit.inputs, found |-> Lost]
    OBVIOUS
<1>2. PICK stack \in Seq(Fork) : stack = forks
    BY DEF TypeOK
<1>3. forks' = Append(stack, new)
    BY <1>1, <1>2 DEF Wait
<1>4. Top' = new /\ Rest(forks)' = stack
    BY <1>2, <1>3 DEF Top, Last, Rest
<1>5. /\ new.at = walk.at /\ new.todo = prog.def[walk.at].inputs /\ new.found = Lost
      /\ Place(new) = <<walk.at, walk.hops>> /\ Place(new) \in Pairs
    BY <1>1 DEF Visit, Place, TypeOK, Walk, Pairs
<1>6. ForkOK(new) /\ Inputs(new) \ new.todo = {} /\ StackOK(stack, Place(new))
    BY <1>2, <1>5 DEF ForkOK, Inputs, Lost, Visit
<1>7. PICK q : q = Place(new)
    OBVIOUS
<1>8. /\ ForkOK(new)' /\ Inputs(new)' = Inputs(new) /\ Place(new)' = q
      /\ StackOK(stack, q)'
    BY <1>6, <1>7, StackStable
<1>9. /\ ForkOK(Top)' /\ Inputs(Top)' \ Top'.todo = {}
      /\ StackOK(Rest(forks), Place(Top))'
    BY <1>4, <1>6, <1>8
<1> QED
    BY <1>9 DEF WalkInv

(* A candidate of the last fork is walked next.                             *)
LEMMA CandidateInv ==
    ASSUME TypeOK, WalkInv, NEW m \in Varnodes, Candidate(m)
    PROVE  WalkInv'
<1> DEFINE low == Rest(forks)
           old == Top
           new == Take(old, m)
<1>0. prog' = prog /\ Den' = Den /\ prog \in Programs
    BY DenStable DEF Candidate, WalkInv
<1>1. /\ ForkOK(old) /\ StackOK(low, Place(old))
      /\ \A k \in Inputs(old) \ old.todo : Covers(old, k)
    BY DEF Candidate, WalkInv
<1>2. low \in Seq(Fork) /\ old \in Fork /\ new \in Fork
    BY StackTypes, ForkTypes DEF Candidate, TypeOK, Top
<1>3. forks' = Append(low, new) /\ walk' = [at |-> m, hops |-> old.hops, seen |-> old.seen]
      /\ phase' = "walk" /\ m \in old.todo
    BY DEF Candidate
<1>4. Place(new) = Place(old) /\ new.at = old.at /\ new.hops = old.hops
          /\ new.todo = old.todo \ {m} /\ new.found = old.found
    BY DEF Take, Place
<1>5. ForkOK(new)
    BY <1>1, <1>4 DEF ForkOK, Inputs
<1>6. Waits(new, <<m, old.hops>>)
    <2>1. m \in Inputs(new) /\ Follows(<<m, old.hops>>, <<m, new.hops>>)
        BY <1>1, <1>3, <1>4 DEF ForkOK, Inputs, Follows
    <2>2. \A k \in Inputs(new) \ (new.todo \cup {m}) : Covers(new, k)
        BY <1>1, <1>3, <1>4 DEF Inputs, Covers
    <2> QED
        BY <2>1, <2>2 DEF Waits
<1> DEFINE all == Append(low, new)
<1>7. /\ all # <<>> /\ Len(all) = Len(low) + 1 /\ Len(low) \in Nat
      /\ \A i \in 1..Len(low) : all[i] = low[i]
      /\ all[Len(low) + 1] = new /\ Last(all) = new
    BY <1>2 DEF Last
<1>8. \A i \in 1..Len(all) : ForkOK(all[i])
    BY <1>1, <1>5, <1>7 DEF StackOK
<1>9. \A i \in 1..(Len(all) - 1) : Waits(all[i], Place(all[i + 1]))
    <2> SUFFICES ASSUME NEW i \in 1..Len(low) PROVE Waits(all[i], Place(all[i + 1]))
        BY <1>7
    <2>1. CASE i = Len(low)
        BY <1>1, <1>4, <1>7, <2>1 DEF StackOK, Last
    <2>2. CASE i # Len(low)
        <3>1. i \in 1..(Len(low) - 1) /\ i + 1 \in 1..Len(low)
            BY <1>7, <2>2
        <3> QED
            BY <1>1, <1>7, <3>1 DEF StackOK
    <2> QED
        BY <2>1, <2>2
<1>10. Follows(Place(all[1]), Root)
    <2>1. CASE low = <<>>
        BY <1>1, <1>4, <1>7, <2>1 DEF StackOK
    <2>2. CASE low # <<>>
        <3>1. 1 \in 1..Len(low)
            BY <1>2, <1>7, <2>2
        <3> QED
            BY <1>1, <1>7, <2>2, <3>1 DEF StackOK
    <2> QED
        BY <2>1, <2>2
<1>11. PICK stack, pair : stack = all /\ pair = <<m, old.hops>>
    OBVIOUS
<1> HIDE DEF low, old, new, all
<1>12. StackOK(stack, pair)
    BY <1>6, <1>7, <1>8, <1>9, <1>10, <1>11 DEF StackOK
<1>13. StackOK(stack, pair)'
    BY <1>0, <1>12, StackStable
<1>14. forks' = stack /\ <<walk'.at, walk'.hops>> = pair
    BY <1>3, <1>11 DEF all
<1> QED
    BY <1>0, <1>3, <1>13, <1>14 DEF WalkInv

LEMMA NextWalkInv == TypeOK /\ WalkInv /\ [Next]_vars => WalkInv'
<1> SUFFICES ASSUME TypeOK, WalkInv, [Next]_vars PROVE WalkInv'
    OBVIOUS
<1>0. /\ prog \in Programs /\ prog \in Program
      /\ walk.at \in Varnodes /\ walk.hops \in 0..MaxHops /\ forks \in Seq(Fork)
    BY DEF WalkInv, TypeOK, Walk
<1>1. ASSUME phase = "walk" PROVE StackOK(forks, <<walk.at, walk.hops>>)
    BY <1>1 DEF WalkInv
<1>2. ASSUME NEW outcome \in Outcome, outcome \notin Resolved, phase = "walk",
             Return(outcome, forks)
      PROVE  WalkInv'
    BY <1>0, <1>1, <1>2, ReturnInv DEF Denotes
<1>3. CASE Cycle
    BY <1>2, <1>3, OutcomeTypes DEF Cycle
<1>4. CASE Literal
    <2> DEFINE outcome == [terminal |-> Visit.op, origin |-> Visit.origin]
    <2>1. outcome \in Resolved
        BY <1>0, <1>4, DefinitionTypes DEF Literal, Resolved, Visit
    <2>2. <<walk.at, walk.hops>> \in Den[outcome]
        BY <1>0, <1>4, <2>1, DenClosed DEF Literal, Visit
    <2>3. Denotes(outcome, <<walk.at, walk.hops>>) /\ outcome \in Outcome
        BY <2>1, <2>2, OutcomeTypes DEF Denotes
    <2> QED
        BY <1>0, <1>1, <1>4, <2>3, ReturnInv DEF Literal
<1>5. CASE Cut
    BY <1>2, <1>5, OutcomeTypes DEF Cut
<1>6. CASE Exhausted
    <2>1. Fallback(Visit.op) \in Outcome /\ Fallback(Visit.op) \notin Resolved
        BY OutcomeTypes DEF Fallback
    <2> QED
        BY <1>2, <1>6, <2>1 DEF Exhausted
<1>7. CASE Copy
    <2>1. PICK m \in Visit.inputs : walk' = [at |-> m, hops |-> walk.hops, seen |-> Seen]
        BY <1>7 DEF Copy
    <2> DEFINE from == <<m, walk.hops>>
    <2>2. Visit.inputs = {m} /\ ~Visit.lost
        BY <1>0, <1>7, <2>1, ProgramsAssumption DEF Copy, Visit
    <2>3. Follows(from, <<walk.at, walk.hops>>)
        BY <1>0, <1>7, <2>2, DenClosed DEF Follows, Copy, Visit, Hops
    <2>4. StackOK(forks, from)
        BY <1>1, <1>7, <2>3, StackFollows DEF Copy
    <2>5. prog' = prog /\ Den' = Den /\ forks' = forks /\ phase' = phase
        BY <1>7, DenStable DEF Copy
    <2>6. PICK stack, pair : stack = forks /\ pair = from
        OBVIOUS
    <2>7. StackOK(stack, pair)'
        BY <2>4, <2>5, <2>6, StackStable
    <2>8. forks' = stack /\ <<walk'.at, walk'.hops>> = pair
        BY <2>1, <2>5, <2>6
    <2> QED
        BY <1>0, <1>7, <2>5, <2>7, <2>8 DEF WalkInv, Copy
<1>8. CASE Merge
    BY <1>0, <1>1, <1>8, WaitInv DEF Merge, Hops
<1>9. CASE Hop
    <2>1. walk.hops - 1 \in 0..MaxHops /\ walk.hops = walk.hops - 1 + 1
        BY <1>0, <1>9, OperandAssumption DEF Hop
    <2> QED
        BY <1>0, <1>1, <1>9, <2>1, WaitInv DEF Hop
<1>10. ASSUME NEW m \in Varnodes, Candidate(m) PROVE WalkInv'
    BY <1>10, CandidateInv
<1>11. ASSUME phase = "fork"
       PROVE  /\ Rest(forks) \in Seq(Fork) /\ Top \in Fork
              /\ ForkOK(Top) /\ StackOK(Rest(forks), Place(Top))
              /\ \A m \in Inputs(Top) \ Top.todo : Covers(Top, m)
    BY <1>0, <1>11, StackTypes DEF TypeOK, WalkInv, Top
<1>12. CASE Agree
    <2>1. phase = "fork" /\ Top.todo = {}
        BY <1>12 DEF Agree
    <2>2. PICK outcome \in Top.found : Unanimous(Top, outcome) /\ Return(outcome, Rest(forks))
        BY <1>12 DEF Agree
    <2>3. outcome \in Outcome /\ Top.at \in Varnodes /\ Top.hops \in 0..MaxHops
        BY <1>11, <2>1 DEF Fork
    <2>4. ASSUME outcome \in Resolved PROVE Place(Top) \in Den[outcome]
        <3>1. Top.found = {outcome}
            BY <2>2 DEF Unanimous
        <3>2. ~prog.def[Top.at].lost
            BY <1>11, <2>1, <2>4, <3>1, OutcomeTypes DEF ForkOK
        <3>3. Inputs(Top) # {}
            BY <1>11, <2>1, <3>1, <3>2 DEF ForkOK
        <3>4. \A m \in Inputs(Top) : <<m, Top.hops>> \in Den[outcome]
            BY <1>11, <2>1, <2>4, <3>1 DEF Covers, Denotes
        <3>5. PICK h \in 0..MaxHops :
                  /\ h = IF prog.def[Top.at].op \in Hops THEN Top.hops + 1 ELSE Top.hops
                  /\ Place(Top) = <<Top.at, h>>
            BY <1>11, <2>1 DEF ForkOK, Place, Pairs
        <3>6. <<Top.at, h>> \in Den[outcome]
            BY <1>0, <1>11, <2>1, <2>3, <2>4, <3>2, <3>3, <3>4, <3>5, DenClosed DEF ForkOK, Inputs
        <3> QED
            BY <3>5, <3>6
    <2> QED
        BY <1>0, <1>11, <2>1, <2>2, <2>3, <2>4, ReturnInv DEF Denotes
<1>13. CASE Disagree
    <2>1. phase = "fork"
        BY <1>13 DEF Disagree
    <2>2. /\ Fallback(prog.def[Top.at].op) \in Outcome
          /\ Fallback(prog.def[Top.at].op) \notin Resolved
        BY OutcomeTypes DEF Fallback
    <2> QED
        BY <1>0, <1>11, <1>13, <2>1, <2>2, ReturnInv DEF Disagree, Denotes
<1>14. CASE UNCHANGED vars
    <2>1. /\ prog' = prog /\ Den' = Den /\ forks' = forks /\ phase' = phase
          /\ walk' = walk /\ result' = result
        BY <1>14, DenStable DEF vars
    <2>2. ASSUME NEW stack, NEW n, StackOK(stack, n) PROVE StackOK(stack, n)'
        BY <2>1, <2>2, StackStable
    <2>3. \A fork, n : /\ Place(fork)' = Place(fork)
                       /\ ForkOK(fork) => ForkOK(fork)'
                       /\ Covers(fork, n) => Covers(fork, n)'
                       /\ Inputs(fork)' = Inputs(fork)
        BY <2>1, StackStable
    <2>4. Top' = Top /\ Rest(forks)' = Rest(forks)
        BY <2>1 DEF Top, Last, Rest
    <2> QED
        BY <2>1, <2>2, <2>3, <2>4 DEF WalkInv, Denotes
<1> QED
    BY <1>3, <1>4, <1>5, <1>6, <1>7, <1>8, <1>9, <1>10, <1>12, <1>13, <1>14 DEF Next

LEMMA InitWalkInv == Init => WalkInv
BY DEF Init, WalkInv, StackOK, Follows, Root

(* In every program a constant or an address the trace ends in is all the   *)
(* operand can hold, over the merges, callers and returns that are shown.   *)
THEOREM TraceIsSound == Spec => []TraceSound
<1>1. TypeOK /\ WalkInv => TraceSound
    <2> SUFFICES ASSUME WalkInv, phase = "done", result \in Resolved
                 PROVE  Operand \in Denoting(result, Shown)
        BY DEF TraceSound
    <2>1. Root \in Least(result)
        BY DEF WalkInv, Denotes, Den
    <2>2. Root[1] = Operand
        BY DEF Root
    <2> QED
        BY <2>1, <2>2, LeastDenotes
<1> QED
    BY <1>1, InitTypeOK, NextTypeOK, InitWalkInv, NextWalkInv, PTL DEF Spec

(****************************************************************************)
(* Completeness.  While the walk evaluates an operand that is derivable, it *)
(* is at a pair of some round, and what it has seen is of no earlier round: *)
(* a derivation never goes through one varnode twice.                       *)
(****************************************************************************)
Fresh(outcome, n, h, seen) ==
    \E i \in 0..Rounds :
        /\ <<n, h>> \in Upto(outcome)[i]
        /\ \A k \in Varnodes : prog.key[k] \in seen => <<k, h>> \notin Upto(outcome)[i]

ExactFork(outcome, fork) ==
    /\ fork.found \subseteq {outcome}
    /\ \A m \in fork.todo : Fresh(outcome, m, fork.hops, fork.seen)

Exact(outcome) ==
    /\ \A i \in 1..Len(forks) : ExactFork(outcome, forks[i])
    /\ phase = "walk" => Fresh(outcome, walk.at, walk.hops, walk.seen)
    /\ phase = "fork" => Top.todo # {} \/ Top.found # {}
    /\ phase = "done" => result = outcome

ExactInv ==
    \A outcome \in Resolved : Distinct /\ Root \in Derivable(outcome) => Exact(outcome)

LEMMA FreshStable ==
    ASSUME prog' = prog
    PROVE  /\ Distinct' = Distinct
           /\ \A outcome : Derivable(outcome)' = Derivable(outcome)
           /\ \A outcome, n, h, seen :
                 Fresh(outcome, n, h, seen)' = Fresh(outcome, n, h, seen)
           /\ \A outcome, fork : ExactFork(outcome, fork)' = ExactFork(outcome, fork)
<1>1. \A outcome : Upto(outcome)' = Upto(outcome)
    BY DEF Upto, IsUpto, Justify, Justified
<1>2. \A outcome, n, h, seen : Fresh(outcome, n, h, seen)' = Fresh(outcome, n, h, seen)
    BY <1>1 DEF Fresh
<1>3. \A outcome : Derivable(outcome)' = Derivable(outcome)
    BY DEF Derivable, Justified
<1> QED
    BY <1>2, <1>3 DEF Distinct, ExactFork

(* A fresh varnode was not seen, and it is a literal or all it can come     *)
(* from is fresh.                                                           *)
LEMMA FreshInputs ==
    ASSUME prog \in Program, Distinct, NEW outcome \in Resolved,
           NEW n \in Varnodes, NEW h \in 0..MaxHops, NEW seen,
           Fresh(outcome, n, h, seen)
    PROVE  /\ prog.key[n] \notin seen
           /\ \/ /\ prog.def[n].op = outcome.terminal
                 /\ prog.def[n].origin = outcome.origin
              \/ /\ prog.def[n].op \in {"COPY", "MULTIEQUAL"} \cup Hops
                 /\ ~prog.def[n].lost /\ prog.def[n].inputs # {}
                 /\ prog.def[n].op \in Hops => h > 0
                 /\ \A m \in prog.def[n].inputs :
                       Fresh(outcome, m, IF prog.def[n].op \in Hops THEN h - 1 ELSE h,
                             seen \cup {prog.key[n]})
<1>1. PICK u : u = Upto(outcome)
    OBVIOUS
<1>2. PICK r \in 0..Rounds :
          <<n, h>> \in u[r] /\ \A k \in Varnodes : prog.key[k] \in seen => <<k, h>> \notin u[r]
    BY <1>1 DEF Fresh
<1>3. prog.key[n] \notin seen
    BY <1>2
<1>4. /\ u[0] = {}
      /\ \A i \in 1..Rounds : u[i] = Justify(u[i - 1], outcome) /\ u[i - 1] \subseteq u[i]
      /\ \A i \in 0..Rounds : \A m \in Varnodes : \A x, y \in 0..MaxHops :
             x <= y /\ <<m, x>> \in u[i] => <<m, y>> \in u[i]
    BY <1>1, UptoFacts
<1>5. PICK i \in 0..Rounds : <<n, h>> \in u[i] /\ \A j \in 0..Rounds : <<n, h>> \in u[j] => i <= j
    <2> DEFINE T == {j \in 0..Rounds : <<n, h>> \in u[j]}
    <2>1. T \in SUBSET Nat /\ T # {}
        BY <1>2, RoundsFacts
    <2>2. PICK j \in T : \A k \in T : j <= k
        <3> HIDE DEF T
        <3> QED
            BY <2>1, Minimum
    <2> QED
        BY <2>2
<1>6. i \in 1..Rounds /\ i - 1 \in 0..Rounds /\ ~(i <= i - 1) /\ i <= r
    BY <1>2, <1>4, <1>5, RoundsFacts
<1>7. u[i] \subseteq u[r]
    <2> DEFINE T == {j \in 0..Rounds : j >= i => u[i] \subseteq u[j]}
    <2>1. 0 \in T
        BY <1>6, RoundsFacts
    <2>2. ASSUME NEW j \in 1..Rounds, j - 1 \in T PROVE j \in T
        <3>1. CASE j = i
            BY <3>1
        <3>2. CASE j # i
            <4>1. j >= i => j - 1 >= i
                BY <1>6, <3>2, RoundsFacts
            <4>2. u[j - 1] \subseteq u[j]
                BY <1>4
            <4> QED
                BY <2>2, <4>1, <4>2
        <3> QED
            BY <3>1, <3>2
    <2>3. r \in T
        <3> HIDE DEF T
        <3> QED
            BY <2>1, <2>2, RoundsFacts, Induction
    <2> QED
        BY <1>6, <2>3
<1>8. Justified(n, h, outcome, u[i - 1])
    BY <1>4, <1>5, <1>6 DEF Justify
<1>9. ASSUME NEW m, NEW g \in 0..MaxHops, g <= h, <<m, g>> \in u[i - 1]
      PROVE  Fresh(outcome, m, g, seen \cup {prog.key[n]})
    <2>1. ASSUME NEW k \in Varnodes, prog.key[k] \in seen \cup {prog.key[n]}
          PROVE  <<k, g>> \notin u[i - 1]
        <3>1. <<k, g>> \in u[i - 1] => <<k, h>> \in u[i - 1]
            BY <1>4, <1>6, <1>9
        <3>2. CASE prog.key[k] \in seen
            BY <1>2, <1>4, <1>6, <1>7, <3>1, <3>2
        <3>3. CASE prog.key[k] = prog.key[n]
            <4>1. k = n
                BY <3>3 DEF Distinct
            <4> QED
                BY <1>5, <1>6, <3>1, <4>1
        <3> QED
            BY <2>1, <3>2, <3>3
    <2> QED
        BY <1>1, <1>6, <1>9, <2>1 DEF Fresh
<1> DEFINE d == prog.def[n]
<1>10. \/ d.op = outcome.terminal /\ d.origin = outcome.origin
       \/ /\ d.op \in {"COPY", "MULTIEQUAL"} \cup Hops
          /\ ~d.lost /\ d.inputs # {}
          /\ d.op \in Hops => h > 0
          /\ \A m \in d.inputs :
                <<m, IF d.op \in Hops THEN h - 1 ELSE h>> \in u[i - 1]
    BY <1>8 DEF Justified
<1>11. h > 0 => h - 1 \in 0..MaxHops /\ h - 1 <= h
    BY RoundsFacts
<1>12. h <= h
    BY RoundsFacts
<1> HIDE DEF d
<1>13. ASSUME d.op \in Hops => h > 0,
              NEW m, <<m, IF d.op \in Hops THEN h - 1 ELSE h>> \in u[i - 1]
       PROVE  Fresh(outcome, m, IF d.op \in Hops THEN h - 1 ELSE h, seen \cup {prog.key[n]})
    <2>1. CASE d.op \in Hops
        BY <1>9, <1>11, <1>13, <2>1
    <2>2. CASE d.op \notin Hops
        BY <1>9, <1>12, <1>13, <2>2
    <2> QED
        BY <2>1, <2>2
<1>14. \/ d.op = outcome.terminal /\ d.origin = outcome.origin
       \/ /\ d.op \in {"COPY", "MULTIEQUAL"} \cup Hops
          /\ ~d.lost /\ d.inputs # {}
          /\ d.op \in Hops => h > 0
          /\ \A m \in d.inputs :
                Fresh(outcome, m, IF d.op \in Hops THEN h - 1 ELSE h, seen \cup {prog.key[n]})
    BY <1>10, <1>13
<1> QED
    BY <1>3, <1>14 DEF d

(* Returning the derivable outcome.                                         *)
LEMMA ReturnExact ==
    ASSUME NEW outcome \in Resolved, NEW stack \in Seq(Fork),
           \A i \in 1..Len(stack) : ExactFork(outcome, stack[i]),
           Return(outcome, stack)
    PROVE  Exact(outcome)'
<1>0. prog' = prog
    BY DEF Return
<1>1. CASE stack = <<>>
    <2>1. forks' = <<>> /\ phase' = "done" /\ result' = outcome
        BY <1>1 DEF Return
    <2> QED
        BY <2>1 DEF Exact
<1>2. CASE stack # <<>>
    <2>1. PICK low, new : low = Rest(stack) /\ new = Gather(Last(stack), outcome)
        OBVIOUS
    <2>2. /\ low \in Seq(Fork) /\ Len(stack) \in Nat \ {0} /\ Len(low) = Len(stack) - 1
          /\ \A i \in 1..Len(low) : low[i] = stack[i]
          /\ Last(stack) = stack[Len(stack)]
        BY <1>2, <2>1, StackTypes DEF Last
    <2>3. ExactFork(outcome, new) /\ new.found # {}
        BY <2>1, <2>2 DEF Gather, ExactFork
    <2>4. forks' = Append(low, new) /\ phase' = "fork"
        BY <1>2, <2>1 DEF Return
    <2>5. /\ Len(forks') = Len(low) + 1 /\ forks'[Len(low) + 1] = new
          /\ \A i \in 1..Len(low) : forks'[i] = low[i]
        BY <2>2, <2>4
    <2>6. Top' = new
        BY <2>2, <2>5 DEF Top, Last
    <2>7. \A i \in 1..Len(forks') : ExactFork(outcome, forks'[i])
        BY <2>2, <2>3, <2>5
    <2>8. \A i \in 1..Len(forks') : ExactFork(outcome, forks[i])'
        BY <1>0, <2>7, FreshStable
    <2> QED
        BY <2>3, <2>4, <2>6, <2>8 DEF Exact
<1> QED
    BY <1>1, <1>2

(* A fork is pushed with its candidates fresh.                              *)
LEMMA WaitExact ==
    ASSUME TypeOK, NEW outcome \in Resolved, Exact(outcome), NEW hops \in 0..MaxHops,
           ~Visit.lost, Visit.inputs # {},
           \A m \in Visit.inputs : Fresh(outcome, m, hops, Seen),
           Wait(hops), prog' = prog, phase' = "fork"
    PROVE  Exact(outcome)'
<1>1. PICK new : new = [at |-> walk.at, hops |-> hops, seen |-> Seen,
                        todo |-> Visit.inputs, found |-> Lost]
    OBVIOUS
<1>2. ExactFork(outcome, new) /\ new.todo # {}
    BY <1>1 DEF ExactFork, Lost
<1>3. forks' = Append(forks, new)
    BY <1>1 DEF Wait
<1>4. /\ Len(forks) \in Nat /\ Len(forks') = Len(forks) + 1 /\ forks'[Len(forks) + 1] = new
      /\ \A i \in 1..Len(forks) : forks'[i] = forks[i]
    BY <1>3 DEF TypeOK
<1>5. Top' = new
    BY <1>4 DEF Top, Last
<1>6. \A i \in 1..Len(forks') : ExactFork(outcome, forks'[i])
    BY <1>2, <1>4 DEF Exact
<1>7. \A i \in 1..Len(forks') : ExactFork(outcome, forks[i])'
    BY <1>6, FreshStable
<1> QED
    BY <1>2, <1>5, <1>7 DEF Exact

LEMMA CandidateExact ==
    ASSUME TypeOK, NEW outcome \in Resolved, Exact(outcome), NEW m \in Varnodes, Candidate(m)
    PROVE  Exact(outcome)'
<1>1. PICK low, new : low = Rest(forks) /\ new = Take(Top, m)
    OBVIOUS
<1>2. /\ low \in Seq(Fork) /\ Len(forks) \in Nat \ {0} /\ Len(low) = Len(forks) - 1
      /\ \A i \in 1..Len(low) : low[i] = forks[i]
      /\ Top = forks[Len(forks)]
    BY <1>1, StackTypes DEF Candidate, TypeOK, Top, Last
<1>3. ExactFork(outcome, Top) /\ m \in Top.todo
    BY <1>2 DEF Exact, Candidate
<1>4. ExactFork(outcome, new) /\ Fresh(outcome, m, Top.hops, Top.seen)
    BY <1>1, <1>3 DEF ExactFork, Take
<1>5. /\ forks' = Append(low, new) /\ phase' = "walk" /\ prog' = prog
      /\ walk'.at = m /\ walk'.hops = Top.hops /\ walk'.seen = Top.seen
    BY <1>1 DEF Candidate
<1>6. /\ Len(forks') = Len(low) + 1 /\ forks'[Len(low) + 1] = new
      /\ \A i \in 1..Len(low) : forks'[i] = low[i]
    BY <1>2, <1>5
<1>7. \A i \in 1..Len(forks') : ExactFork(outcome, forks'[i])
    BY <1>2, <1>4, <1>6 DEF Exact
<1>8. /\ \A i \in 1..Len(forks') : ExactFork(outcome, forks[i])'
      /\ Fresh(outcome, walk.at, walk.hops, walk.seen)'
    BY <1>4, <1>5, <1>7, FreshStable
<1> QED
    BY <1>5, <1>8 DEF Exact

LEMMA NextExact ==
    ASSUME TypeOK, Distinct, NEW outcome \in Resolved, Exact(outcome), [Next]_vars
    PROVE  Exact(outcome)' /\ prog' = prog
<1>0. /\ prog \in Program /\ walk.at \in Varnodes /\ walk.hops \in 0..MaxHops
      /\ forks \in Seq(Fork) /\ outcome.terminal \in Literals
      /\ \A i \in 1..Len(forks) : ExactFork(outcome, forks[i])
    BY DEF TypeOK, Walk, Resolved, Exact
<1>1. ASSUME phase = "walk"
      PROVE  /\ ~Revisited
             /\ \/ Visit.op = outcome.terminal /\ Visit.origin = outcome.origin
                \/ /\ Visit.op \in {"COPY", "MULTIEQUAL"} \cup Hops
                   /\ ~Visit.lost /\ Visit.inputs # {}
                   /\ Visit.op \in Hops => walk.hops > 0
                   /\ \A m \in Visit.inputs :
                         Fresh(outcome, m, IF Visit.op \in Hops THEN walk.hops - 1
                                                                ELSE walk.hops, Seen)
    <2>1. Fresh(outcome, walk.at, walk.hops, walk.seen)
        BY <1>1 DEF Exact
    <2> QED
        BY <1>0, <2>1, FreshInputs DEF Revisited, Visit, Seen
<1>2. CASE Cycle
    BY <1>1, <1>2 DEF Cycle
<1>3. CASE Literal
    <2>1. outcome = [terminal |-> Visit.op, origin |-> Visit.origin]
        BY <1>1, <1>3 DEF Literal, Literals, Hops, Resolved
    <2> QED
        BY <1>0, <1>3, <2>1, ReturnExact DEF Literal, Return
<1>4. CASE Cut
    BY <1>0, <1>1, <1>4 DEF Cut, CutOps, Literals, Hops
<1>5. CASE Exhausted
    BY <1>0, <1>1, <1>5 DEF Exhausted, Literals, Hops
<1>6. CASE Copy
    <2>1. PICK m \in Visit.inputs : walk' = [at |-> m, hops |-> walk.hops, seen |-> Seen]
        BY <1>6 DEF Copy
    <2>2. Fresh(outcome, m, walk.hops, Seen)
        BY <1>0, <1>1, <1>6 DEF Copy, Literals, Hops
    <2>3. prog' = prog /\ phase = "walk" /\ phase' = phase /\ forks' = forks
        BY <1>6 DEF Copy
    <2>4. Fresh(outcome, walk.at, walk.hops, walk.seen)'
        BY <2>1, <2>2, <2>3, FreshStable
    <2>5. \A i \in 1..Len(forks') : ExactFork(outcome, forks[i])'
        BY <1>0, <2>3, FreshStable
    <2> QED
        BY <2>3, <2>4, <2>5 DEF Exact
<1>7. CASE Merge
    <2>1. /\ ~Visit.lost /\ Visit.inputs # {}
          /\ \A m \in Visit.inputs : Fresh(outcome, m, walk.hops, Seen)
        BY <1>0, <1>1, <1>7 DEF Merge, Literals, Hops
    <2> QED
        BY <1>0, <1>7, <2>1, WaitExact DEF Merge
<1>8. CASE Hop
    <2>1. /\ ~Visit.lost /\ Visit.inputs # {} /\ walk.hops - 1 \in 0..MaxHops
          /\ \A m \in Visit.inputs : Fresh(outcome, m, walk.hops - 1, Seen)
        BY <1>0, <1>1, <1>8, RoundsFacts DEF Hop, Literals, Hops
    <2> QED
        BY <1>0, <1>8, <2>1, WaitExact DEF Hop
<1>9. ASSUME NEW m \in Varnodes, Candidate(m) PROVE Exact(outcome)' /\ prog' = prog
    BY <1>9, CandidateExact DEF Candidate
<1>10. ASSUME phase = "fork", Top.todo = {}
       PROVE  /\ Top.found = {outcome} /\ Unanimous(Top, outcome)
              /\ Rest(forks) \in Seq(Fork)
              /\ \A i \in 1..Len(Rest(forks)) : ExactFork(outcome, Rest(forks)[i])
    <2>1. /\ Rest(forks) \in Seq(Fork) /\ Len(forks) \in Nat \ {0}
          /\ Len(Rest(forks)) = Len(forks) - 1 /\ Top = forks[Len(forks)]
          /\ \A i \in 1..Len(Rest(forks)) : Rest(forks)[i] = forks[i]
        BY <1>10, StackTypes DEF TypeOK, Top, Last
    <2>2. ExactFork(outcome, Top)
        BY <1>0, <2>1
    <2>3. Top.found = {outcome}
        BY <1>10, <2>2 DEF Exact, ExactFork
    <2>4. \A i \in 1..Len(Rest(forks)) : ExactFork(outcome, Rest(forks)[i])
        BY <1>0, <2>1
    <2> QED
        BY <1>0, <2>1, <2>3, <2>4 DEF Unanimous, Refused, Literals
<1>11. CASE Agree
    <2>1. Return(outcome, Rest(forks))
        BY <1>10, <1>11 DEF Agree
    <2> QED
        BY <1>10, <1>11, <2>1, ReturnExact DEF Agree, Return
<1>12. CASE Disagree
    BY <1>10, <1>12 DEF Disagree
<1>13. CASE UNCHANGED vars
    <2>1. /\ prog' = prog /\ phase' = phase /\ walk' = walk /\ forks' = forks
          /\ result' = result /\ Top' = Top
        BY <1>13 DEF vars, Top, Last
    <2>2. /\ \A i \in 1..Len(forks') : ExactFork(outcome, forks[i])'
          /\ phase' = "walk" => Fresh(outcome, walk.at, walk.hops, walk.seen)'
        BY <1>0, <2>1, FreshStable DEF Exact
    <2> QED
        BY <2>1, <2>2 DEF Exact
<1> QED
    BY <1>2, <1>3, <1>4, <1>5, <1>6, <1>7, <1>8, <1>9, <1>11, <1>12, <1>13 DEF Next

LEMMA NextExactInv == TypeOK /\ ExactInv /\ [Next]_vars => ExactInv'
<1> SUFFICES ASSUME TypeOK, ExactInv, [Next]_vars, NEW outcome \in Resolved,
                    Distinct', Root \in Derivable(outcome)'
             PROVE  Exact(outcome)'
    BY DEF ExactInv, Root
<1>1. prog' = prog
    BY DEF Next, vars, Return, Cycle, Literal, Cut, Exhausted, Copy, Merge, Hop, Candidate,
           Agree, Disagree
<1>2. Distinct /\ Root \in Derivable(outcome)
    BY <1>1, FreshStable
<1> QED
    BY <1>2, NextExact DEF ExactInv

LEMMA InitExactInv == Init => ExactInv
<1> SUFFICES ASSUME Init, NEW outcome \in Resolved, Root \in Derivable(outcome)
             PROVE  Exact(outcome)
    BY DEF ExactInv
<1>1. Derivable(outcome) = Upto(outcome)[Rounds] /\ Rounds \in 0..Rounds
    BY UptoFacts, RoundsFacts
<1>2. Fresh(outcome, Operand, MaxHops, {})
    BY <1>1 DEF Fresh, Root
<1> QED
    BY <1>2 DEF Init, Exact

(* In every program a trace ends in a constant or an address exactly when   *)
(* the evaluation from the literals upwards resolves the operand to it      *)
(* within the hops; only varnodes that print alike can hide one.            *)
THEOREM TraceIsExact == Spec => []TraceExact
<1>1. TypeOK /\ WalkInv /\ ExactInv => TraceExact
    <2> SUFFICES ASSUME TypeOK, WalkInv, ExactInv, phase = "done", NEW outcome \in Resolved
                 PROVE  /\ result = outcome => Root \in Derivable(outcome)
                        /\ Distinct /\ Root \in Derivable(outcome) => result = outcome
        BY DEF TraceExact, Root
    <2>1. ASSUME result = outcome PROVE Root \in Derivable(outcome)
        <3>1. Root \in Least(outcome)
            BY <2>1 DEF WalkInv, Denotes, Den
        <3> QED
            BY <3>1, LeastIsDerivable
    <2>2. Distinct /\ Root \in Derivable(outcome) => result = outcome
        BY DEF ExactInv, Exact
    <2> QED
        BY <2>1, <2>2
<1> QED
    BY <1>1, InitTypeOK, NextTypeOK, InitWalkInv, NextWalkInv, InitExactInv, NextExactInv,
       PTL DEF Spec

(****************************************************************************)
(* The depth of the recursion.  A fork has seen its varnode and those of    *)
(* the forks below it, and so has the walk.                                 *)
(****************************************************************************)
SeenInv ==
    /\ \A i \in 1..Len(forks) : \A j \in 1..i : prog.key[forks[j].at] \in forks[i].seen
    /\ \A i \in 1..Len(forks) : \A j \in 1..(i - 1) :
          prog.key[forks[j].at] # prog.key[forks[i].at]
    /\ phase = "walk" => \A i \in 1..Len(forks) : prog.key[forks[i].at] \in walk.seen

(* Steps that push no fork.                                                 *)
LEMMA NoPushSeen ==
    ASSUME TypeOK, SeenInv, TypeOK', prog' = prog,
           Len(forks') <= Len(forks),
           \A i \in 1..Len(forks') : forks'[i].at = forks[i].at /\ forks'[i].seen = forks[i].seen,
           phase' = "walk" => \A i \in 1..Len(forks') : prog.key[forks[i].at] \in walk'.seen
    PROVE  SeenInv'
<1>1. Len(forks) \in Nat /\ Len(forks') \in Nat
    BY DEF TypeOK
<1>2. \A i \in 1..Len(forks') : i \in 1..Len(forks) /\ \A j \in 1..i : j \in 1..Len(forks')
    BY <1>1
<1>3. \A i \in 1..Len(forks') : \A j \in 1..(i - 1) : j \in 1..i
    BY <1>1
<1>4. \A i \in 1..Len(forks') : \A j \in 1..i : prog.key[forks'[j].at] \in forks'[i].seen
    BY <1>2 DEF SeenInv
<1>5. \A i \in 1..Len(forks') : \A j \in 1..(i - 1) :
          prog.key[forks'[j].at] # prog.key[forks'[i].at]
    BY <1>2, <1>3 DEF SeenInv
<1> QED
    BY <1>4, <1>5 DEF SeenInv

LEMMA ReturnSeen ==
    ASSUME TypeOK, SeenInv, TypeOK', NEW stack \in Seq(Fork), NEW outcome,
           Return(outcome, stack), Len(stack) <= Len(forks),
           \A i \in 1..Len(stack) : stack[i] = forks[i]
    PROVE  SeenInv'
<1>0. prog' = prog /\ phase' # "walk"
    BY DEF Return
<1>1. CASE stack = <<>>
    <2>1. forks' = <<>>
        BY <1>1 DEF Return
    <2> QED
        BY <1>0, <2>1 DEF SeenInv
<1>2. CASE stack # <<>>
    <2> DEFINE low == Rest(stack)
               new == Gather(Last(stack), outcome)
    <2>1. /\ low \in Seq(Fork) /\ Len(stack) \in Nat \ {0} /\ Len(low) = Len(stack) - 1
          /\ \A i \in 1..Len(low) : low[i] = stack[i]
        BY <1>2, StackTypes
    <2>2. new.at = stack[Len(stack)].at /\ new.seen = stack[Len(stack)].seen
        BY DEF Gather, Last
    <2>3. forks' = Append(low, new)
        BY <1>2 DEF Return
    <2> HIDE DEF low, new
    <2>4. Len(forks') = Len(stack) /\ forks'[Len(stack)] = new
          /\ \A i \in 1..Len(low) : forks'[i] = low[i]
        BY <2>1, <2>3
    <2>5. \A i \in 1..Len(forks') : forks'[i].at = stack[i].at /\ forks'[i].seen = stack[i].seen
        BY <2>1, <2>2, <2>4
    <2>6. \A i \in 1..Len(forks') : forks'[i].at = forks[i].at /\ forks'[i].seen = forks[i].seen
        BY <2>4, <2>5
    <2> QED
        BY <1>0, <2>4, <2>6, NoPushSeen
<1> QED
    BY <1>1, <1>2

LEMMA WaitSeen ==
    ASSUME TypeOK, SeenInv, ~Revisited, phase = "walk", NEW hops, Wait(hops),
           prog' = prog, phase' = "fork"
    PROVE  SeenInv'
<1> DEFINE new == [at |-> walk.at, hops |-> hops, seen |-> Seen,
                   todo |-> Visit.inputs, found |-> Lost]
           k == Len(forks) + 1
<1>1. new.at = walk.at /\ new.seen = walk.seen \cup {prog.key[walk.at]}
    BY DEF Seen
<1>2. forks' = Append(forks, new)
    BY DEF Wait
<1> HIDE DEF new
<1>3. /\ Len(forks) \in Nat /\ Len(forks') = k /\ forks'[k] = new
      /\ \A i \in 1..Len(forks) : forks'[i] = forks[i]
    BY <1>2 DEF TypeOK
<1>4. \A i \in 1..Len(forks) : prog.key[forks[i].at] \in walk.seen
                               /\ prog.key[forks[i].at] # prog.key[walk.at]
    BY DEF SeenInv, Revisited
<1>5. ASSUME NEW i \in 1..k, NEW j \in 1..i PROVE prog.key[forks'[j].at] \in forks'[i].seen
    BY <1>1, <1>3, <1>4 DEF SeenInv
<1>6. ASSUME NEW i \in 1..k, NEW j \in 1..(i - 1)
      PROVE  prog.key[forks'[j].at] # prog.key[forks'[i].at]
    BY <1>1, <1>3, <1>4 DEF SeenInv
<1> QED
    BY <1>3, <1>5, <1>6 DEF SeenInv

LEMMA NextSeen == TypeOK /\ SeenInv /\ [Next]_vars => SeenInv'
<1> SUFFICES ASSUME TypeOK, SeenInv, [Next]_vars PROVE SeenInv'
    OBVIOUS
<1>0. TypeOK' /\ forks \in Seq(Fork) /\ Len(forks) \in Nat
    BY NextTypeOK DEF TypeOK
<1>1. ASSUME NEW outcome, Return(outcome, forks) PROVE SeenInv'
    BY <1>0, <1>1, ReturnSeen
<1>2. ASSUME NEW outcome, Return(outcome, Rest(forks)), phase = "fork" PROVE SeenInv'
    <2>1. /\ Rest(forks) \in Seq(Fork) /\ Len(Rest(forks)) <= Len(forks)
          /\ \A i \in 1..Len(Rest(forks)) : Rest(forks)[i] = forks[i]
        BY <1>0, <1>2, StackTypes DEF TypeOK
    <2> QED
        BY <1>0, <1>2, <2>1, ReturnSeen
<1>3. CASE Cycle \/ Literal \/ Cut \/ Exhausted
    BY <1>1, <1>3 DEF Cycle, Literal, Cut, Exhausted
<1>4. CASE Copy
    <2>1. walk.seen \subseteq walk'.seen /\ forks' = forks /\ prog' = prog /\ phase = "walk"
        BY <1>4 DEF Copy, Seen
    <2> QED
        BY <1>0, <2>1, NoPushSeen DEF SeenInv
<1>5. CASE Merge
    BY <1>5, WaitSeen DEF Merge
<1>6. CASE Hop
    BY <1>6, WaitSeen DEF Hop
<1>7. ASSUME NEW m \in Varnodes, Candidate(m) PROVE SeenInv'
    <2> DEFINE low == Rest(forks)
               new == Take(Top, m)
    <2>1. /\ low \in Seq(Fork) /\ Len(forks) \in Nat \ {0} /\ Len(low) = Len(forks) - 1
          /\ \A i \in 1..Len(low) : low[i] = forks[i]
        BY <1>0, <1>7, StackTypes DEF TypeOK, Candidate
    <2>2. new.at = forks[Len(forks)].at /\ new.seen = forks[Len(forks)].seen
        BY DEF Take, Top, Last
    <2>3. forks' = Append(low, new) /\ prog' = prog /\ walk'.seen = forks[Len(forks)].seen
        BY <1>7 DEF Candidate, Top, Last
    <2> HIDE DEF low, new
    <2>4. Len(forks') = Len(forks) /\ forks'[Len(forks)] = new
          /\ \A i \in 1..Len(low) : forks'[i] = low[i]
        BY <2>1, <2>3
    <2>5. \A i \in 1..Len(forks') : forks'[i].at = forks[i].at /\ forks'[i].seen = forks[i].seen
        BY <2>1, <2>2, <2>4
    <2>6. \A i \in 1..Len(forks') : prog.key[forks[i].at] \in walk'.seen
        BY <2>1, <2>3, <2>4 DEF SeenInv
    <2> QED
        BY <1>0, <2>3, <2>4, <2>5, <2>6, NoPushSeen
<1>8. CASE Agree
    BY <1>2, <1>8 DEF Agree
<1>9. CASE Disagree
    BY <1>2, <1>9 DEF Disagree
<1>10. CASE UNCHANGED vars
    BY <1>10 DEF vars, SeenInv
<1> QED
    BY <1>3, <1>4, <1>5, <1>6, <1>7, <1>8, <1>9, <1>10 DEF Next

(* The walk never waits twice for varnodes that print alike, so recursion   *)
(* and loops in the analysed program cannot make its own recursion endless. *)
THEOREM RecursionIsBounded == Spec => []NoReentry
<1>1. Init => SeenInv
    BY DEF Init, SeenInv
<1>2. TypeOK /\ SeenInv => NoReentry
    <2> SUFFICES ASSUME TypeOK, SeenInv, NEW i \in 1..Len(forks), NEW j \in 1..Len(forks),
                        prog.key[forks[i].at] = prog.key[forks[j].at]
                 PROVE  i = j
        BY DEF NoReentry
    <2>1. Len(forks) \in Nat
        BY DEF TypeOK
    <2>2. i \in 1..(j - 1) \/ j \in 1..(i - 1) \/ i = j
        BY <2>1
    <2> QED
        BY <2>2 DEF SeenInv
<1> QED
    BY <1>1, <1>2, InitTypeOK, NextTypeOK, NextSeen, PTL DEF Spec

(****************************************************************************)
(* The end of a trace.  Work bounds the steps that are left: a walk that    *)
(* has not seen u of the keys is worth Weight[u], a fork its candidates and *)
(* the comparison.  Every step lowers it, in cyclic programs too.           *)
(****************************************************************************)
KeysInUse == Range(prog.key)
Unseen(seen) == Cardinality(KeysInUse \ seen)

Weight == CHOOSE w \in [0..Cardinality(Varnodes) -> Nat] :
              /\ w[0] = 1
              /\ \A u \in 1..Cardinality(Varnodes) :
                    w[u] = Cardinality(Varnodes) * (w[u - 1] + 1) + 2
Cost(fork) == Cardinality(fork.todo) * (Weight[Unseen(fork.seen)] + 1) + 1

IsSum(sum, stack) ==
    /\ sum \in [0..Len(stack) -> Nat]
    /\ sum[0] = 0
    /\ \A i \in 1..Len(stack) : sum[i] = sum[i - 1] + Cost(stack[i])
Total(stack) == (CHOOSE sum : IsSum(sum, stack))[Len(stack)]

Work == Total(forks) + (IF phase = "walk" THEN Weight[Unseen(walk.seen)] ELSE 0)

LEMMA WeightFacts ==
    LET N == Cardinality(Varnodes) IN
    /\ N \in Nat
    /\ Weight \in [0..N -> Nat]
    /\ \A u \in 0..N : Weight[u] > 0
    /\ \A u \in 1..N : Weight[u] = N * (Weight[u - 1] + 1) + 2
<1> DEFINE N == Cardinality(Varnodes)
           g == [pair \in Nat \X (1..N) |-> N * (pair[1] + 1) + 2]
<1>1. N \in Nat
    BY VarnodesAssumption, FS_CardinalityType
<1> HIDE DEF N
<1>2. /\ g \in [Nat \X (1..N) -> Nat]
      /\ \A x \in Nat, i \in 1..N : g[<<x, i>>] = N * (x + 1) + 2
    <2>1. \A x \in Nat : N * (x + 1) + 2 \in Nat
        BY <1>1
    <2> QED
        BY <2>1
<1> HIDE DEF g
<1>3. \E f : Iterates(f, N, Nat, 1, g)
    BY <1>1, <1>2, Recursion
<1>4. \A i \in 1..N : i - 1 \in 0..N
    BY <1>1
<1>5. PICK f \in [0..N -> Nat] : f[0] = 1 /\ \A i \in 1..N : f[i] = g[<<f[i - 1], i>>]
    BY <1>3 DEF Iterates
<1>6. \A i \in 1..N : f[i] = N * (f[i - 1] + 1) + 2
    BY <1>2, <1>4, <1>5
<1>7. /\ Weight \in [0..N -> Nat] /\ Weight[0] = 1
      /\ \A u \in 1..N : Weight[u] = N * (Weight[u - 1] + 1) + 2
    BY <1>5, <1>6 DEF Weight, N
<1>8. ASSUME NEW u \in 0..N PROVE Weight[u] > 0
    <2>1. CASE u = 0
        BY <1>7, <2>1
    <2>2. CASE u # 0
        <3>0. u \in 1..N /\ u - 1 \in 0..N
            BY <1>1, <2>2
        <3>1. Weight[u - 1] \in Nat
            BY <1>7, <3>0
        <3>2. N * (Weight[u - 1] + 1) \in Nat
            BY <1>1, <3>1
        <3> QED
            BY <1>7, <3>0, <3>2
    <2> QED
        BY <2>1, <2>2
<1> QED
    BY <1>1, <1>7, <1>8 DEF N

(* A varnode that was not seen leaves one key less.                         *)
LEMMA UnseenFacts ==
    ASSUME prog \in Program, NEW seen
    PROVE  /\ Unseen(seen) \in 0..Cardinality(Varnodes)
           /\ \A n \in Varnodes : prog.key[n] \notin seen =>
                 /\ Unseen(seen) \in 1..Cardinality(Varnodes)
                 /\ Unseen(seen \cup {prog.key[n]}) = Unseen(seen) - 1
<1>1. prog.key \in [Varnodes -> Keys]
    BY DEF Program
<1>2. prog.key \in Surjection(Varnodes, KeysInUse)
    BY <1>1 DEF Surjection, KeysInUse, Range
<1>3. IsFiniteSet(KeysInUse) /\ Cardinality(KeysInUse) <= Cardinality(Varnodes)
    BY <1>2, VarnodesAssumption, FS_Surjection
<1>4. \A S \in SUBSET KeysInUse :
          IsFiniteSet(S) /\ Cardinality(S) <= Cardinality(KeysInUse) /\ Cardinality(S) \in Nat
    BY <1>3, FS_Subset, FS_CardinalityType
<1>5. Cardinality(Varnodes) \in Nat /\ Cardinality(KeysInUse) \in Nat
    BY <1>3, VarnodesAssumption, FS_CardinalityType
<1>6. Unseen(seen) \in 0..Cardinality(Varnodes)
    BY <1>3, <1>4, <1>5 DEF Unseen
<1>7. ASSUME NEW n \in Varnodes, prog.key[n] \notin seen
      PROVE  /\ Unseen(seen) \in 1..Cardinality(Varnodes)
             /\ Unseen(seen \cup {prog.key[n]}) = Unseen(seen) - 1
    <2>1. prog.key[n] \in KeysInUse \ seen
        BY <1>1, <1>7 DEF KeysInUse, Range
    <2>2. /\ KeysInUse \ (seen \cup {prog.key[n]}) = (KeysInUse \ seen) \ {prog.key[n]}
          /\ IsFiniteSet(KeysInUse \ seen)
        BY <1>4
    <2>3. Unseen(seen \cup {prog.key[n]}) = Unseen(seen) - 1
        BY <2>1, <2>2, FS_RemoveElement DEF Unseen
    <2>4. Unseen(seen \cup {prog.key[n]}) \in Nat
        BY <1>4 DEF Unseen
    <2> QED
        BY <1>5, <1>6, <2>3, <2>4
<1> QED
    BY <1>6, <1>7

LEMMA CostType ==
    ASSUME prog \in Program, NEW fork \in Fork
    PROVE  /\ Cost(fork) \in Nat /\ Cost(fork) > 0
           /\ IsFiniteSet(fork.todo) /\ Cardinality(fork.todo) \in 0..Cardinality(Varnodes)
<1>1. fork.todo \in SUBSET Varnodes
    BY DEF Fork
<1>2. /\ IsFiniteSet(fork.todo) /\ Cardinality(fork.todo) \in Nat
      /\ Cardinality(fork.todo) <= Cardinality(Varnodes) /\ Cardinality(Varnodes) \in Nat
    BY <1>1, VarnodesAssumption, FS_Subset, FS_CardinalityType
<1>3. Weight[Unseen(fork.seen)] \in Nat
    BY WeightFacts, UnseenFacts
<1>4. Cardinality(fork.todo) * (Weight[Unseen(fork.seen)] + 1) \in Nat
    BY <1>2, <1>3
<1> QED
    BY <1>2, <1>4 DEF Cost

LEMMA SumExists ==
    ASSUME prog \in Program, NEW stack \in Seq(Fork)
    PROVE  \E sum : IsSum(sum, stack)
<1>1. PICK N : N = Len(stack)
    OBVIOUS
<1>2. N \in Nat /\ \A i \in 1..N : stack[i] \in Fork /\ i - 1 \in 0..N
    BY <1>1
<1>3. \A i \in 1..N : Cost(stack[i]) \in Nat
    BY <1>2, CostType
<1> DEFINE g == [pair \in Nat \X (1..N) |-> pair[1] + Cost(stack[pair[2]])]
<1>4. /\ g \in [Nat \X (1..N) -> Nat]
      /\ \A x \in Nat, i \in 1..N : g[<<x, i>>] = x + Cost(stack[i])
    <2>1. \A x \in Nat, i \in 1..N : x + Cost(stack[i]) \in Nat
        BY <1>3
    <2> QED
        BY <2>1
<1> HIDE DEF g
<1>5. \E f : Iterates(f, N, Nat, 0, g)
    BY <1>2, <1>4, Recursion
<1>6. PICK f \in [0..N -> Nat] : f[0] = 0 /\ \A i \in 1..N : f[i] = g[<<f[i - 1], i>>]
    BY <1>5 DEF Iterates
<1>7. \A i \in 1..N : f[i] = f[i - 1] + Cost(stack[i])
    BY <1>2, <1>4, <1>6
<1>8. IsSum(f, stack)
    BY <1>1, <1>6, <1>7 DEF IsSum
<1> QED
    BY <1>8

LEMMA TotalFacts ==
    ASSUME prog \in Program, NEW stack \in Seq(Fork)
    PROVE  /\ Total(stack) \in Nat
           /\ stack = <<>> => Total(stack) = 0
           /\ \A fork \in Fork : Total(Append(stack, fork)) = Total(stack) + Cost(fork)
<1>1. PICK a : a = CHOOSE sum : IsSum(sum, stack)
    OBVIOUS
<1>2. IsSum(a, stack) /\ Total(stack) = a[Len(stack)] /\ Len(stack) \in Nat
    BY <1>1, SumExists DEF Total
<1>3. Total(stack) \in Nat /\ (stack = <<>> => Total(stack) = 0)
    BY <1>2 DEF IsSum
<1>4. ASSUME NEW fork \in Fork PROVE Total(Append(stack, fork)) = Total(stack) + Cost(fork)
    <2>1. PICK both : both = Append(stack, fork)
        OBVIOUS
    <2>2. /\ both \in Seq(Fork) /\ Len(both) = Len(stack) + 1 /\ both[Len(stack) + 1] = fork
          /\ \A i \in 1..Len(stack) : both[i] = stack[i]
        BY <2>1
    <2>3. PICK b : b = CHOOSE sum : IsSum(sum, both)
        OBVIOUS
    <2>4. IsSum(b, both) /\ Total(both) = b[Len(both)]
        BY <2>2, <2>3, SumExists DEF Total
    <2> DEFINE T == {i \in 0..Len(stack) : a[i] = b[i]}
    <2>5. 0 \in T
        BY <1>2, <2>4 DEF IsSum
    <2>6. ASSUME NEW i \in 1..Len(stack), i - 1 \in T PROVE i \in T
        <3>1. i \in 1..Len(both) /\ both[i] = stack[i] /\ a[i - 1] = b[i - 1]
            BY <1>2, <2>2, <2>6
        <3>2. a[i] = a[i - 1] + Cost(stack[i]) /\ b[i] = b[i - 1] + Cost(both[i])
            BY <1>2, <2>4, <3>1 DEF IsSum
        <3> QED
            BY <1>2, <3>1, <3>2
    <2>7. Len(stack) \in T
        <3> HIDE DEF T
        <3>1. Len(stack) \in 0..Len(stack)
            BY <1>2
        <3> QED
            BY <1>2, <2>5, <2>6, <3>1, Induction
    <2>8. Len(stack) + 1 \in 1..Len(both) /\ Len(stack) + 1 - 1 = Len(stack)
        BY <1>2, <2>2
    <2>9. b[Len(stack) + 1] = b[Len(stack)] + Cost(fork)
        BY <2>2, <2>4, <2>8 DEF IsSum
    <2> QED
        BY <1>2, <2>1, <2>2, <2>4, <2>7, <2>9
<1> QED
    BY <1>3, <1>4

LEMMA WorkStable ==
    ASSUME prog' = prog
    PROVE  /\ \A seen : Unseen(seen)' = Unseen(seen)
           /\ \A fork : Cost(fork)' = Cost(fork)
           /\ \A stack : Total(stack)' = Total(stack)
           /\ Weight' = Weight
<1>1. Weight' = Weight
    BY DEF Weight
<1>2. \A seen : Unseen(seen)' = Unseen(seen)
    BY DEF Unseen, KeysInUse
<1>3. \A fork : Cost(fork)' = Cost(fork)
    BY <1>1, <1>2 DEF Cost
<1>4. \A stack : Total(stack)' = Total(stack)
    BY <1>3 DEF Total, IsSum
<1> QED
    BY <1>1, <1>2, <1>3, <1>4

LEMMA Products ==
    /\ \A a, b, c \in Nat : a <= b => a * c <= b * c
    /\ \A a, c \in Nat : a > 0 => (a - 1) * c + c = a * c
<1>1. \A a, b, c \in Nat : a <= b => a * c <= b * c
    OBVIOUS
<1>2. \A a, c \in Nat : a > 0 => (a - 1) * c + c = a * c
    OBVIOUS
<1> QED
    BY <1>1, <1>2

LEMMA WorkType == TypeOK => Work \in Nat
<1> SUFFICES ASSUME TypeOK PROVE Work \in Nat
    OBVIOUS
<1>1. Total(forks) \in Nat
    BY TotalFacts DEF TypeOK
<1>2. Weight[Unseen(walk.seen)] \in Nat
    BY WeightFacts, UnseenFacts DEF TypeOK
<1> QED
    BY <1>1, <1>2 DEF Work

(* A stack is worth its rest and its last fork.                             *)
LEMMA TotalOfTop ==
    ASSUME prog \in Program, NEW stack \in Seq(Fork), stack # <<>>
    PROVE  /\ Total(stack) = Total(Rest(stack)) + Cost(Last(stack))
           /\ Rest(stack) \in Seq(Fork) /\ Last(stack) \in Fork
           /\ Total(Rest(stack)) \in Nat /\ Cost(Last(stack)) \in Nat /\ Cost(Last(stack)) > 0
<1>1. Rest(stack) \in Seq(Fork) /\ Last(stack) \in Fork
    BY StackTypes
<1>2. stack = Append(Rest(stack), Last(stack))
    BY DEF Rest, Last
<1> QED
    BY <1>1, <1>2, TotalFacts, CostType

LEMMA ReturnWork ==
    ASSUME prog \in Program, NEW stack \in Seq(Fork), NEW outcome \in Outcome,
           Return(outcome, stack)
    PROVE  Work' = Total(stack) /\ Total(stack) \in Nat
<1>0. prog' = prog /\ phase' # "walk" /\ prog' \in Program
    BY DEF Return
<1>1. CASE stack = <<>>
    <2>1. Total(forks') = 0 /\ Total(stack) = 0
        BY <1>1, TotalFacts DEF Return
    <2>2. Total(forks)' = Total(forks')
        BY <1>0, WorkStable
    <2> QED
        BY <1>0, <2>1, <2>2 DEF Work
<1>2. CASE stack # <<>>
    <2>1. PICK new : new = Gather(Last(stack), outcome)
        OBVIOUS
    <2>2. new \in Fork /\ Cost(new) = Cost(Last(stack))
        BY <1>2, <2>1, StackTypes, ForkTypes DEF Cost, Gather
    <2>3. Total(forks') = Total(Rest(stack)) + Cost(new)
        BY <1>2, <2>1, <2>2, StackTypes, TotalFacts DEF Return
    <2>4. Total(forks)' = Total(forks')
        BY <1>0, WorkStable
    <2> QED
        BY <1>0, <1>2, <2>2, <2>3, <2>4, TotalOfTop DEF Work
<1> QED
    BY <1>1, <1>2

LEMMA VisitWork ==
    ASSUME TypeOK, phase = "walk", ~Revisited
    PROVE  \E u \in 1..Cardinality(Varnodes) :
               /\ Unseen(walk.seen) = u /\ Unseen(Seen) = u - 1
               /\ Weight[u] \in Nat /\ Weight[u - 1] \in Nat
               /\ Weight[u] = Cardinality(Varnodes) * (Weight[u - 1] + 1) + 2
               /\ Weight[u - 1] < Weight[u]
<1> DEFINE N == Cardinality(Varnodes)
           u == Unseen(walk.seen)
<1>1. u \in 1..N /\ Unseen(Seen) = u - 1
    BY UnseenFacts DEF TypeOK, Walk, Revisited, Seen
<1>2. N \in Nat
    BY WeightFacts
<1> HIDE DEF N, u
<1>3. u \in 0..N /\ u - 1 \in 0..N /\ 1 <= N
    BY <1>1, <1>2
<1>4. /\ Weight[u] \in Nat /\ Weight[u - 1] \in Nat
      /\ Weight[u] = N * (Weight[u - 1] + 1) + 2
    BY <1>1, <1>3, WeightFacts DEF N
<1>5. 1 * (Weight[u - 1] + 1) <= N * (Weight[u - 1] + 1)
    BY <1>2, <1>3, <1>4, Products
<1>6. N * (Weight[u - 1] + 1) \in Nat
    BY <1>2, <1>4
<1>7. Weight[u - 1] < Weight[u]
    BY <1>4, <1>5, <1>6
<1> QED
    BY <1>1, <1>4, <1>7 DEF N, u

LEMMA WaitWork ==
    ASSUME TypeOK, phase = "walk", ~Revisited, NEW hops \in 0..MaxHops, Wait(hops),
           prog' = prog, phase' = "fork"
    PROVE  Work' < Work
<1>1. PICK new : new = [at |-> walk.at, hops |-> hops, seen |-> Seen,
                        todo |-> Visit.inputs, found |-> Lost]
    OBVIOUS
<1>2. Seen \in SUBSET Keys /\ Visit.inputs \in SUBSET Varnodes /\ Lost \in SUBSET Outcome
    BY DefinitionTypes, OutcomeTypes DEF TypeOK, Walk, Seen, Visit, Lost
<1>3. new \in Fork /\ forks \in Seq(Fork) /\ prog \in Program
    BY <1>1, <1>2 DEF TypeOK, Walk, Fork
<1>4. Total(forks') = Total(forks) + Cost(new)
    BY <1>1, <1>3, TotalFacts DEF Wait
<1>5. PICK u \in 1..Cardinality(Varnodes) :
          /\ Unseen(walk.seen) = u /\ Unseen(Seen) = u - 1
          /\ Weight[u] \in Nat /\ Weight[u - 1] \in Nat
          /\ Weight[u] = Cardinality(Varnodes) * (Weight[u - 1] + 1) + 2
    BY VisitWork
<1>6. Cost(new) = Cardinality(new.todo) * (Weight[u - 1] + 1) + 1
    BY <1>1, <1>5 DEF Cost
<1>7. /\ Cardinality(new.todo) \in Nat /\ Cardinality(Varnodes) \in Nat
      /\ Cardinality(new.todo) <= Cardinality(Varnodes)
    BY <1>3, CostType, WeightFacts
<1>8. Cardinality(new.todo) * (Weight[u - 1] + 1)
          <= Cardinality(Varnodes) * (Weight[u - 1] + 1)
    BY <1>5, <1>7, Products
<1>9. /\ Cardinality(new.todo) * (Weight[u - 1] + 1) \in Nat
      /\ Cardinality(Varnodes) * (Weight[u - 1] + 1) \in Nat
    BY <1>5, <1>7
<1>10. Cost(new) < Weight[u] /\ Cost(new) \in Nat
    BY <1>5, <1>6, <1>8, <1>9
<1>11. Total(forks) \in Nat
    BY <1>3, TotalFacts
<1>12. Work' = Total(forks) + Cost(new)
    <2>1. Total(forks)' = Total(forks')
        BY WorkStable
    <2>2. Total(forks)' \in Nat
        BY <1>4, <1>10, <1>11, <2>1
    <2> QED
        BY <1>4, <2>1, <2>2 DEF Work
<1>13. Work = Total(forks) + Weight[u]
    BY <1>5 DEF Work
<1> QED
    BY <1>5, <1>10, <1>11, <1>12, <1>13

LEMMA CandidateWork ==
    ASSUME TypeOK, NEW m \in Varnodes, Candidate(m)
    PROVE  Work' < Work
<1>1. PICK new : new = Take(Top, m)
    OBVIOUS
<1>2. forks \in Seq(Fork) /\ forks # <<>> /\ Top = Last(forks) /\ prog \in Program
    BY DEF TypeOK, Candidate, Top
<1>3. Top \in Fork /\ Rest(forks) \in Seq(Fork) /\ new \in Fork
    BY <1>1, <1>2, StackTypes, ForkTypes
<1> DEFINE w == Weight[Unseen(Top.seen)]
           c == Cardinality(Top.todo)
<1>4. w \in Nat
    BY <1>2, WeightFacts, UnseenFacts
<1>5. m \in Top.todo /\ IsFiniteSet(Top.todo) /\ c \in Nat
    BY <1>2, <1>3, CostType, WeightFacts DEF Candidate
<1>6. Cardinality(new.todo) = c - 1 /\ new.todo = Top.todo \ {m} /\ new.seen = Top.seen
    BY <1>1, <1>5, FS_RemoveElement DEF Take
<1>7. c > 0
    BY <1>5, FS_EmptySet
<1>8. Cost(new) = (c - 1) * (w + 1) + 1 /\ Cost(Top) = c * (w + 1) + 1
    BY <1>6 DEF Cost
<1>9. Total(forks') = Total(Rest(forks)) + Cost(new)
    BY <1>1, <1>2, <1>3, TotalFacts DEF Candidate
<1>10. Total(forks) = Total(Rest(forks)) + Cost(Top) /\ Total(Rest(forks)) \in Nat
    BY <1>2, TotalOfTop
<1>11. prog' = prog /\ phase = "fork" /\ phase' = "walk" /\ walk'.seen = Top.seen
    BY DEF Candidate
<1>12. Cost(new) \in Nat
    BY <1>2, <1>3, CostType
<1>13. Work' = Total(forks') + w /\ Work = Total(forks)
    <2>1. Total(forks)' = Total(forks') /\ Weight' = Weight
        BY <1>11, WorkStable
    <2>2. Unseen(walk.seen)' = Unseen(walk'.seen)
        BY <1>11, WorkStable
    <2>3. Unseen(walk'.seen) = Unseen(Top.seen)
        BY <1>11
    <2>4. Work' = Total(forks') + w
        BY <1>11, <2>1, <2>2, <2>3 DEF Work
    <2>5. Work = Total(forks)
        BY <1>2, <1>11, TotalFacts DEF Work
    <2> QED
        BY <2>4, <2>5
<1> HIDE DEF w, c
<1>14. (c - 1) * (w + 1) + (w + 1) = c * (w + 1) /\ (c - 1) * (w + 1) \in Nat
    BY <1>4, <1>5, <1>7, Products
<1> QED
    BY <1>4, <1>5, <1>8, <1>9, <1>10, <1>13, <1>14

LEMMA NextWork == TypeOK /\ Next => Work' < Work
<1> SUFFICES ASSUME TypeOK, Next PROVE Work' < Work
    OBVIOUS
<1>0. /\ prog \in Program /\ forks \in Seq(Fork) /\ walk.at \in Varnodes
      /\ walk.hops \in 0..MaxHops /\ Work \in Nat
    BY WorkType DEF TypeOK, Walk
<1>1. ASSUME phase = "walk", NEW outcome \in Outcome, Return(outcome, forks)
      PROVE  Work' < Work
    <2>1. Work' = Total(forks) /\ Total(forks) \in Nat
        BY <1>0, <1>1, ReturnWork
    <2>2. Weight[Unseen(walk.seen)] > 0 /\ Weight[Unseen(walk.seen)] \in Nat
        BY <1>0, WeightFacts, UnseenFacts
    <2> QED
        BY <1>1, <2>1, <2>2 DEF Work
<1>2. ASSUME phase = "fork", NEW outcome \in Outcome, Return(outcome, Rest(forks))
      PROVE  Work' < Work
    <2>1. /\ Total(forks) = Total(Rest(forks)) + Cost(Top)
          /\ Rest(forks) \in Seq(Fork) /\ Total(Rest(forks)) \in Nat
          /\ Cost(Top) \in Nat /\ Cost(Top) > 0
        BY <1>0, <1>2, TotalOfTop DEF TypeOK, Top
    <2>2. Work' = Total(Rest(forks))
        BY <1>0, <1>2, <2>1, ReturnWork
    <2> QED
        BY <1>2, <2>1, <2>2 DEF Work
<1>3. CASE Cycle
    BY <1>1, <1>3, OutcomeTypes DEF Cycle
<1>4. CASE Literal
    <2>1. [terminal |-> Visit.op, origin |-> Visit.origin] \in Outcome
        BY <1>0, <1>4, DefinitionTypes DEF Literal, Outcome, Visit
    <2> QED
        BY <1>1, <1>4, <2>1 DEF Literal
<1>5. CASE Cut
    BY <1>1, <1>5, OutcomeTypes DEF Cut
<1>6. CASE Exhausted
    BY <1>1, <1>6, OutcomeTypes DEF Exhausted
<1>7. CASE Copy
    <2>1. /\ phase = "walk" /\ phase' = "walk" /\ ~Revisited /\ prog' = prog
          /\ forks' = forks /\ walk'.seen = Seen
        BY <1>7 DEF Copy
    <2>2. PICK u \in 1..Cardinality(Varnodes) :
              /\ Unseen(walk.seen) = u /\ Unseen(Seen) = u - 1
              /\ Weight[u] \in Nat /\ Weight[u - 1] \in Nat /\ Weight[u - 1] < Weight[u]
        BY <2>1, VisitWork
    <2>3. Work' = Total(forks) + Weight[u - 1] /\ Work = Total(forks) + Weight[u]
        BY <2>1, <2>2, WorkStable DEF Work
    <2>4. Total(forks) \in Nat
        BY <1>0, TotalFacts
    <2> QED
        BY <2>2, <2>3, <2>4
<1>8. CASE Merge
    BY <1>0, <1>8, WaitWork DEF Merge
<1>9. CASE Hop
    <2>1. walk.hops - 1 \in 0..MaxHops
        BY <1>0, <1>9, OperandAssumption DEF Hop
    <2> QED
        BY <1>9, <2>1, WaitWork DEF Hop
<1>10. ASSUME NEW m \in Varnodes, Candidate(m) PROVE Work' < Work
    BY <1>10, CandidateWork
<1>11. CASE Agree
    <2>1. Top.found \subseteq Outcome
        BY <1>0, <1>11, StackTypes DEF Agree, TypeOK, Top, Fork
    <2> QED
        BY <1>2, <1>11, <2>1 DEF Agree
<1>12. CASE Disagree
    BY <1>2, <1>12, OutcomeTypes DEF Disagree
<1> QED
    BY <1>3, <1>4, <1>5, <1>6, <1>7, <1>8, <1>9, <1>10, <1>11, <1>12 DEF Next

(* No trace goes on for ever: each step of it lowers a natural number, with *)
(* loops of merges and recursive functions in the analysed program too. It  *)
(* takes at most Weight[Unseen({})] steps.                                  *)
THEOREM TraceIsFinite == Spec => [](Work \in Nat) /\ [][Work' < Work]_vars
<1>1. TypeOK /\ [Next]_vars => [Work' < Work]_vars
    BY NextWork DEF vars
<1> QED
    BY <1>1, WorkType, InitTypeOK, NextTypeOK, PTL DEF Spec
=============================================================================
