------------------------------ MODULE OperandTrace ------------------------------
(****************************************************************************)
(* taint/tracer.py trace_operand: the walk from an operand of a crypto call *)
(* back through the def-use chains of the decompiled functions, over calls  *)
(* and returns, to the one constant or address it comes from.               *)
(*                                                                          *)
(* The recursion of _walk is its stack: walk is the call in progress, forks *)
(* are the _walk_unanimous, _hop_to_return and _hop_to_callers calls that   *)
(* wait for a candidate. They wait for all of them and compare afterwards,  *)
(* so the order of the candidates is left open.                             *)
(****************************************************************************)
EXTENDS Naturals, FiniteSets, Sequences

CONSTANTS
    Varnodes,   \* the SSA varnodes of the program, over all its functions
    Operand,    \* the varnode trace_operand is asked about
    Origins,    \* constants and addresses a trace can end in
    Keys,       \* what _walk remembers of a varnode: function and printed form
    MaxHops,    \* MAX_INTERPROCEDURAL_HOPS
    Programs    \* the programs considered

NoOrigin == "None"
Literals == {"CONST", "ADDR"}
Hops == {"PARAM", "CALL"}
(* Where a walk ends without an origin, by the operation that defines the   *)
(* varnode: INPUT is an undefined varnode that is no parameter.             *)
CutOps == {"INPUT", "INDIRECT", "PTRSUB", "LOAD", "OTHER"}
Terminal(op) == CASE op = "PTRSUB" -> "POINTER"
                  [] op = "LOAD"   -> "MEMORY"
                  [] op = "OTHER"  -> "TRANSFORM"
                  [] OTHER         -> op

(* How a varnode gets its value. COPY stands for COPY, CAST and PTRSUB of a *)
(* null base. inputs are the varnodes the decompiler shows: of a PARAM, the *)
(* arguments at the CALLs of its function; of a CALL, what the callee's     *)
(* RETURNs give (none when it cannot be resolved or decompiled). lost: some *)
(* CALL of the function does not show the argument. Calls that are passed   *)
(* over (in code outside any function, in code that fails to decompile, by  *)
(* another operation than CALL) are nobody's inputs.                        *)
Definition == [op : Literals \cup Hops \cup CutOps \cup {"COPY", "MULTIEQUAL"},
               origin : Origins, inputs : SUBSET Varnodes, lost : BOOLEAN]

Program == [def : [Varnodes -> Definition], key : [Varnodes -> Keys]]

ASSUME VarnodesAssumption == IsFiniteSet(Varnodes)
ASSUME OperandAssumption == Operand \in Varnodes /\ MaxHops \in Nat /\ NoOrigin \notin Origins
ASSUME ProgramsAssumption ==
    /\ Programs \subseteq Program
    /\ \A p \in Programs, n \in Varnodes :
          p.def[n].op = "COPY" => /\ \E m \in Varnodes : p.def[n].inputs = {m}
                                  /\ ~p.def[n].lost

Outcome == [terminal : Literals \cup {"None", "INPUT", "CALL", "INDIRECT", "POINTER",
                                      "MEMORY", "TRANSFORM"},
            origin : Origins \cup {NoOrigin}]
Resolved == [terminal : Literals, origin : Origins]
Unresolved(terminal) == [terminal |-> terminal, origin |-> NoOrigin]

Walk == [at : Varnodes, hops : 0..MaxHops, seen : SUBSET Keys]
(* hops and seen are what each candidate starts with, todo the candidates   *)
(* still to walk, found the outcomes of the others.                         *)
Fork == [at : Varnodes, hops : 0..MaxHops, seen : SUBSET Keys,
         todo : SUBSET Varnodes, found : SUBSET Outcome]

VARIABLES prog, phase, walk, forks, result
vars == <<prog, phase, walk, forks, result>>

TypeOK ==
    /\ prog \in Program
    /\ phase \in {"walk", "fork", "done"}
    /\ walk \in Walk
    /\ forks \in Seq(Fork)
    /\ result \in Outcome
    /\ phase = "fork" => forks # <<>>

Init ==
    /\ prog \in Programs
    /\ phase = "walk"
    /\ walk = [at |-> Operand, hops |-> MaxHops, seen |-> {}]
    /\ forks = <<>>
    /\ result = Unresolved("None")

Last(stack) == stack[Len(stack)]
Rest(stack) == SubSeq(stack, 1, Len(stack) - 1)
Top == Last(forks)

Gather(fork, outcome) == [at |-> fork.at, hops |-> fork.hops, seen |-> fork.seen,
                          todo |-> fork.todo, found |-> fork.found \cup {outcome}]
Take(fork, m) == [at |-> fork.at, hops |-> fork.hops, seen |-> fork.seen,
                  todo |-> fork.todo \ {m}, found |-> fork.found]

(* Mistaken: candidates share one seen set instead of a copy each.          *)
Return_SharesSeen(outcome, stack) ==
    /\ phase' = IF stack = <<>> THEN "done" ELSE "fork"
    /\ forks' = IF stack = <<>> THEN <<>>
                ELSE Append(Rest(stack),
                            [Gather(Last(stack), outcome) EXCEPT
                                !.seen = Last(stack).seen \cup walk.seen
                                             \cup {prog.key[walk.at]}])
    /\ result' = IF stack = <<>> THEN outcome ELSE result
    /\ UNCHANGED <<prog, walk>>

(* A call returns to the fork that waits for it, or ends the trace.         *)
Return(outcome, stack) ==
    /\ phase' = IF stack = <<>> THEN "done" ELSE "fork"
    /\ forks' = IF stack = <<>> THEN <<>>
                ELSE Append(Rest(stack), Gather(Last(stack), outcome))
    /\ result' = IF stack = <<>> THEN outcome ELSE result
    /\ UNCHANGED <<prog, walk>>

(****************************************************************************)
(* _walk                                                                    *)
(****************************************************************************)
Visit == prog.def[walk.at]
(* Mistaken: the cycle check is dropped.                                    *)
Revisited_Never == FALSE

Revisited == prog.key[walk.at] \in walk.seen
Seen == walk.seen \cup {prog.key[walk.at]}

Cycle == phase = "walk" /\ Revisited /\ Return(Unresolved("None"), forks)

Literal ==
    /\ phase = "walk" /\ ~Revisited
    /\ Visit.op \in Literals
    /\ Return([terminal |-> Visit.op, origin |-> Visit.origin], forks)

Cut ==
    /\ phase = "walk" /\ ~Revisited
    /\ Visit.op \in CutOps
    /\ Return(Unresolved(Terminal(Visit.op)), forks)

Fallback(op) == Unresolved(IF op = "CALL" THEN "CALL" ELSE "INPUT")

(* Mistaken: only parameters fall back to a cut when no hop is left.        *)
Exhausted_ParamsOnly ==
    /\ phase = "walk" /\ ~Revisited
    /\ Visit.op = "PARAM" /\ walk.hops = 0
    /\ Return(Fallback(Visit.op), forks)

(* No hop is left.                                                          *)
Exhausted ==
    /\ phase = "walk" /\ ~Revisited
    /\ Visit.op \in Hops /\ walk.hops = 0
    /\ Return(Fallback(Visit.op), forks)

Copy ==
    /\ phase = "walk" /\ ~Revisited
    /\ Visit.op = "COPY"
    /\ \E m \in Visit.inputs : walk' = [at |-> m, hops |-> walk.hops, seen |-> Seen]
    /\ UNCHANGED <<prog, phase, forks, result>>

Lost == IF Visit.lost THEN {Unresolved("INPUT")} ELSE {}

Wait(hops) == forks' = Append(forks, [at |-> walk.at, hops |-> hops, seen |-> Seen,
                                      todo |-> Visit.inputs, found |-> Lost])

Merge ==
    /\ phase = "walk" /\ ~Revisited
    /\ Visit.op = "MULTIEQUAL"
    /\ Wait(walk.hops)
    /\ phase' = "fork"
    /\ UNCHANGED <<prog, walk, result>>

(* Mistaken: the depth bound is not looked at before a hop.                 *)
Hop_Unbounded ==
    /\ phase = "walk" /\ ~Revisited
    /\ Visit.op \in Hops
    /\ Wait(walk.hops - 1)
    /\ phase' = "fork"
    /\ UNCHANGED <<prog, walk, result>>

Hop ==
    /\ phase = "walk" /\ ~Revisited
    /\ Visit.op \in Hops /\ walk.hops > 0
    /\ Wait(walk.hops - 1)
    /\ phase' = "fork"
    /\ UNCHANGED <<prog, walk, result>>

(****************************************************************************)
(* _walk_unanimous, _hop_to_return, _hop_to_callers                         *)
(****************************************************************************)
Candidate(m) ==
    /\ phase = "fork"
    /\ m \in Top.todo
    /\ walk' = [at |-> m, hops |-> Top.hops, seen |-> Top.seen]
    /\ forks' = Append(Rest(forks), Take(Top, m))
    /\ phase' = "walk"
    /\ UNCHANGED <<prog, result>>

(* A merge accepts a literal only; a hop passes on any cut it agrees on but *)
(* those that say nothing of the value.                                     *)
Refused(op) == {"None", "INPUT", "CALL", "INDIRECT"} \cup
               IF op = "MULTIEQUAL" THEN {"MEMORY", "POINTER", "TRANSFORM"} ELSE {}

(* Mistaken: candidates without an origin are left out of the comparison.   *)
Unanimous_OfResolved(fork, outcome) ==
    /\ {found \in fork.found : found.origin # NoOrigin} = {outcome}
    /\ outcome.terminal \notin Refused(prog.def[fork.at].op)

Unanimous(fork, outcome) ==
    fork.found = {outcome} /\ outcome.terminal \notin Refused(prog.def[fork.at].op)

Agree ==
    /\ phase = "fork" /\ Top.todo = {}
    /\ \E outcome \in Top.found : Unanimous(Top, outcome) /\ Return(outcome, Rest(forks))

Disagree ==
    /\ phase = "fork" /\ Top.todo = {}
    /\ ~\E outcome \in Top.found : Unanimous(Top, outcome)
    /\ Return(Fallback(prog.def[Top.at].op), Rest(forks))

Next ==
    \/ Cycle \/ Literal \/ Cut \/ Exhausted \/ Copy \/ Merge \/ Hop
    \/ \E m \in Varnodes : Candidate(m)
    \/ Agree \/ Disagree

Spec == Init /\ [][Next]_vars
(* The trace is one sequential call: it goes on as long as it has a step.   *)
FairSpec == Spec /\ WF_vars(Next)

(****************************************************************************)
(* What a trace may say                                                     *)
(****************************************************************************)
Shown == [n \in Varnodes |-> prog.def[n].inputs]

(* A set of varnodes none of which can get its value from anywhere but      *)
(* outcome: every source of a member is a member, up to literals equal to   *)
(* outcome.                                                                 *)
OnlyFrom(set, outcome, sources) ==
    \A n \in set :
        LET d == prog.def[n] IN
        \/ d.op \in Literals /\ d.op = outcome.terminal /\ d.origin = outcome.origin
        \/ /\ d.op \in Hops \cup {"COPY", "MULTIEQUAL"}
           /\ ~d.lost
           /\ sources[n] # {} /\ sources[n] \subseteq set

(* The varnodes that denote outcome in every execution.                     *)
Denoting(outcome, sources) ==
    UNION {set \in SUBSET Varnodes : OnlyFrom(set, outcome, sources)}

(* A resolved operand can come from nowhere else, over all merges, callers  *)
(* and returns the decompiler shows, however the hops of the trace and its  *)
(* cycle check cut it: what hardcoded_key and the other facts are built on. *)
TraceSound ==
    phase = "done" /\ result \in Resolved => Operand \in Denoting(result, Shown)

(* The reference evaluation: pairs of a varnode and the hops left to it     *)
(* that resolve to outcome, from the literals upwards.                      *)
Justified(n, hops, outcome, known) ==
    LET d == prog.def[n] IN
    \/ d.op = outcome.terminal /\ d.origin = outcome.origin
    \/ /\ d.op \in {"COPY", "MULTIEQUAL"} \cup Hops
       /\ ~d.lost /\ d.inputs # {}
       /\ d.op \in Hops => hops > 0
       /\ \A m \in d.inputs : <<m, IF d.op \in Hops THEN hops - 1 ELSE hops>> \in known

Derivable(outcome) ==
    LET rounds == Cardinality(Varnodes) * (MaxHops + 1)
        upto[i \in 0..rounds] ==
            IF i = 0 THEN {}
            ELSE {pair \in Varnodes \X (0..MaxHops) :
                      Justified(pair[1], pair[2], outcome, upto[i - 1])}
    IN  upto[rounds]

Distinct == \A m, n \in Varnodes : prog.key[m] = prog.key[n] => m = n

(* The walk with its shared and copied seen sets, fallbacks and cut cycles  *)
(* resolves what the reference evaluation does and nothing else. When two   *)
(* varnodes of a function print alike the walk may take one for a cycle of  *)
(* the other, and lose an origin but never find a false one.                *)
TraceExact ==
    phase = "done" =>
        \A outcome \in Resolved :
            /\ result = outcome => <<Operand, MaxHops>> \in Derivable(outcome)
            /\ Distinct /\ <<Operand, MaxHops>> \in Derivable(outcome) => result = outcome

(* The recursion never waits twice for one varnode, so its depth is bounded *)
(* by the program, through loops of merges and recursive functions too.     *)
NoReentry ==
    \A i, j \in 1..Len(forks) :
        prog.key[forks[i].at] = prog.key[forks[j].at] => i = j

(* Every trace ends, and with an answer for the operand.                    *)
Terminates == <>(phase = "done")
=============================================================================
