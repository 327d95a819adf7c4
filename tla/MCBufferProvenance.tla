--------------------------- MODULE MCBufferProvenance ---------------------------
(* Instances of BufferProvenance for TLC: an operand of three cells, two of *)
(* which stand for its first 16 bytes.                                      *)
EXTENDS BufferProvenance, TLC

CONSTANTS main, c1, c2, x1, x2, x3

MCChecked == {x1, x2}
MCCells == MCChecked \cup {x3}
Symmetry == Permutations(Callers)

Copy(v, w) == [kind |-> "COPY", callee |-> "unknown", first |-> w \cap MCChecked # {},
               rest |-> FALSE, value |-> v, covers |-> FALSE, writes |-> w]
Store(v, w) == [kind |-> "STORE", callee |-> "unknown", first |-> TRUE, rest |-> FALSE,
                value |-> v, covers |-> FALSE, writes |-> w]
Into(callee, v, w) == [kind |-> "CALL", callee |-> callee, first |-> TRUE, rest |-> FALSE, value |-> v,
                       covers |-> callee = "memset" /\ MCChecked \subseteq w, writes |-> w]
OutOf(callee, w) == [kind |-> "CALL", callee |-> callee, first |-> FALSE, rest |-> TRUE,
                     value |-> "other", covers |-> FALSE, writes |-> w]

(* Operations on the buffer that do what they show, ...                     *)
ExactOps ==
    {Copy("const", {x}) : x \in MCCells} \cup
    {Copy("const", MCChecked), Copy("other", {x2, x3}),
     Store("time", {x1}), Store("time", {x3}), Store("other", {x2}),
     Into("RAND_bytes", "RAND_bytes", MCCells), Into("getrandom", "getrandom", MCCells),
     Into("memset", "const", MCCells), Into("memset", "const", MCChecked),
     Into("memset", "const", {x1}),
     Into("memcpy", "const", MCCells), Into("memcpy", "other", MCCells),
     Into("unknown", "other", MCCells), OutOf("memcpy", {})}
(* ... and some whose pointer may be another one, whose stack offset is not *)
(* known, or that write through a further argument.                         *)
LooseOps ==
    {Store("time", {}), [Copy("const", MCChecked) EXCEPT !.first = FALSE],
     OutOf("unknown", {x1})}
AllOps == ExactOps \cup LooseOps
=============================================================================
