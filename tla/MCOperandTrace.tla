----------------------------- MODULE MCOperandTrace -----------------------------
(* Instances of OperandTrace for TLC: the operand n1, two further varnodes, *)
(* a constant and a varnode that is another literal or a cut.               *)
EXTENDS OperandTrace, TLC

CONSTANTS n1, n2, n3, x, y, k1, k2

Def(op, origin, inputs, lost) ==
    [op |-> op, origin |-> origin, inputs |-> inputs, lost |-> lost]
Leaf(op, origin) == Def(op, origin, {}, FALSE)
Upto(k) == {set \in SUBSET Varnodes : Cardinality(set) <= k}

Merges == {Def("MULTIEQUAL", k1, set, FALSE) : set \in Upto(2) \ Upto(1)}
Copies == {Def("COPY", k1, {n}, FALSE) : n \in Varnodes}
Calls == {Def("CALL", k1, set, FALSE) : set \in Upto(2)}
Params == {Def("PARAM", k1, set, FALSE) : set \in Upto(2)} \cup
          {Def("PARAM", k1, {n}, TRUE) : n \in {x, n2}}

(* No varnode is its own source, and the operand is nobody's copy.          *)
Defs(n) == {def \in Merges \cup Copies \cup Calls \cup Params :
               n \notin def.inputs /\ (def.op = "COPY" => n1 \notin def.inputs)}
(* n3 closes loops, shares sources and lengthens chains.                    *)
Third == {def \in Defs(n3) : def.inputs \in {{x}, {n2}, {n1, x}}}
Leaves == {Leaf("CONST", k2), Leaf("ADDR", k1), Leaf("LOAD", k1), Leaf("INDIRECT", k1)}

Plain == [n \in Varnodes |-> n]
Alike == [n \in Varnodes |-> IF n = n3 THEN n2 ELSE n]

Layout(d1, d2, d3, leaf, key) ==
    [def |-> [n \in Varnodes |-> CASE n = n1 -> d1 [] n = n2 -> d2 [] n = n3 -> d3
                                   [] n = x -> Leaf("CONST", k1) [] n = y -> leaf],
     key |-> key]
(* Every leaf with varnodes that print differently; one more time, with a   *)
(* LOAD, for n2 and n3 that print alike.                                    *)
Ends == (Leaves \X {Plain}) \cup {<<Leaf("LOAD", k1), Alike>>}
AllPrograms ==
    {Layout(d1, d2, d3, end[1], end[2]) :
        d1 \in Defs(n1), d2 \in Defs(n2), d3 \in Third, end \in Ends}
=============================================================================
