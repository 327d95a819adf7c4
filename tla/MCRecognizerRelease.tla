------------------------- MODULE MCRecognizerRelease -------------------------
(* An instance of RecognizerRelease for TLC: two primitives.  Thresholds    *)
(* are as low as 43, and scores as high as 100.                             *)
EXTENDS RecognizerRelease

Row(a, b) == [l \in Labels |-> IF l = 0 THEN a ELSE b]
Seen(g, s, n) == [gnn |-> g, semantic |-> s, name |-> n]
Of(id, truth, g, s, n) == [id |-> id, truth |-> truth, slice |-> id % 2, scores |-> Seen(g, s, n)]
NoName == Row(0, 0)

Clear0 == Of(1, 0, Row(90, 5), Row(96, 2), NoName)
Weak0  == Of(2, 0, Row(60, 20), Row(80, 10), NoName)
Named1 == Of(3, 1, Row(10, 80), Row(5, 90), Row(0, 100))
Bare1  == Of(3, 1, Row(10, 80), Row(5, 90), NoName)
Alike  == Of(4, 2, Row(70, 10), Row(95, 0), NoName)
Other  == Of(5, 2, Row(20, 20), Row(30, 10), NoName)
Taken  == Of(6, 2, Row(20, 20), Row(30, 92), Row(0, 100))
Taken0 == Of(7, 0, Row(20, 20), Row(30, 10), Row(0, 100))
Low0   == Of(8, 0, Row(20, 20), Row(43, 57), NoName)

Data(v, t) == [validation |-> v, test |-> t]
MCDatasets ==
    {Data({Clear0, Weak0, Named1, Alike}, {Clear0, Named1, Other}),
     Data({Clear0, Weak0, Bare1, Alike}, {Clear0, Weak0, Bare1, Other}),
     Data({Clear0, Weak0, Named1, Other}, {Clear0, Weak0, Other}),
     Data({Clear0, Named1, Alike}, {Clear0, Taken0, Other}),
     Data({Clear0, Named1, Alike}, {Clear0, Taken}),
     Data({Clear0, Weak0, Low0, Named1, Other}, {Clear0, Named1, Other}),
     Data({Clear0, Alike}, {Weak0, Other})}

MCRegions ==
    {Seen(g, s, n) : g \in {Row(92, 5), Row(60, 30), Row(10, 80), Row(40, 40)},
                     s \in {Row(100, 0), Row(97, 1), Row(80, 10), Row(45, 50), Row(5, 93)},
                     n \in {NoName, Row(0, 100), Row(100, 0)}}
=============================================================================
