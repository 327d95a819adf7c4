--------------------------- MODULE ApiProcessProofs ---------------------------
(****************************************************************************)
(* Proofs about the API processes: the development key is seeded once, and  *)
(* a client that is refused has earned it.                                  *)
(****************************************************************************)
EXTENDS ApiProcess, FiniteSetTheorems, TLAPS

-----------------------------------------------------------------------------
(* Start-up and keepalive.                                                  *)

Process ==
    [host : Hosts, devKey : DevKeys \cup {NoKey},
     at : {"down", "org", "commit", "serving"},
     org : Orgs \cup {NoOrg}, keepalive : {"off", "on", "unreachable"}]

RowsInv ==
    /\ orgs \in SUBSET Orgs /\ keys \in [DevKeys -> Orgs \cup {NoOrg}]
    /\ \A k \in DevKeys : keys[k] # NoOrg => keys[k] \in orgs
    /\ \A o \in orgs : \E k \in DevKeys : keys[k] = o

(* What is known of a process: it holds an org from the lookup to the       *)
(* commit, and serves only after its key is in the database.                *)
Settled(r) ==
    /\ r \in Process
    /\ r.org \in Orgs <=> r.at = "commit"
    /\ r.at \in {"org", "commit"} => r.devKey \in DevKeys
    /\ r.keepalive # "off" => r.at = "serving"
    /\ r.at = "serving" /\ r.devKey # NoKey => keys[r.devKey] # NoOrg
Loops(r, p) == r.keepalive # "off" => p \in KeepaliveEnabled
ProcInv ==
    RowsInv /\ DOMAIN proc = Procs /\ \A p \in Procs : Settled(proc[p]) /\ Loops(proc[p], p)

LEMMA ProcInvInit == Init => ProcInv
<1> SUFFICES ASSUME Init PROVE ProcInv
    OBVIOUS
<1>1. RowsInv
    BY NoValueAssumption DEF Init, RowsInv
<1>2. PICK s \in Settings, h \in [Procs -> Hosts] :
          proc = [p \in Procs |-> [host |-> h[p], devKey |-> s[p], at |-> "down",
                                   org |-> NoOrg, keepalive |-> "off"]]
    BY DEF Init
<1>3. ASSUME NEW p \in Procs PROVE Settled(proc[p]) /\ Loops(proc[p], p)
    <2>1. s[p] \in DevKeys \cup {NoKey}
        BY SettingsAssumption
    <2> QED
        BY <1>2, <2>1, NoValueAssumption DEF Settled, Process, Loops
<1> QED
    BY <1>1, <1>2, <1>3 DEF ProcInv

(* One process moves, and no row is lost.                                   *)
LEMMA OneMoves ==
    ASSUME ProcInv, NEW p \in Procs, NEW r, proc' = [proc EXCEPT ![p] = r],
           RowsInv', Settled(r)', Loops(r, p),
           \A k \in DevKeys : keys[k] # NoOrg => keys'[k] # NoOrg
    PROVE  ProcInv'
<1>1. ASSUME NEW q \in Procs, q # p PROVE Settled(proc[q])' /\ Loops(proc[q], q)'
    <2>1. proc'[q] = proc[q] /\ Settled(proc[q]) /\ Loops(proc[q], q)
        BY <1>1 DEF ProcInv
    <2> QED
        BY <2>1 DEF Settled, Process, Loops
<1>2. DOMAIN proc' = Procs /\ proc'[p] = r
    BY DEF ProcInv
<1> QED
    BY <1>1, <1>2 DEF ProcInv, Settled, Loops

LEMMA SelectKeyKeeps == ASSUME ProcInv, NEW p \in Procs, SelectKey(p) PROVE ProcInv'
<1> DEFINE k == proc[p].devKey
<1>1. Settled(proc[p]) /\ proc[p].at = "down" /\ UNCHANGED <<orgs, keys>>
    BY DEF ProcInv, SelectKey, Starting
<1>2. RowsInv'
    BY <1>1 DEF ProcInv, RowsInv
<1>3. CASE k = NoKey \/ (k \in DevKeys /\ keys[k] # NoOrg)
    <2>1. PICK r : r = Up(p)
        OBVIOUS
    <2>2. proc' = [proc EXCEPT ![p] = r]
        BY <1>3, <2>1 DEF SelectKey
    <2>3. /\ r.host = proc[p].host /\ r.devKey = proc[p].devKey /\ r.at = "serving"
          /\ r.org = NoOrg /\ Loops(r, p) /\ r \in Process
        BY <1>1, <2>1 DEF Up, Settled, Process, Loops
    <2>4. Settled(r)'
        BY <1>1, <1>3, <2>3, NoValueAssumption DEF Settled
    <2> QED
        BY <1>1, <1>2, <2>2, <2>3, <2>4, OneMoves DEF Loops, ProcInv
<1>4. CASE ~(k = NoKey \/ (k \in DevKeys /\ keys[k] # NoOrg))
    <2>1. PICK r : r = [proc[p] EXCEPT !.at = "org"]
        OBVIOUS
    <2>2. proc' = [proc EXCEPT ![p] = r]
        BY <1>4, <2>1 DEF SelectKey
    <2>3. /\ r.host = proc[p].host /\ r.devKey = proc[p].devKey /\ r.at = "org"
          /\ r.org = proc[p].org /\ r.keepalive = proc[p].keepalive /\ r \in Process
        BY <1>1, <2>1 DEF Settled, Process
    <2>4. Settled(r)'
        BY <1>1, <1>4, <2>3 DEF Settled, Process
    <2> QED
        BY <1>1, <1>2, <2>2, <2>3, <2>4, OneMoves DEF Loops, ProcInv
<1> QED
    BY <1>3, <1>4

LEMMA SelectOrgKeeps == ASSUME ProcInv, NEW p \in Procs, SelectOrg(p) PROVE ProcInv'
<1>1. Settled(proc[p]) /\ proc[p].at = "org" /\ UNCHANGED <<orgs, keys>>
    BY DEF ProcInv, SelectOrg, Starting, Flushed
<1>2. RowsInv'
    BY <1>1 DEF ProcInv, RowsInv
<1>3. PICK o \in Orgs : proc' = [proc EXCEPT ![p].at = "commit", ![p].org = o]
    BY DEF SelectOrg, ProcInv, RowsInv
<1>4. PICK r : r = [proc[p] EXCEPT !.at = "commit", !.org = o]
    OBVIOUS
<1>5. proc' = [proc EXCEPT ![p] = r]
    BY <1>3, <1>4 DEF ProcInv
<1>6. /\ r.host = proc[p].host /\ r.devKey = proc[p].devKey /\ r.at = "commit"
      /\ r.org = o /\ r.keepalive = proc[p].keepalive /\ r \in Process
    BY <1>1, <1>4 DEF Settled, Process
<1>7. Settled(r)'
    BY <1>1, <1>6 DEF Settled
<1> QED
    BY <1>1, <1>2, <1>5, <1>6, <1>7, OneMoves DEF Loops, ProcInv

LEMMA CommitKeyKeeps == ASSUME ProcInv, NEW p \in Procs, CommitKey(p) PROVE ProcInv'
<1> DEFINE k == proc[p].devKey
<1>1. /\ Settled(proc[p]) /\ proc[p].at = "commit" /\ k \in DevKeys
      /\ proc[p].org \in Orgs /\ RowsInv
    BY DEF ProcInv, CommitKey, Starting, Settled
<1>2. CASE keys[k] # NoOrg
    <2>1. PICK r : r = [proc[p] EXCEPT !.at = "down", !.org = NoOrg]
        OBVIOUS
    <2>2. proc' = [proc EXCEPT ![p] = r] /\ UNCHANGED <<orgs, keys>>
        <3>1. proc' = [proc EXCEPT ![p].at = "down", ![p].org = NoOrg]
            BY <1>2 DEF CommitKey
        <3> QED
            BY <1>2, <2>1, <3>1 DEF CommitKey, ProcInv
    <2>3. /\ r.host = proc[p].host /\ r.devKey = proc[p].devKey /\ r.at = "down"
          /\ r.org = NoOrg /\ r.keepalive = proc[p].keepalive /\ r \in Process
        BY <1>1, <2>1 DEF Settled, Process
    <2>4. Settled(r)' /\ RowsInv'
        BY <1>1, <2>2, <2>3, NoValueAssumption DEF Settled, RowsInv
    <2> QED
        BY <2>2, <2>3, <2>4, OneMoves DEF Loops, ProcInv
<1>3. CASE keys[k] = NoOrg
    <2>1. PICK r : r = Up(p)
        OBVIOUS
    <2>2. /\ proc' = [proc EXCEPT ![p] = r] /\ orgs' = orgs \cup {proc[p].org}
          /\ keys' = [keys EXCEPT ![k] = proc[p].org]
        BY <1>3, <2>1 DEF CommitKey
    <2>3. /\ r.host = proc[p].host /\ r.devKey = proc[p].devKey /\ r.at = "serving"
          /\ r.org = NoOrg /\ Loops(r, p) /\ r \in Process
        BY <1>1, <2>1 DEF Up, Settled, Process, Loops
    <2>4. /\ keys'[k] = proc[p].org /\ proc[p].org # NoOrg
          /\ \A j \in DevKeys \ {k} : keys'[j] = keys[j]
        BY <1>1, <2>2, NoValueAssumption DEF RowsInv
    <2>5. RowsInv'
        <3>1. orgs' \in SUBSET Orgs /\ keys' \in [DevKeys -> Orgs \cup {NoOrg}]
            BY <1>1, <2>2 DEF RowsInv
        <3>2. \A j \in DevKeys : keys'[j] # NoOrg => keys'[j] \in orgs'
            BY <1>1, <2>2, <2>4 DEF RowsInv
        <3>3. \A o \in orgs : \E j \in DevKeys : keys'[j] = o
            BY <1>1, <1>3, <2>4, NoValueAssumption DEF RowsInv
        <3> QED
            BY <1>1, <2>2, <2>4, <3>1, <3>2, <3>3 DEF RowsInv
    <2>6. Settled(r)'
        BY <1>1, <2>3, <2>4, NoValueAssumption DEF Settled
    <2> QED
        BY <2>2, <2>3, <2>4, <2>5, <2>6, OneMoves
<1> QED
    BY <1>2, <1>3

LEMMA KeepaliveKeeps == ASSUME ProcInv, NEW p \in Procs, Keepalive(p) PROVE ProcInv'
<1>1. PICK answer \in {"on", "unreachable"} : proc' = [proc EXCEPT ![p].keepalive = answer]
    BY DEF Keepalive, Escapes
<1>2. /\ Settled(proc[p]) /\ proc[p].at = "serving" /\ UNCHANGED <<orgs, keys>>
    BY DEF ProcInv, Keepalive
<1>3. PICK r : r = [proc[p] EXCEPT !.keepalive = answer]
    OBVIOUS
<1>4. proc' = [proc EXCEPT ![p] = r]
    BY <1>1, <1>3
<1>5. /\ r.host = proc[p].host /\ r.devKey = proc[p].devKey /\ r.at = proc[p].at
      /\ r.org = proc[p].org /\ r.keepalive = answer /\ r \in Process
    BY <1>2, <1>3 DEF Settled, Process
<1>6. Settled(r)' /\ RowsInv'
    BY <1>2, <1>5 DEF Settled, RowsInv, ProcInv
<1> QED
    BY <1>2, <1>4, <1>5, <1>6, OneMoves DEF Loops, ProcInv, Keepalive

LEMMA StopKeeps == ASSUME ProcInv, NEW P, Stop(P) PROVE ProcInv'
<1>1. RowsInv'
    BY DEF Stop, ProcInv, RowsInv
<1>2. DOMAIN proc' = Procs
    BY DEF Stop
<1>3. ASSUME NEW p \in Procs PROVE Settled(proc[p])' /\ Loops(proc[p], p)'
    <2>1. Settled(proc[p]) /\ Loops(proc[p], p)
        BY DEF ProcInv
    <2>2. PICK r : r = [proc[p] EXCEPT !.at = "down", !.org = NoOrg, !.keepalive = "off"]
        OBVIOUS
    <2>3. r \in Process /\ r.at = "down" /\ r.org = NoOrg /\ r.keepalive = "off"
        BY <2>1, <2>2 DEF Settled, Process
    <2>4. proc'[p] = IF p \in P THEN r ELSE proc[p]
        BY <2>2 DEF Stop
    <2>5. UNCHANGED keys
        BY DEF Stop
    <2>6. Settled(r)'
        BY <2>3, NoValueAssumption DEF Settled
    <2>7. Settled(proc[p])' \/ proc'[p] = r
        BY <2>1, <2>4, <2>5 DEF Settled
    <2> QED
        BY <2>1, <2>3, <2>4, <2>6, <2>7 DEF Settled, Loops
<1> QED
    BY <1>1, <1>2, <1>3 DEF ProcInv

LEMMA ProcInvNext == ProcInv /\ [Next]_vars => ProcInv'
<1> SUFFICES ASSUME ProcInv, [Next]_vars PROVE ProcInv'
    OBVIOUS
<1>1. CASE UNCHANGED <<proc, orgs, keys>>
    <2>1. RowsInv' /\ DOMAIN proc' = Procs
        BY <1>1 DEF ProcInv, RowsInv
    <2>2. ASSUME NEW p \in Procs PROVE Settled(proc[p])' /\ Loops(proc[p], p)'
        BY <1>1 DEF ProcInv, Settled, Loops
    <2> QED
        BY <2>1, <2>2 DEF ProcInv
<1>2. ASSUME NEW p \in Procs,
             SelectKey(p) \/ SelectOrg(p) \/ CommitKey(p) \/ Keepalive(p) \/ Crash(p)
      PROVE  ProcInv'
    BY <1>2, SelectKeyKeeps, SelectOrgKeeps, CommitKeyKeeps, KeepaliveKeeps, StopKeeps DEF Crash
<1>3. ASSUME NEW r \in Calls, Incr(r) \/ Expire(r) \/ IncrFails(r) \/ ExpireFails(r)
      PROVE  ProcInv'
    BY <1>1, <1>3 DEF Incr, Expire, IncrFails, ExpireFails, Arm, Limiting
<1>4. ASSUME NEW h \in Hosts, Reboot(h) PROVE ProcInv'
    BY <1>4, StopKeeps DEF Reboot
<1>5. CASE Tick
    BY <1>1, <1>5 DEF Tick
<1>6. CASE UNCHANGED vars
    BY <1>1, <1>6 DEF vars
<1> QED
    BY <1>2, <1>3, <1>4, <1>5, <1>6 DEF Next

(* However processes start, stop and interleave, for any number of          *)
(* processes and configured keys (bootstrap.py): an org is only written     *)
(* with a key, and a process that serves finds its dev key in the database. *)
THEOREM KeysAreSeededOnce == Spec => []SeededOnce
<1>1. ProcInv => SeededOnce
    BY DEF ProcInv, RowsInv, Settled, Process, SeededOnce
<1> QED
    BY <1>1, ProcInvInit, ProcInvNext, PTL DEF Spec

-----------------------------------------------------------------------------
(* The rate limiter: what a counter knows of the calls.                     *)

Call ==
    [at : {"unsent", "expire", "admitted", "429", "unavailable", "lost"},
     client : Clients, holds : SUBSET Procs, index : Indexes, opened : Times,
     sent : Times \cup {Never}, counted : BOOLEAN, armed : Times \cup {Never}]

Counted(c, i) == {x \in Calls : call[x].counted /\ call[x].client = c /\ call[x].index = i}
From(c, i, t) == {x \in Counted(c, i) : t <= call[x].sent}
InWindow(c, i, o) == {x \in Counted(c, i) : call[x].opened = o}
Earlier(c, i, o, t) == {x \in InWindow(c, i, o) : call[x].sent < t}
Passing(S) == {x \in S : call[x].at \in {"admitted", "expire"}}

ClockInv == now \in Times /\ boot \in [Hosts -> 0..now]

(* A call keeps its process only between its two commands; its window is    *)
(* the one it was sent in.                                                  *)
WellSent(q) ==
    /\ q \in Call
    /\ q.at = "unsent" => ~q.counted
    /\ q.at # "unsent" => q.sent <= now
    /\ q.holds # {} => q.at = "expire"
    /\ q.at = "expire" => q.counted
    /\ q.at \in {"unsent", "expire"} => q.armed = Never
    /\ q.at \notin {"expire", "unavailable", "lost"} /\ q.counted => q.at \in {"admitted", "429"}
    /\ q.counted => /\ q.opened <= q.sent /\ q.sent < q.opened + Window
                    /\ q.sent \in Times
                    /\ q.sent <= q.armed
CallsInv == call \in [Calls -> Call] /\ \A x \in Calls : WellSent(call[x])

(* The calls of an open window that a counter no longer knows, because it   *)
(* was started at t.                                                        *)
OpenWindows(c, i, t) ==
    \A o \in Times : now < o + Window =>
        /\ Cardinality(Passing(Earlier(c, i, o, t))) <= Limit
        /\ Earlier(c, i, o, t) = {} \/ InWindow(c, i, o) # Counted(c, i)

Idle(c, i) ==
    /\ counter[c][i].until = Never
    /\ \A x \in Counted(c, i) : call[x].sent < now /\ call[x].at # "expire"
    /\ OpenWindows(c, i, now)
(* The call q started the counter, which counts the calls since.            *)
Started(q, c, i) ==
    /\ counter[c][i].n = Cardinality(From(c, i, call[q].sent))
    /\ Cardinality(Passing(From(c, i, call[q].sent))) <= Limit
    /\ \A x \in Counted(c, i) : call[x].at = "expire" => x = q
    /\ call[q].armed = Never => /\ call[q].at \in {"expire", "unavailable", "lost"}
                                /\ counter[c][i].until = Never
    /\ call[q].armed # Never => counter[c][i].until = call[q].armed + Window
    /\ OpenWindows(c, i, call[q].sent)
CounterInv(c, i) ==
    /\ counter[c][i].until \in (now + 1)..Never
    /\ counter[c][i].n = 0 => Idle(c, i)
    /\ counter[c][i].n > 0 => \E q \in Counted(c, i) : Started(q, c, i)
WindowInv(c, i) ==
    \A o \in Times : Cardinality(Passing(InWindow(c, i, o))) <=
        IF InWindow(c, i, o) = Counted(c, i) THEN Limit ELSE 2 * Limit

CountersInv ==
    /\ counter \in [Clients -> [Indexes -> [n : Nat, until : Nat]]]
    /\ \A c \in Clients, i \in Indexes : CounterInv(c, i) /\ WindowInv(c, i)
LimiterInv == ClockInv /\ CallsInv /\ CountersInv /\ RefusalsAreEarned

(* The window number of a time on a clock that has run for x.               *)
LEMMA WindowNumber ==
    ASSUME NEW x \in Nat
    PROVE  /\ x \div Window \in Nat
           /\ (x \div Window) * Window <= x
           /\ x < (x \div Window) * Window + Window
BY BoundsAssumption

LEMMA IndexInRange == ASSUME NEW x \in 0..MaxNow PROVE x \div Window \in Indexes
<1> DEFINE i == x \div Window
           m == MaxNow \div Window
<1>1. i \in Nat /\ m \in Nat /\ i * Window <= x /\ MaxNow < m * Window + Window
    BY WindowNumber, BoundsAssumption
<1>2. CASE i <= m
    BY <1>1, <1>2 DEF Indexes
<1>3. CASE i >= m + 1
    <2> HIDE DEF i, m
    <2>1. i * Window >= (m + 1) * Window
        BY <1>1, <1>3, BoundsAssumption
    <2>2. (m + 1) * Window = m * Window + Window
        BY <1>1, BoundsAssumption
    <2>3. x <= MaxNow
        BY BoundsAssumption
    <2> QED
        BY <1>1, <2>1, <2>2, <2>3, BoundsAssumption
<1> QED
    BY <1>1, <1>2, <1>3

LEMMA FiniteCalls ==
    ASSUME NEW S \in SUBSET Calls
    PROVE  IsFiniteSet(S) /\ Cardinality(S) \in Nat
BY CallsAssumption, FS_Subset, FS_CardinalityType

LEMMA Fewer ==
    ASSUME NEW T \in SUBSET Calls, NEW S \in SUBSET T
    PROVE  Cardinality(S) <= Cardinality(T)
BY FiniteCalls, FS_Subset

LEMMA OneMore ==
    ASSUME NEW S \in SUBSET Calls, NEW r \in Calls, r \notin S
    PROVE  Cardinality(S \cup {r}) = Cardinality(S) + 1
BY FiniteCalls, FS_AddElement

LEMMA Subsets ==
    \A c, i, o, t :
        /\ Counted(c, i) \in SUBSET Calls
        /\ From(c, i, t) \in SUBSET Counted(c, i)
        /\ InWindow(c, i, o) \in SUBSET Counted(c, i)
        /\ Earlier(c, i, o, t) \in SUBSET InWindow(c, i, o)
        /\ \A S : Passing(S) \in SUBSET S
BY DEF Counted, From, InWindow, Earlier, Passing

LEMMA LimiterInvInit == Init => LimiterInv
<1> SUFFICES ASSUME Init PROVE LimiterInv
    OBVIOUS
<1>1. ClockInv
    BY BoundsAssumption DEF Init, ClockInv, Times
<1>2. PICK c0 \in Clients : c0 = CHOOSE c \in Clients : TRUE
    BY CallsAssumption
<1>3. Never \in Nat /\ Never > MaxNow /\ 0 \in Indexes /\ 0 \in Times
    BY BoundsAssumption, IndexInRange, WindowNumber DEF Never, Indexes, Times
<1>4. /\ Unsent.at = "unsent" /\ Unsent.client = c0 /\ Unsent.holds = {} /\ ~Unsent.counted
      /\ Unsent.armed = Never /\ Unsent.sent = Never /\ Unsent \in Call
    BY <1>2, <1>3 DEF Unsent, Call
<1>5. CallsInv
    BY <1>4 DEF Init, CallsInv, WellSent
<1>6. \A c, i : Counted(c, i) = {}
    BY <1>4 DEF Init, Counted
<1>7. \A c, i, o, t : Passing(InWindow(c, i, o)) = {} /\ Passing(Earlier(c, i, o, t)) = {}
                      /\ Earlier(c, i, o, t) = {}
    BY <1>6 DEF Passing, InWindow, Earlier
<1>8. \A c \in Clients, i \in Indexes : counter[c][i] = Zero
    BY DEF Init
<1>9. CountersInv
    <2>1. counter \in [Clients -> [Indexes -> [n : Nat, until : Nat]]]
        BY <1>3 DEF Init, Zero
    <2>2. ASSUME NEW c \in Clients, NEW i \in Indexes PROVE CounterInv(c, i) /\ WindowInv(c, i)
        <3>1. counter[c][i].n = 0 /\ counter[c][i].until = Never
            BY <1>8 DEF Zero
        <3>2. OpenWindows(c, i, now)
            BY <1>7, FS_EmptySet, BoundsAssumption DEF OpenWindows
        <3>3. WindowInv(c, i)
            BY <1>7, FS_EmptySet, BoundsAssumption DEF WindowInv
        <3> QED
            BY <1>3, <1>6, <3>1, <3>2, <3>3, BoundsAssumption DEF CounterInv, Idle, Init
    <2> QED
        BY <2>1, <2>2 DEF CountersInv
<1>10. RefusalsAreEarned
    BY <1>4 DEF Init, RefusalsAreEarned
<1> QED
    BY <1>1, <1>5, <1>9, <1>10 DEF LimiterInv

(* A step that sends no call of this counter and lets none pass anew.       *)
Quiet(c, i) ==
    /\ Counted(c, i)' = Counted(c, i)
    /\ \A x \in Counted(c, i) :
           /\ call'[x].sent = call[x].sent /\ call'[x].opened = call[x].opened
           /\ call'[x].at \in {"admitted", "expire"} => call[x].at \in {"admitted", "expire"}
           /\ call'[x].at = "expire" => call[x].at = "expire"

LEMMA QuietSets ==
    ASSUME NEW c, NEW i, Quiet(c, i)
    PROVE  /\ \A t : From(c, i, t)' = From(c, i, t)
           /\ \A o : InWindow(c, i, o)' = InWindow(c, i, o)
           /\ \A o, t : Earlier(c, i, o, t)' = Earlier(c, i, o, t)
           /\ \A S \in SUBSET Counted(c, i) :
                  /\ Passing(S)' \in SUBSET Passing(S)
                  /\ Cardinality(Passing(S)') <= Cardinality(Passing(S))
<1>1. \A t : From(c, i, t)' = From(c, i, t)
    BY DEF Quiet, From
<1>2. \A o : InWindow(c, i, o)' = InWindow(c, i, o)
    BY DEF Quiet, InWindow
<1>3. \A o, t : Earlier(c, i, o, t)' = Earlier(c, i, o, t)
    <2>1. \A o, t : Earlier(c, i, o, t)' = {x \in InWindow(c, i, o) : call'[x].sent < t}
        BY <1>2 DEF Earlier
    <2>2. \A o : \A x \in InWindow(c, i, o) : call'[x].sent = call[x].sent
        BY DEF Quiet, InWindow
    <2> QED
        BY <2>1, <2>2 DEF Earlier
<1>4. ASSUME NEW S \in SUBSET Counted(c, i)
      PROVE  Passing(S)' \in SUBSET Passing(S)
    BY <1>4 DEF Quiet, Passing
<1>5. ASSUME NEW S \in SUBSET Counted(c, i)
      PROVE  Cardinality(Passing(S)') <= Cardinality(Passing(S))
    <2>1. PICK A : A = Passing(S)'
        OBVIOUS
    <2>2. PICK B : B = Passing(S)
        OBVIOUS
    <2>3. A \in SUBSET B /\ B \in SUBSET Calls
        BY <1>4, <2>1, <2>2, Subsets
    <2> QED
        BY <2>1, <2>2, <2>3, Fewer
<1> QED
    BY <1>1, <1>2, <1>3, <1>4, <1>5

LEMMA PassingSize ==
    \A c, i, o, t :
        /\ Cardinality(Passing(From(c, i, t))) \in Nat
        /\ Cardinality(Passing(InWindow(c, i, o))) \in Nat
        /\ Cardinality(Passing(Earlier(c, i, o, t))) \in Nat
        /\ Cardinality(From(c, i, t)) \in Nat
<1> TAKE c, i, o, t
<1>1. /\ Passing(From(c, i, t)) \in SUBSET Calls /\ Passing(InWindow(c, i, o)) \in SUBSET Calls
      /\ Passing(Earlier(c, i, o, t)) \in SUBSET Calls /\ From(c, i, t) \in SUBSET Calls
    BY DEF Counted, From, InWindow, Earlier, Passing
<1> QED
    BY <1>1, FiniteCalls

LEMMA QuietWindows ==
    ASSUME NEW c, NEW i, Quiet(c, i), now \in Nat, now' \in Nat, now <= now'
    PROVE  /\ WindowInv(c, i) => WindowInv(c, i)'
           /\ \A t : OpenWindows(c, i, t) => OpenWindows(c, i, t)'
<1> USE BoundsAssumption
<1>1. \A o, t : /\ Cardinality(Passing(InWindow(c, i, o))') <= Cardinality(Passing(InWindow(c, i, o)))
                /\ Cardinality(Passing(Earlier(c, i, o, t))')
                       <= Cardinality(Passing(Earlier(c, i, o, t)))
    <2>1. \A o, t : /\ Passing(InWindow(c, i, o))' = {x \in InWindow(c, i, o) : call'[x].at \in {"admitted", "expire"}}
                    /\ Passing(Earlier(c, i, o, t))' = {x \in Earlier(c, i, o, t) : call'[x].at \in {"admitted", "expire"}}
        BY QuietSets DEF Passing
    <2>2. \A o, t : Passing(InWindow(c, i, o))' \in SUBSET Passing(InWindow(c, i, o))
                    /\ Passing(Earlier(c, i, o, t))' \in SUBSET Passing(Earlier(c, i, o, t))
        BY <2>1 DEF Quiet, Passing, InWindow, Earlier
    <2>3. \A o, t : Passing(InWindow(c, i, o)) \in SUBSET Calls
                    /\ Passing(Earlier(c, i, o, t)) \in SUBSET Calls
        BY DEF Counted, InWindow, Earlier, Passing
    <2> QED
        BY <2>2, <2>3, Fewer
<1>2. \A o, t : /\ Cardinality(Passing(InWindow(c, i, o))') \in Nat
                /\ Cardinality(Passing(Earlier(c, i, o, t))') \in Nat
    <2>1. \A o, t : /\ Passing(InWindow(c, i, o))' \in SUBSET Calls
                    /\ Passing(Earlier(c, i, o, t))' \in SUBSET Calls
        BY DEF Counted, InWindow, Earlier, Passing
    <2> QED
        BY <2>1, FiniteCalls
<1>3. ASSUME WindowInv(c, i) PROVE WindowInv(c, i)'
    <2> SUFFICES ASSUME NEW o \in Times
                 PROVE  Cardinality(Passing(InWindow(c, i, o))') <=
                            IF InWindow(c, i, o)' = Counted(c, i)' THEN Limit ELSE 2 * Limit
        BY DEF WindowInv, Times
    <2>1. Cardinality(Passing(InWindow(c, i, o))) <=
              IF InWindow(c, i, o) = Counted(c, i) THEN Limit ELSE 2 * Limit
        BY <1>3 DEF WindowInv
    <2>2. InWindow(c, i, o)' = InWindow(c, i, o) /\ Counted(c, i)' = Counted(c, i)
        BY QuietSets DEF Quiet
    <2> QED
        BY <1>1, <1>2, <2>1, <2>2, PassingSize
<1>4. ASSUME NEW t, OpenWindows(c, i, t) PROVE OpenWindows(c, i, t)'
    <2> SUFFICES ASSUME NEW o \in Times, now' < o + Window
                 PROVE  /\ Cardinality(Passing(Earlier(c, i, o, t))') <= Limit
                        /\ Earlier(c, i, o, t)' = {} \/ InWindow(c, i, o)' # Counted(c, i)'
        BY DEF OpenWindows, Times
    <2>1. now < o + Window
        BY DEF Times
    <2>2. /\ Cardinality(Passing(Earlier(c, i, o, t))) <= Limit
          /\ Earlier(c, i, o, t) = {} \/ InWindow(c, i, o) # Counted(c, i)
        BY <1>4, <2>1 DEF OpenWindows
    <2>3. /\ InWindow(c, i, o)' = InWindow(c, i, o) /\ Counted(c, i)' = Counted(c, i)
          /\ Earlier(c, i, o, t)' = Earlier(c, i, o, t)
        BY QuietSets DEF Quiet
    <2> QED
        BY <1>1, <1>2, <2>2, <2>3, PassingSize
<1> QED
    BY <1>3, <1>4

(* Nothing is settled either: no armed counter, and no call that waits for  *)
(* its expiry otherwise than by losing it.                                  *)
LEMMA QuietCounter ==
    ASSUME NEW c, NEW i, Quiet(c, i), now \in Nat, now' = now, CounterInv(c, i),
           counter'[c][i] = counter[c][i],
           \A x \in Counted(c, i) :
               /\ call'[x].armed = call[x].armed
               /\ call[x].at \in {"expire", "unavailable", "lost"} =>
                      call'[x].at \in {"expire", "unavailable", "lost"}
    PROVE  CounterInv(c, i)'
<1>1. Counted(c, i)' = Counted(c, i)
    BY DEF Quiet
<1>2. \A t : OpenWindows(c, i, t) => OpenWindows(c, i, t)'
    BY QuietWindows
<1>3. ASSUME counter[c][i].n = 0 PROVE Idle(c, i)'
    <2>1. Idle(c, i) /\ OpenWindows(c, i, now)
        BY <1>3 DEF CounterInv, Idle
    <2>2. PICK t : t = now
        OBVIOUS
    <2>3. OpenWindows(c, i, t)'
        BY <1>2, <2>1, <2>2
    <2>4. OpenWindows(c, i, now)'
        BY <2>2, <2>3 DEF OpenWindows
    <2> QED
        BY <1>1, <2>1, <2>4 DEF Idle, Quiet
<1>4. ASSUME counter[c][i].n > 0
      PROVE  \E q \in Counted(c, i)' : Started(q, c, i)'
    <2>1. PICK q \in Counted(c, i) : Started(q, c, i)
        BY <1>4 DEF CounterInv
    <2>2. PICK t : t = call[q].sent
        OBVIOUS
    <2>3. call'[q].sent = t /\ call'[q].armed = call[q].armed
        BY <2>2 DEF Quiet
    <2>4. OpenWindows(c, i, t)'
        BY <1>2, <2>1, <2>2 DEF Started
    <2>5. OpenWindows(c, i, call[q].sent)'
        BY <2>3, <2>4 DEF OpenWindows
    <2>6. From(c, i, call[q].sent)' = From(c, i, t)
        <3>1. From(c, i, call[q].sent)' = From(c, i, t)'
            BY <2>3 DEF From
        <3> QED
            BY <3>1, QuietSets
    <2>7. Cardinality(Passing(From(c, i, call[q].sent))') <= Cardinality(Passing(From(c, i, t)))
        <3>1. Passing(From(c, i, call[q].sent))' \in SUBSET Passing(From(c, i, t))
            BY <2>6 DEF Quiet, Passing, From
        <3>2. Passing(From(c, i, t)) \in SUBSET Calls
            BY DEF Passing, From, Counted
        <3> QED
            BY <3>1, <3>2, Fewer
    <2>8. Cardinality(Passing(From(c, i, call[q].sent))') \in Nat
        <3>1. Passing(From(c, i, call[q].sent))' \in SUBSET Calls
            BY DEF Passing, From, Counted
        <3> QED
            BY <3>1, FiniteCalls
    <2>9. Cardinality(Passing(From(c, i, call[q].sent))') <= Limit
        BY <2>1, <2>2, <2>7, <2>8, PassingSize, BoundsAssumption DEF Started
    <2>10. \A x \in Counted(c, i)' : call'[x].at = "expire" => x = q
        BY <1>1, <2>1 DEF Quiet, Started
    <2>11. /\ counter'[c][i].n = Cardinality(From(c, i, call[q].sent)')
           /\ call'[q].armed = Never => /\ call'[q].at \in {"expire", "unavailable", "lost"}
                                        /\ counter'[c][i].until = Never
           /\ call'[q].armed # Never => counter'[c][i].until = call'[q].armed + Window
        BY <2>1, <2>2, <2>3, <2>6 DEF Started
    <2>12. Started(q, c, i)'
        BY <2>5, <2>9, <2>10, <2>11 DEF Started
    <2> QED
        BY <1>1, <2>12
<1> QED
    BY <1>3, <1>4 DEF CounterInv

(* No call is sent, none is refused anew, and none loses what it knows of   *)
(* an expiry.                                                               *)
LEMMA RefusalsKept ==
    ASSUME ClockInv, CallsInv, RefusalsAreEarned,
           \A x \in Calls :
               /\ call'[x].counted = call[x].counted /\ call'[x].client = call[x].client
               /\ call'[x].index = call[x].index /\ call'[x].sent = call[x].sent
               /\ call'[x].at = "429" => call[x].at = "429"
               /\ \/ /\ call'[x].armed = call[x].armed
                     /\ call[x].at \in {"expire", "unavailable", "lost"} =>
                            call'[x].at \in {"expire", "unavailable", "lost"}
                  \/ call[x].armed = Never /\ call'[x].armed = now
    PROVE  RefusalsAreEarned'
<1> SUFFICES ASSUME NEW r \in Calls, call'[r].at = "429"
             PROVE  \E q \in SameCounter(r)' :
                        /\ Cardinality(Since(q, r)') > Limit
                        /\ \/ call'[q].armed # Never /\ call'[r].sent < call'[q].armed + Window
                           \/ /\ call'[q].at \in {"expire", "unavailable", "lost"}
                              /\ call'[q].armed = Never
    BY DEF RefusalsAreEarned
<1>1. call[r].at = "429"
    OBVIOUS
<1>2. PICK q \in SameCounter(r) :
          /\ Cardinality(Since(q, r)) > Limit
          /\ \/ call[q].armed # Never /\ call[r].sent < call[q].armed + Window
             \/ /\ call[q].at \in {"expire", "unavailable", "lost"}
                /\ call[q].armed = Never
    BY <1>1 DEF RefusalsAreEarned
<1>3. SameCounter(r)' = SameCounter(r)
    BY DEF SameCounter
<1>4. q \in Calls
    BY DEF SameCounter
<1>5. Since(q, r)' = Since(q, r)
    BY <1>3, <1>4 DEF Since, SameCounter
<1>6. CASE call'[q].armed = call[q].armed
    BY <1>2, <1>3, <1>4, <1>5, <1>6, BoundsAssumption DEF Never, Times, ClockInv
<1>7. CASE call[q].armed = Never /\ call'[q].armed = now
    <2>1. now \in Nat /\ now # Never /\ call[r].sent <= now /\ call[r].sent \in Nat
        <3>1. WellSent(call[r])
            BY DEF CallsInv
        <3> QED
            BY <1>1, <3>1, BoundsAssumption DEF ClockInv, Times, Never, WellSent, Call
    <2>2. call'[q].armed # Never /\ call'[r].sent < call'[q].armed + Window
        BY <1>7, <2>1, BoundsAssumption
    <2> QED
        BY <1>2, <1>3, <1>5, <2>2
<1> QED
    BY <1>4, <1>6, <1>7

(* The call that started the counter of r is r, while r waits for expire.   *)
LEMMA StarterWaits ==
    ASSUME LimiterInv, NEW r \in Calls, call[r].at = "expire"
    PROVE  /\ call[r].client \in Clients /\ call[r].index \in Indexes /\ call[r].counted
           /\ r \in Counted(call[r].client, call[r].index)
           /\ Started(r, call[r].client, call[r].index)
           /\ counter[call[r].client][call[r].index].n > 0
<1> DEFINE c == call[r].client
           i == call[r].index
<1>1. WellSent(call[r])
    BY DEF LimiterInv, CallsInv
<1>2. c \in Clients /\ i \in Indexes /\ call[r].counted
    BY <1>1 DEF WellSent, Call
<1>3. r \in Counted(c, i)
    BY <1>2 DEF Counted
<1>4. CounterInv(c, i) /\ counter[c][i].n \in Nat
    BY <1>2 DEF LimiterInv, CountersInv
<1>5. counter[c][i].n # 0
    BY <1>3, <1>4 DEF CounterInv, Idle
<1>6. PICK q \in Counted(c, i) : Started(q, c, i)
    BY <1>4, <1>5 DEF CounterInv
<1>7. q = r
    BY <1>3, <1>6 DEF Started
<1> QED
    BY <1>2, <1>3, <1>4, <1>5, <1>6, <1>7

LEMMA SettlesKeeps ==
    ASSUME LimiterInv, NEW r \in Calls, NEW a, NEW b \in {"admitted", "unavailable"}, NEW time,
           call[r].at = "expire", UNCHANGED <<now, boot>>,
           call' = [call EXCEPT ![r] = Leaves(call[r], b, a)],
           counter' = [counter EXCEPT ![call[r].client][call[r].index].until = time],
           \/ a = Never /\ time = Never /\ b = "unavailable"
           \/ a = now /\ time = now + Window
    PROVE  LimiterInv'
<1> USE BoundsAssumption
<1>1. PICK c : c = call[r].client
    OBVIOUS
<1>2. PICK i : i = call[r].index
    OBVIOUS
<1>3. /\ c \in Clients /\ i \in Indexes /\ call[r].counted /\ r \in Counted(c, i)
      /\ Started(r, c, i) /\ counter[c][i].n > 0
    BY <1>1, <1>2, StarterWaits
<1>4. /\ now \in Nat /\ now <= MaxNow /\ Never \in Nat /\ now + Window < Never /\ now # Never
    BY DEF LimiterInv, ClockInv, Times, Never
<1>5. PICK q : q = Leaves(call[r], b, a)
    OBVIOUS
<1>6. call[r] \in Call /\ WellSent(call[r])
    BY DEF LimiterInv, CallsInv, WellSent
<1>7. /\ q.at = b /\ q.client = c /\ q.holds = {} /\ q.index = i /\ q.opened = call[r].opened
      /\ q.sent = call[r].sent /\ q.counted = call[r].counted /\ q.armed = a /\ q \in Call
    BY <1>1, <1>2, <1>4, <1>5, <1>6 DEF Leaves, Call, Times, LimiterInv, ClockInv
<1>8. call'[r] = q /\ \A x \in Calls \ {r} : call'[x] = call[x]
    BY <1>5 DEF LimiterInv, CallsInv
<1>9. CallsInv'
    <2>1. call' \in [Calls -> Call]
        BY <1>5, <1>7 DEF LimiterInv, CallsInv
    <2>2. WellSent(q)'
        <3>1. call[r].sent \in Nat /\ call[r].sent <= now
            BY <1>3, <1>4, <1>6 DEF WellSent, Times
        <3> QED
            BY <1>3, <1>4, <1>6, <1>7, <3>1 DEF WellSent
    <2>3. \A x \in Calls \ {r} : WellSent(call[x]) /\ WellSent(call[x])'
        BY <1>8 DEF LimiterInv, CallsInv, WellSent
    <2> QED
        BY <1>8, <2>1, <2>2, <2>3 DEF CallsInv, WellSent
<1>10. \A d, j : Quiet(d, j)
    <2>1. \A d, j : Counted(d, j)' = Counted(d, j)
        BY <1>1, <1>2, <1>7, <1>8 DEF Counted
    <2> QED
        BY <1>7, <1>8, <2>1 DEF Quiet, Counted
<1>11. /\ counter' \in [Clients -> [Indexes -> [n : Nat, until : Nat]]]
       /\ counter'[c][i].n = counter[c][i].n /\ counter'[c][i].until = time
       /\ \A d \in Clients, j \in Indexes :
              d # c \/ j # i => counter'[d][j] = counter[d][j]
    <2>1. time \in Nat
        BY <1>4
    <2> QED
        BY <1>1, <1>2, <1>3, <2>1 DEF LimiterInv, CountersInv
<1>12. ASSUME NEW d \in Clients, NEW j \in Indexes, d # c \/ j # i
       PROVE  CounterInv(d, j)'
    <2>1. r \notin Counted(d, j)
        BY <1>1, <1>2, <1>12 DEF Counted
    <2>2. \A x \in Counted(d, j) : call'[x] = call[x]
        BY <1>8, <2>1 DEF Counted
    <2>3. CounterInv(d, j) /\ counter'[d][j] = counter[d][j]
        BY <1>11, <1>12 DEF LimiterInv, CountersInv
    <2> QED
        BY <1>4, <1>10, <2>2, <2>3, QuietCounter
<1>13. CounterInv(c, i)'
    <2>1. PICK t : t = call[r].sent
        OBVIOUS
    <2>2. /\ counter[c][i].n = Cardinality(From(c, i, t))
          /\ Cardinality(Passing(From(c, i, t))) <= Limit
          /\ \A x \in Counted(c, i) : call[x].at = "expire" => x = r
          /\ OpenWindows(c, i, t)
        BY <1>3, <2>1 DEF Started
    <2>3. call'[r].sent = t
        BY <1>7, <1>8, <2>1
    <2>4. OpenWindows(c, i, call[r].sent)'
        <3>1. Quiet(c, i) /\ now' = now
            BY <1>10
        <3>2. OpenWindows(c, i, t) => OpenWindows(c, i, t)'
            BY <1>4, <3>1, QuietWindows
        <3> QED
            BY <2>2, <2>3, <3>2 DEF OpenWindows
    <2>5. From(c, i, call[r].sent)' = From(c, i, t)
        <3>1. From(c, i, call[r].sent)' = From(c, i, t)'
            BY <2>3 DEF From
        <3> QED
            BY <1>10, <3>1, QuietSets
    <2>6. Cardinality(Passing(From(c, i, call[r].sent))') <= Limit
        <3>1. Passing(From(c, i, call[r].sent))' \in SUBSET Passing(From(c, i, t))
            BY <1>10, <2>5 DEF Quiet, Passing, From
        <3>2. Passing(From(c, i, t)) \in SUBSET Calls
            BY DEF Passing, From, Counted
        <3>3. Passing(From(c, i, call[r].sent))' \in SUBSET Calls
            BY <3>1, <3>2
        <3> QED
            BY <2>2, <3>1, <3>2, <3>3, Fewer, FiniteCalls
    <2>7. \A x \in Counted(c, i)' : call'[x].at = "expire" => x = r
        BY <1>10, <2>2 DEF Quiet
    <2>8. Started(r, c, i)'
        BY <1>4, <1>7, <1>8, <1>11, <2>2, <2>4, <2>5, <2>6, <2>7 DEF Started
    <2>9. r \in Counted(c, i)'
        <3>1. Quiet(c, i)
            BY <1>10
        <3> QED
            BY <1>3, <3>1 DEF Quiet
    <2>10. counter'[c][i].until \in (now' + 1)..Never
        <3>1. time = Never \/ time = now + Window
            OBVIOUS
        <3>2. time \in (now + 1)..Never
            BY <1>4, <3>1
        <3> QED
            BY <1>11, <3>2
    <2>11. counter'[c][i].n # 0
        <3>1. counter[c][i].n \in Nat
            BY <1>3 DEF LimiterInv, CountersInv
        <3>2. counter[c][i].n > 0
            BY <1>3
        <3>3. counter[c][i].n # 0
            BY <3>1, <3>2
        <3>4. counter'[c][i].n = counter[c][i].n
            BY <1>11
        <3> QED
            BY <3>3, <3>4, Zenon
    <2>12. \E x \in Counted(c, i)' : Started(x, c, i)'
        BY <2>8, <2>9
    <2> QED
        BY <2>10, <2>11, <2>12 DEF CounterInv
<1>14. \A d \in Clients, j \in Indexes : WindowInv(d, j)'
    BY <1>4, <1>10, QuietWindows DEF LimiterInv, CountersInv
<1>15. CountersInv'
    BY <1>11, <1>12, <1>13, <1>14 DEF CountersInv
<1>16. RefusalsAreEarned'
    <2>1. call[r].armed = Never
        BY <1>6 DEF WellSent
    <2>2. ASSUME NEW x \in Calls
          PROVE  /\ call'[x].counted = call[x].counted /\ call'[x].client = call[x].client
                 /\ call'[x].index = call[x].index /\ call'[x].sent = call[x].sent
                 /\ call'[x].at = "429" => call[x].at = "429"
                 /\ \/ /\ call'[x].armed = call[x].armed
                       /\ call[x].at \in {"expire", "unavailable", "lost"} =>
                              call'[x].at \in {"expire", "unavailable", "lost"}
                    \/ call[x].armed = Never /\ call'[x].armed = now
        BY <1>1, <1>2, <1>7, <1>8, <2>1
    <2> QED
        BY <2>2, RefusalsKept DEF LimiterInv
<1>17. ClockInv'
    BY DEF LimiterInv, ClockInv
<1> QED
    BY <1>9, <1>15, <1>16, <1>17 DEF LimiterInv

LEMMA StopLimits ==
    ASSUME LimiterInv, NEW P, Stop(P), ClockInv'
    PROVE  LimiterInv'
<1> USE BoundsAssumption
<1>1. /\ UNCHANGED <<now, counter>>
      /\ call' = [r \in Calls |-> IF call[r].holds \cap P # {}
                                  THEN Leaves(call[r], "lost", Never) ELSE call[r]]
    BY DEF Stop
<1>2. ASSUME NEW x \in Calls
      PROVE  /\ WellSent(call[x])'
             /\ call'[x].counted = call[x].counted /\ call'[x].client = call[x].client
             /\ call'[x].index = call[x].index /\ call'[x].sent = call[x].sent
             /\ call'[x].opened = call[x].opened /\ call'[x].armed = call[x].armed
             /\ \/ call'[x].at = call[x].at
                \/ call[x].at = "expire" /\ call'[x].at = "lost"
    <2>1. WellSent(call[x])
        BY DEF LimiterInv, CallsInv
    <2>2. CASE call[x].holds \cap P = {}
        <3>1. call'[x] = call[x]
            BY <1>1, <2>2
        <3> QED
            BY <1>1, <2>1, <3>1 DEF WellSent
    <2>3. CASE call[x].holds \cap P # {}
        <3>1. call[x].at = "expire" /\ call[x].armed = Never
            BY <2>1, <2>3 DEF WellSent
        <3>2. PICK q : q = Leaves(call[x], "lost", Never)
            OBVIOUS
        <3>3. call'[x] = q
            BY <1>1, <2>3, <3>2
        <3>4. /\ q.at = "lost" /\ q.client = call[x].client /\ q.holds = {} /\ q.index = call[x].index
              /\ q.opened = call[x].opened /\ q.sent = call[x].sent
              /\ q.counted = call[x].counted /\ q.armed = Never /\ q \in Call
            BY <2>1, <3>2 DEF Leaves, Call, WellSent
        <3> QED
            BY <1>1, <2>1, <3>1, <3>3, <3>4 DEF WellSent
    <2> QED
        BY <2>2, <2>3
<1>3. CallsInv'
    BY <1>1, <1>2 DEF CallsInv, WellSent
<1>4. now \in Nat
    BY DEF LimiterInv, ClockInv, Times
<1>5. \A c, i : Quiet(c, i)
    BY <1>2 DEF Quiet, Counted
<1>6. ASSUME NEW c \in Clients, NEW i \in Indexes
      PROVE  CounterInv(c, i)' /\ WindowInv(c, i)'
    <2>1. /\ CounterInv(c, i) /\ WindowInv(c, i) /\ Quiet(c, i)
          /\ counter'[c][i] = counter[c][i] /\ now' = now
        BY <1>1, <1>5 DEF LimiterInv, CountersInv
    <2>2. \A x \in Counted(c, i) :
              /\ call'[x].armed = call[x].armed
              /\ call[x].at \in {"expire", "unavailable", "lost"} =>
                     call'[x].at \in {"expire", "unavailable", "lost"}
        BY <1>2 DEF Counted
    <2>3. CounterInv(c, i)'
        BY <1>4, <2>1, <2>2, QuietCounter
    <2>4. WindowInv(c, i)'
        BY <1>4, <2>1, QuietWindows
    <2> QED
        BY <2>3, <2>4
<1>7. CountersInv'
    BY <1>1, <1>6 DEF LimiterInv, CountersInv
<1>8. RefusalsAreEarned'
    <2>1. ClockInv /\ CallsInv /\ RefusalsAreEarned
        BY DEF LimiterInv
    <2> QED
        BY <1>2, <2>1, RefusalsKept
<1> QED
    BY <1>3, <1>7, <1>8 DEF LimiterInv

(* Time passes: a counter that expires has only calls of windows that are   *)
(* closed, or that were opened after it was started.                        *)
LEMMA TickLimits == ASSUME LimiterInv, Tick PROVE LimiterInv'
<1> USE BoundsAssumption
<1>1. /\ now \in Nat /\ now' = now + 1 /\ now' <= MaxNow /\ UNCHANGED <<boot, call>>
      /\ Never \in Nat /\ now' < Never /\ now' + Window < Never /\ now' \in Nat /\ now <= now'
    BY DEF LimiterInv, ClockInv, Tick, Times, Never
<1>2. ClockInv'
    <2>1. boot \in [Hosts -> 0..now] /\ 0..now \subseteq 0..now'
        BY <1>1 DEF LimiterInv, ClockInv
    <2> QED
        BY <1>1, <2>1 DEF ClockInv, Times
<1>3. CallsInv'
    <2>1. ASSUME NEW x \in Calls PROVE WellSent(call[x])'
        <3>1. WellSent(call[x]) /\ (call[x].at # "unsent" => call[x].sent <= now')
            <4>1. WellSent(call[x])
                BY DEF LimiterInv, CallsInv
            <4>2. call[x].sent \in Nat
                BY <1>1, <4>1 DEF WellSent, Call, Times
            <4> QED
                BY <1>1, <4>1, <4>2 DEF WellSent
        <3> QED
            BY <1>1, <3>1 DEF WellSent
    <2> QED
        BY <1>1, <2>1 DEF LimiterInv, CallsInv
<1>4. \A c, i : Quiet(c, i)
    BY <1>1 DEF Quiet, Counted
<1>5. ASSUME NEW c \in Clients, NEW i \in Indexes
      PROVE  CounterInv(c, i)'
    <2>1. CounterInv(c, i) /\ Quiet(c, i) /\ Counted(c, i)' = Counted(c, i)
        BY <1>4 DEF LimiterInv, CountersInv, Quiet
    <2>2. \A x \in Counted(c, i) : /\ WellSent(call[x]) /\ call[x].sent \in Nat
                                   /\ call[x].sent <= now /\ call'[x] = call[x]
                                   /\ call[x].opened <= call[x].sent
                                   /\ call[x].opened \in Nat
        BY <1>1 DEF LimiterInv, CallsInv, Counted, WellSent, Times, Call
    <2>3. \A t : OpenWindows(c, i, t) => OpenWindows(c, i, t)'
        BY <1>1, <2>1, QuietWindows
    <2>4. \A o : Earlier(c, i, o, now') = InWindow(c, i, o)
        BY <1>1, <2>2 DEF Earlier, InWindow
    <2>5. CASE counter[c][i].until > now'
        <3>1. counter'[c][i] = counter[c][i]
            <4>1. ~(counter[c][i].until <= now')
                BY <1>1, <2>1, <2>5 DEF CounterInv
            <4> QED
                BY <4>1 DEF Tick
        <3>2. ASSUME counter[c][i].n = 0 PROVE Idle(c, i)'
            <4>1. Idle(c, i)
                BY <2>1, <3>2 DEF CounterInv
            <4>2. \A o : Earlier(c, i, o, now) = Earlier(c, i, o, now')
                BY <2>4, <4>1 DEF Earlier, InWindow, Idle
            <4>3. OpenWindows(c, i, now')
                BY <4>1, <4>2 DEF Idle, OpenWindows
            <4>4. PICK t : t = now'
                OBVIOUS
            <4>5. OpenWindows(c, i, t)'
                BY <2>3, <4>3, <4>4
            <4>6. OpenWindows(c, i, now)'
                BY <4>4, <4>5 DEF OpenWindows
            <4>7. \A x \in Counted(c, i)' : call'[x].sent < now' /\ call'[x].at # "expire"
                BY <1>1, <2>1, <2>2, <4>1 DEF Idle
            <4> QED
                BY <3>1, <4>1, <4>6, <4>7 DEF Idle
        <3>3. ASSUME counter[c][i].n > 0 PROVE \E q \in Counted(c, i)' : Started(q, c, i)'
            <4>1. PICK q \in Counted(c, i) : Started(q, c, i)
                BY <2>1, <3>3 DEF CounterInv
            <4>2. PICK t : t = call[q].sent
                OBVIOUS
            <4>3. call' = call /\ From(c, i, t)' = From(c, i, t)
                BY <1>1, <2>1, QuietSets
            <4>4. OpenWindows(c, i, t)'
                BY <2>3, <4>1, <4>2 DEF Started
            <4>5. OpenWindows(c, i, call[q].sent)'
                BY <4>2, <4>3, <4>4 DEF OpenWindows
            <4>6. From(c, i, call[q].sent)' = From(c, i, t)
                BY <4>2, <4>3 DEF From
            <4>7. Passing(From(c, i, call[q].sent))' = Passing(From(c, i, t))
                BY <4>3, <4>6 DEF Passing
            <4>8. \A x \in Counted(c, i)' : call'[x].at = "expire" => x = q
                BY <2>1, <4>1, <4>3 DEF Started
            <4>9. Started(q, c, i)'
                BY <3>1, <4>1, <4>2, <4>3, <4>5, <4>6, <4>7, <4>8 DEF Started
            <4> QED
                BY <2>1, <4>9
        <3>4. counter'[c][i].until \in (now' + 1)..Never
            BY <1>1, <2>1, <2>5, <3>1 DEF CounterInv
        <3> QED
            BY <3>1, <3>2, <3>3, <3>4 DEF CounterInv
    <2>6. CASE counter[c][i].until <= now'
        <3>1. counter'[c][i] = Zero /\ counter'[c][i].n = 0 /\ counter'[c][i].until = Never
            BY <2>6 DEF Tick, Zero
        <3>2. counter[c][i].until # Never /\ counter[c][i].n \in Nat
            BY <1>1, <2>6 DEF LimiterInv, CountersInv
        <3>3. counter[c][i].n # 0
            BY <2>1, <3>2 DEF CounterInv, Idle
        <3>4. PICK q \in Counted(c, i) : Started(q, c, i)
            BY <2>1, <3>2, <3>3 DEF CounterInv
        <3>5. /\ call[q].armed # Never /\ counter[c][i].until = call[q].armed + Window
              /\ call[q].sent <= call[q].armed /\ call[q].armed \in Nat
            <4>1. WellSent(call[q]) /\ call[q].counted
                BY <2>2 DEF Counted
            <4>2. call[q].armed # Never
                BY <3>2, <3>4 DEF Started
            <4> QED
                BY <3>4, <4>1, <4>2 DEF Started, WellSent, Call, Times
        <3>6. \A x \in Counted(c, i) : call[x].at # "expire"
            BY <2>2, <3>4, <3>5 DEF Started, WellSent
        <3>7. ASSUME NEW o \in Times, now' < o + Window
              PROVE  /\ Cardinality(Passing(InWindow(c, i, o))) <= Limit
                     /\ InWindow(c, i, o) # Counted(c, i)
            <4>1. call[q].sent < o
                BY <1>1, <2>2, <2>6, <3>5, <3>7 DEF Times
            <4>2. InWindow(c, i, o) \in SUBSET From(c, i, call[q].sent)
                BY <2>2, <4>1 DEF InWindow, From, Times
            <4>3. Passing(InWindow(c, i, o)) \in SUBSET Passing(From(c, i, call[q].sent))
                BY <4>2 DEF Passing
            <4>4. Passing(From(c, i, call[q].sent)) \in SUBSET Calls
                BY DEF Passing, From, Counted
            <4>5. Cardinality(Passing(InWindow(c, i, o)))
                      <= Cardinality(Passing(From(c, i, call[q].sent)))
                BY <4>3, <4>4, Fewer
            <4>6. q \notin InWindow(c, i, o)
                BY <2>2, <4>1 DEF InWindow, Times
            <4>7. Cardinality(Passing(From(c, i, call[q].sent))) <= Limit
                BY <3>4 DEF Started
            <4> QED
                BY <4>5, <4>6, <4>7, PassingSize
        <3>8. OpenWindows(c, i, now)'
            <4>1. ASSUME NEW o \in Times, now' < o + Window
                  PROVE  /\ Cardinality(Passing(Earlier(c, i, o, now))') <= Limit
                         /\ InWindow(c, i, o)' # Counted(c, i)'
                <5>1. Earlier(c, i, o, now)' = InWindow(c, i, o)
                    BY <1>1, <2>4 DEF Earlier, InWindow, Counted
                <5>2. Passing(Earlier(c, i, o, now))' = Passing(InWindow(c, i, o))
                    BY <1>1, <5>1 DEF Passing
                <5>3. InWindow(c, i, o)' = InWindow(c, i, o)
                    BY <2>1, QuietSets
                <5> QED
                    BY <2>1, <3>7, <4>1, <5>2, <5>3
            <4> QED
                BY <4>1 DEF OpenWindows, Times
        <3>9. Idle(c, i)'
            BY <1>1, <2>1, <2>2, <3>1, <3>6, <3>8 DEF Idle
        <3>10. Never \in (now' + 1)..Never
            BY <1>1
        <3> QED
            BY <3>1, <3>9, <3>10 DEF CounterInv
    <2>7. counter[c][i].until \in Nat
        BY DEF LimiterInv, CountersInv
    <2> QED
        BY <1>1, <2>5, <2>6, <2>7
<1>6. ASSUME NEW c \in Clients, NEW i \in Indexes PROVE WindowInv(c, i)'
    BY <1>1, <1>4, QuietWindows DEF LimiterInv, CountersInv
<1>7. counter' \in [Clients -> [Indexes -> [n : Nat, until : Nat]]]
    <2>1. Zero \in [n : Nat, until : Nat]
        BY <1>1 DEF Zero
    <2> QED
        BY <2>1 DEF Tick, LimiterInv, CountersInv
<1>8. RefusalsAreEarned'
    BY <1>1, RefusalsKept DEF LimiterInv
<1> QED
    BY <1>2, <1>3, <1>5, <1>6, <1>7, <1>8 DEF LimiterInv, CountersInv

(* A call r is sent and becomes q; it is counted, or its incr is lost.      *)
Sends(r, q) ==
    /\ call[r].at = "unsent" /\ call' = [call EXCEPT ![r] = q]
    /\ q \in Call /\ q.sent = now /\ q.armed = Never
    /\ q.holds # {} => q.at = "expire"
    /\ q.opened <= now /\ now < q.opened + Window
    /\ UNCHANGED <<now, boot>>
    /\ \/ /\ ~q.counted /\ q.at = "unavailable" /\ counter' = counter
       \/ /\ q.counted
          /\ counter' = [counter EXCEPT ![q.client][q.index].n = counter[q.client][q.index].n + 1]
          /\ \/ q.at = "unavailable"
             \/ q.at = "expire" /\ counter[q.client][q.index].n = 0
             \/ /\ q.at = "admitted" /\ counter[q.client][q.index].n # 0
                /\ counter[q.client][q.index].n + 1 <= Limit
             \/ /\ q.at = "429" /\ counter[q.client][q.index].n # 0
                /\ counter[q.client][q.index].n + 1 > Limit

LEMMA SendsCalls ==
    ASSUME LimiterInv, NEW r \in Calls, NEW q, Sends(r, q)
    PROVE  /\ CallsInv' /\ ClockInv'
           /\ call'[r] = q /\ \A x \in Calls \ {r} : call'[x] = call[x]
           /\ ~call[r].counted
<1> USE BoundsAssumption
<1>1. call'[r] = q /\ \A x \in Calls \ {r} : call'[x] = call[x]
    BY DEF LimiterInv, CallsInv, Sends
<1>2. now \in Times /\ now \in Nat /\ now' = now /\ now <= Never
    BY DEF Sends, LimiterInv, ClockInv, Times, Never
<1>3. WellSent(q)'
    BY <1>2 DEF Sends, WellSent
<1>4. \A x \in Calls \ {r} : WellSent(call[x])'
    BY <1>1, <1>2 DEF LimiterInv, CallsInv, WellSent
<1>5. call' \in [Calls -> Call]
    BY DEF Sends, LimiterInv, CallsInv
<1>6. CallsInv'
    BY <1>1, <1>3, <1>4, <1>5 DEF CallsInv, WellSent
<1>7. ClockInv'
    BY DEF Sends, ClockInv, LimiterInv
<1>8. ~call[r].counted
    BY DEF LimiterInv, CallsInv, WellSent, Sends
<1> QED
    BY <1>1, <1>6, <1>7, <1>8

(* The counters of other clients and windows.                               *)
LEMMA SendsElsewhere ==
    ASSUME LimiterInv, NEW r \in Calls, NEW q, Sends(r, q), NEW c \in Clients, NEW i \in Indexes,
           ~q.counted \/ q.client # c \/ q.index # i
    PROVE  CounterInv(c, i)' /\ WindowInv(c, i)'
<1>1. /\ call'[r] = q /\ \A x \in Calls \ {r} : call'[x] = call[x]
      /\ ~call[r].counted
    BY SendsCalls
<1>2. Counted(c, i)' = Counted(c, i) /\ r \notin Counted(c, i)
    BY <1>1 DEF Counted
<1>3. \A x \in Counted(c, i) : call'[x] = call[x]
    BY <1>1, <1>2 DEF Counted
<1>4. Quiet(c, i)
    BY <1>2, <1>3 DEF Quiet
<1>5. counter'[c][i] = counter[c][i]
    BY DEF Sends, LimiterInv, CountersInv, Call
<1>6. now \in Nat /\ now' = now
    BY DEF Sends, LimiterInv, ClockInv, Times
<1>7. CounterInv(c, i) /\ WindowInv(c, i)
    BY DEF LimiterInv, CountersInv
<1>8. CounterInv(c, i)'
    BY <1>3, <1>4, <1>5, <1>6, <1>7, QuietCounter
<1>9. WindowInv(c, i)'
    BY <1>4, <1>6, <1>7, BoundsAssumption, QuietWindows
<1> QED
    BY <1>8, <1>9

(* The counter that counts the call.                                        *)
Counts(q, c, i) == q.counted /\ q.client = c /\ q.index = i

LEMMA SendsSets ==
    ASSUME LimiterInv, NEW r \in Calls, NEW q, Sends(r, q),
           NEW c, NEW i, Counts(q, c, i)
    PROVE  /\ c \in Clients /\ i \in Indexes
           /\ Counted(c, i)' = Counted(c, i) \cup {r} /\ r \notin Counted(c, i)
           /\ \A x \in Counted(c, i) : call'[x] = call[x]
           /\ call'[r] = q
           /\ \A t \in Nat : t <= now =>
                  /\ From(c, i, t)' = From(c, i, t) \cup {r}
                  /\ \A o : Earlier(c, i, o, t)' = Earlier(c, i, o, t)
           /\ \A o : InWindow(c, i, o)' = InWindow(c, i, o) \cup (IF o = q.opened THEN {r} ELSE {})
           /\ \A S \in SUBSET Counted(c, i) : Passing(S)' = Passing(S)
           /\ counter'[c][i].n = counter[c][i].n + 1
           /\ counter'[c][i].until = counter[c][i].until
           /\ counter' \in [Clients -> [Indexes -> [n : Nat, until : Nat]]]
<1>1. /\ call'[r] = q /\ \A x \in Calls \ {r} : call'[x] = call[x]
      /\ ~call[r].counted
    BY SendsCalls
<1>2. c \in Clients /\ i \in Indexes /\ q.counted /\ q.client = c /\ q.index = i
    BY DEF Sends, Call, Counts
<1>3. Counted(c, i)' = Counted(c, i) \cup {r} /\ r \notin Counted(c, i)
    BY <1>1, <1>2 DEF Counted
<1>4. \A x \in Counted(c, i) : call'[x] = call[x] /\ x # r
    BY <1>1, <1>3 DEF Counted
<1>5. q.sent = now /\ now \in Nat
    BY DEF Sends, LimiterInv, ClockInv, Times
<1>6. ASSUME NEW t \in Nat, t <= now
      PROVE  /\ From(c, i, t)' = From(c, i, t) \cup {r}
             /\ \A o : Earlier(c, i, o, t)' = Earlier(c, i, o, t)
    <2>1. t <= q.sent /\ ~(q.sent < t)
        BY <1>5, <1>6
    <2>2. From(c, i, t)' = From(c, i, t) \cup {r}
        BY <1>1, <1>3, <1>4, <2>1 DEF From
    <2>3. \A o : Earlier(c, i, o, t)' = Earlier(c, i, o, t)
        BY <1>1, <1>3, <1>4, <2>1 DEF Earlier, InWindow
    <2> QED
        BY <2>2, <2>3
<1>7. \A o : InWindow(c, i, o)' = InWindow(c, i, o) \cup (IF o = q.opened THEN {r} ELSE {})
    BY <1>1, <1>3, <1>4 DEF InWindow
<1>8. \A S \in SUBSET Counted(c, i) : Passing(S)' = Passing(S)
    BY <1>4 DEF Passing
<1>9. /\ counter'[c][i].n = counter[c][i].n + 1
      /\ counter'[c][i].until = counter[c][i].until
      /\ counter' \in [Clients -> [Indexes -> [n : Nat, until : Nat]]]
    <2>1. counter' = [counter EXCEPT ![c][i].n = counter[c][i].n + 1]
        BY <1>2 DEF Sends
    <2>2. counter \in [Clients -> [Indexes -> [n : Nat, until : Nat]]]
        BY DEF LimiterInv, CountersInv
    <2>3. counter[c][i].n + 1 \in Nat
        BY <1>2, <2>2
    <2> QED
        BY <1>2, <2>1, <2>2, <2>3
<1> QED
    BY <1>1, <1>2, <1>3, <1>4, <1>6, <1>7, <1>8, <1>9

LEMMA SendsOpen ==
    ASSUME LimiterInv, NEW r \in Calls, NEW q, Sends(r, q),
           NEW c, NEW i, Counts(q, c, i),
           NEW t \in Nat, t <= now, OpenWindows(c, i, t)
    PROVE  OpenWindows(c, i, t)'
<1>1. /\ Counted(c, i)' = Counted(c, i) \cup {r} /\ r \notin Counted(c, i)
      /\ \A o : Earlier(c, i, o, t)' = Earlier(c, i, o, t)
      /\ \A o : InWindow(c, i, o)' = InWindow(c, i, o) \cup (IF o = q.opened THEN {r} ELSE {})
      /\ \A S \in SUBSET Counted(c, i) : Passing(S)' = Passing(S)
    BY SendsSets
<1>2. now' = now
    BY DEF Sends
<1>3. ASSUME NEW o \in Times, now < o + Window
      PROVE  /\ Cardinality(Passing(Earlier(c, i, o, t))') <= Limit
             /\ Earlier(c, i, o, t)' = {} \/ InWindow(c, i, o)' # Counted(c, i)'
    <2>1. /\ Cardinality(Passing(Earlier(c, i, o, t))) <= Limit
          /\ Earlier(c, i, o, t) = {} \/ InWindow(c, i, o) # Counted(c, i)
        BY <1>3 DEF OpenWindows
    <2>2. Earlier(c, i, o, t) \in SUBSET Counted(c, i) /\ InWindow(c, i, o) \in SUBSET Counted(c, i)
        BY DEF Earlier, InWindow
    <2>3. Passing(Earlier(c, i, o, t))' = Passing(Earlier(c, i, o, t))
        <3>1. PICK S : S = Earlier(c, i, o, t)
            OBVIOUS
        <3>2. Passing(S)' = Passing(S)
            BY <1>1, <2>2, <3>1
        <3>3. Passing(Earlier(c, i, o, t))' = Passing(S)'
            BY <1>1, <3>1 DEF Passing
        <3> QED
            BY <3>1, <3>2, <3>3
    <2>4. InWindow(c, i, o) # Counted(c, i) => InWindow(c, i, o)' # Counted(c, i)'
        <3>1. ASSUME NEW x \in Counted(c, i), x \notin InWindow(c, i, o)
              PROVE  x \in Counted(c, i)' /\ x \notin InWindow(c, i, o)'
            BY <1>1, <3>1
        <3> QED
            BY <2>2, <3>1
    <2> QED
        BY <1>1, <2>1, <2>3, <2>4
<1> QED
    BY <1>2, <1>3 DEF OpenWindows, Times

LEMMA SendsCounter ==
    ASSUME LimiterInv, NEW r \in Calls, NEW q, Sends(r, q),
           NEW c, NEW i, Counts(q, c, i)
    PROVE  CounterInv(c, i)' /\ counter'[c][i].n > 0
<1> USE BoundsAssumption
<1>1. /\ c \in Clients /\ i \in Indexes
      /\ Counted(c, i)' = Counted(c, i) \cup {r} /\ r \notin Counted(c, i)
      /\ \A x \in Counted(c, i) : call'[x] = call[x]
      /\ call'[r] = q
      /\ \A S \in SUBSET Counted(c, i) : Passing(S)' = Passing(S)
      /\ counter'[c][i].n = counter[c][i].n + 1
      /\ counter'[c][i].until = counter[c][i].until
    BY SendsSets
<1>2. now \in Nat /\ now' = now /\ q.sent = now /\ q.armed = Never
    BY DEF Sends, LimiterInv, ClockInv, Times
<1>3. CounterInv(c, i) /\ counter[c][i].n \in Nat
    BY <1>1 DEF LimiterInv, CountersInv
<1>4. counter'[c][i].until \in (now' + 1)..Never /\ counter'[c][i].n > 0 /\ counter'[c][i].n # 0
    BY <1>1, <1>2, <1>3 DEF CounterInv
<1>5. \A x \in Counted(c, i) : x # r /\ call[x].sent \in Nat
    BY <1>1 DEF Counted, LimiterInv, CallsInv, WellSent, Times
<1>6. ASSUME counter[c][i].n = 0 PROVE Started(r, c, i)'
    <2>1. Idle(c, i)
        BY <1>3, <1>6 DEF CounterInv
    <2>2. From(c, i, now) = {}
        BY <1>2, <1>5, <2>1 DEF From, Idle
    <2>3. PICK t \in Nat : t = now
        BY <1>2
    <2>4. From(c, i, t)' = {r}
        <3>1. From(c, i, t)' = From(c, i, t) \cup {r}
            BY <2>3, SendsSets
        <3> QED
            BY <2>2, <2>3, <3>1
    <2>5. call'[r].sent = t
        BY <1>1, <1>2, <2>3
    <2>6. From(c, i, call[r].sent)' = {r}
        <3>1. From(c, i, call[r].sent)' = From(c, i, t)'
            BY <2>5 DEF From
        <3> QED
            BY <2>4, <3>1
    <2>7. Cardinality(From(c, i, call[r].sent)') = 1
        BY <2>6, FS_Singleton
    <2>8. Cardinality(Passing(From(c, i, call[r].sent))') <= Limit
        <3>1. Passing(From(c, i, call[r].sent))' \in SUBSET {r}
            BY <2>6 DEF Passing
        <3>2. Cardinality(Passing(From(c, i, call[r].sent))') <= Cardinality({r})
            BY <3>1, Fewer
        <3>3. Cardinality({r}) = 1
            BY FS_Singleton
        <3>4. Cardinality(Passing(From(c, i, call[r].sent))') \in Nat
            BY <3>1, FiniteCalls
        <3> QED
            BY <3>2, <3>3, <3>4
    <2>9. OpenWindows(c, i, call[r].sent)'
        <3>1. OpenWindows(c, i, t)
            BY <2>1, <2>3 DEF Idle
        <3>2. OpenWindows(c, i, t)'
            BY <2>3, <3>1, <1>2, SendsOpen
        <3> QED
            BY <2>5, <3>2 DEF OpenWindows
    <2>10. \A x \in Counted(c, i)' : call'[x].at = "expire" => x = r
        BY <1>1, <2>1 DEF Idle
    <2>11. q.at \in {"expire", "unavailable"}
        BY <1>6 DEF Sends, Counts
    <2>12. counter'[c][i].n = 1 /\ counter'[c][i].until = Never
        BY <1>1, <1>6, <2>1 DEF Idle
    <2> QED
        BY <1>1, <1>2, <2>7, <2>8, <2>9, <2>10, <2>11, <2>12 DEF Started
<1>7. ASSUME counter[c][i].n > 0, NEW s \in Counted(c, i), Started(s, c, i)
      PROVE  Started(s, c, i)'
    <2>1. PICK t \in Nat : t = call[s].sent
        BY <1>5
    <2>2. t <= now
        BY <2>1 DEF Counted, LimiterInv, CallsInv, WellSent
    <2>3. From(c, i, t)' = From(c, i, t) \cup {r} /\ r \notin From(c, i, t)
        <3>1. From(c, i, t)' = From(c, i, t) \cup {r}
            BY <2>2, SendsSets
        <3> QED
            BY <1>1, <3>1 DEF From
    <2>4. call'[s] = call[s] /\ s # r
        BY <1>1
    <2>5. From(c, i, call[s].sent)' = From(c, i, t) \cup {r}
        <3>1. From(c, i, call[s].sent)' = From(c, i, t)'
            BY <2>1, <2>4 DEF From
        <3> QED
            BY <2>3, <3>1
    <2>6. /\ Cardinality(From(c, i, t)) = counter[c][i].n
          /\ Cardinality(Passing(From(c, i, t))) <= Limit
        BY <1>7, <2>1 DEF Started
    <2>7. Cardinality(From(c, i, call[s].sent)') = counter[c][i].n + 1
        <3>1. From(c, i, t) \in SUBSET Calls
            BY DEF From, Counted
        <3> QED
            BY <2>3, <2>5, <2>6, <3>1, OneMore
    <2>8. Passing(From(c, i, t))' \cap From(c, i, t) = Passing(From(c, i, t))
        <3>1. PICK S : S = From(c, i, t)
            OBVIOUS
        <3>2. S \in SUBSET Counted(c, i)
            BY <3>1 DEF From
        <3>3. \A x \in S : call'[x] = call[x] /\ x \in From(c, i, t)'
            BY <1>1, <2>3, <3>1, <3>2
        <3> QED
            BY <3>1, <3>3 DEF Passing
    <2>9. Cardinality(Passing(From(c, i, call[s].sent))') <= Limit
        <3>1. PICK P : P = Passing(From(c, i, call[s].sent))'
            OBVIOUS
        <3>2. PICK F : F = From(c, i, call[s].sent)'
            OBVIOUS
        <3>3. P \in SUBSET F /\ F \in SUBSET Calls
            BY <3>1, <3>2 DEF Passing, From, Counted
        <3>4. P = {x \in F : call'[x].at \in {"admitted", "expire"}}
            BY <3>1, <3>2 DEF Passing
        <3>5. CASE q.at \in {"admitted", "expire"}
            <4>1. counter[c][i].n + 1 <= Limit
                BY <1>7, <3>5 DEF Sends, Counts
            <4>2. Cardinality(P) <= Cardinality(F)
                BY <3>3, Fewer
            <4>3. Cardinality(P) \in Nat /\ Cardinality(F) = counter[c][i].n + 1
                BY <2>7, <3>2, <3>3, FiniteCalls
            <4> QED
                BY <1>3, <3>1, <4>1, <4>2, <4>3
        <3>6. CASE q.at \notin {"admitted", "expire"}
            <4>1. r \notin P
                BY <1>1, <3>4, <3>6
            <4>2. P = Passing(From(c, i, t))
                BY <2>3, <2>5, <1>1, <3>2, <3>4, <4>1 DEF Passing, From
            <4> QED
                BY <2>6, <3>1, <4>2
        <3> QED
            BY <3>5, <3>6
    <2>10. OpenWindows(c, i, call[s].sent)'
        <3>1. OpenWindows(c, i, t)
            BY <1>7, <2>1 DEF Started
        <3>2. OpenWindows(c, i, t)'
            BY <2>2, <3>1, SendsOpen
        <3>3. call'[s].sent = t
            BY <2>1, <2>4
        <3> QED
            BY <3>2, <3>3 DEF OpenWindows
    <2>11. \A x \in Counted(c, i)' : call'[x].at = "expire" => x = s
        <3>1. q.at # "expire"
            BY <1>3, <1>7 DEF Sends, Counts
        <3> QED
            BY <1>1, <1>7, <3>1 DEF Started
    <2> QED
        BY <1>1, <1>7, <2>4, <2>7, <2>9, <2>10, <2>11 DEF Started
<1>8. \E s \in Counted(c, i)' : Started(s, c, i)'
    <2>1. CASE counter[c][i].n = 0
        BY <1>1, <1>6, <2>1
    <2>2. CASE counter[c][i].n > 0
        <3>1. PICK s \in Counted(c, i) : Started(s, c, i)
            BY <1>3, <2>2 DEF CounterInv
        <3>2. Started(s, c, i)'
            BY <1>7, <2>2, <3>1
        <3> QED
            BY <1>1, <3>1, <3>2
    <2> QED
        BY <1>3, <2>1, <2>2
<1> QED
    BY <1>4, <1>8 DEF CounterInv

LEMMA SendsWindow ==
    ASSUME LimiterInv, NEW r \in Calls, NEW q, Sends(r, q),
           NEW c, NEW i, Counts(q, c, i)
    PROVE  WindowInv(c, i)'
<1> USE BoundsAssumption
<1>1. /\ c \in Clients /\ i \in Indexes
      /\ Counted(c, i)' = Counted(c, i) \cup {r} /\ r \notin Counted(c, i)
      /\ \A o : InWindow(c, i, o)' = InWindow(c, i, o) \cup (IF o = q.opened THEN {r} ELSE {})
      /\ \A S \in SUBSET Counted(c, i) : Passing(S)' = Passing(S)
    BY SendsSets
<1>2. /\ now \in Nat /\ now' = now /\ now < q.opened + Window
    BY DEF Sends, LimiterInv, ClockInv, Times
<1>3. CallsInv'
    BY SendsCalls
<1>4. ASSUME NEW o \in Times, now < o + Window
      PROVE  Cardinality(Passing(InWindow(c, i, o))') <=
                 IF InWindow(c, i, o)' = Counted(c, i)' THEN Limit ELSE 2 * Limit
    <2>1. CounterInv(c, i)' /\ counter'[c][i].n > 0
        BY SendsCounter
    <2>2. PICK s \in Counted(c, i)' : Started(s, c, i)'
        BY <2>1 DEF CounterInv
    <2>3. PICK A : A = Passing(Earlier(c, i, o, call[s].sent))'
        OBVIOUS
    <2>4. PICK B : B = Passing(From(c, i, call[s].sent))'
        OBVIOUS
    <2>5. PICK W : W = Passing(InWindow(c, i, o))'
        OBVIOUS
    <2>6. /\ A \in SUBSET Calls /\ B \in SUBSET Calls /\ W \in SUBSET Calls
          /\ Cardinality(A) \in Nat /\ Cardinality(B) \in Nat /\ Cardinality(W) \in Nat
        <3>1. A \in SUBSET Calls /\ B \in SUBSET Calls /\ W \in SUBSET Calls
            BY <2>3, <2>4, <2>5 DEF Passing, Earlier, From, InWindow, Counted
        <3> QED
            BY <3>1, FiniteCalls
    <2>7. Cardinality(B) <= Limit /\ OpenWindows(c, i, call[s].sent)'
        BY <2>2, <2>4 DEF Started
    <2>8. /\ Cardinality(A) <= Limit
          /\ Earlier(c, i, o, call[s].sent)' = {} \/ InWindow(c, i, o)' # Counted(c, i)'
        BY <1>2, <1>4, <2>3, <2>7 DEF OpenWindows, Times
    <2>9. \A x \in Counted(c, i)' : call'[x].sent \in Nat
        BY <1>3 DEF CallsInv, WellSent, Counted, Times
    <2>10. W \in SUBSET (A \cup B)
        BY <2>2, <2>3, <2>4, <2>5, <2>9 DEF Passing, Earlier, From, InWindow
    <2>11. Cardinality(W) <= Cardinality(A) + Cardinality(B)
        <3>1. /\ IsFiniteSet(A \cup B)
              /\ Cardinality(A \cup B) = Cardinality(A) + Cardinality(B) - Cardinality(A \cap B)
            BY <2>6, FiniteCalls, FS_Union
        <3>2. Cardinality(A \cap B) \in Nat
            BY <2>6, FiniteCalls
        <3>3. Cardinality(W) <= Cardinality(A \cup B)
            BY <2>10, <3>1, FS_Subset
        <3> QED
            BY <2>6, <3>1, <3>2, <3>3
    <2>12. InWindow(c, i, o)' = Counted(c, i)' => A = {}
        BY <2>3, <2>8 DEF Passing
    <2>13. A = {} => Cardinality(W) <= Limit
        <3>1. ASSUME A = {} PROVE Cardinality(W) <= Cardinality(B)
            BY <2>6, <2>10, <3>1, Fewer
        <3> QED
            BY <2>6, <2>7, <3>1
    <2>14. Cardinality(W) <= 2 * Limit
        BY <2>6, <2>7, <2>8, <2>11
    <2> QED
        BY <2>5, <2>12, <2>13, <2>14
<1>5. ASSUME NEW o \in Times, ~(now < o + Window)
      PROVE  Cardinality(Passing(InWindow(c, i, o))') <=
                 IF InWindow(c, i, o)' = Counted(c, i)' THEN Limit ELSE 2 * Limit
    <2>1. o # q.opened
        BY <1>2, <1>5
    <2>2. InWindow(c, i, o)' = InWindow(c, i, o) /\ InWindow(c, i, o) \in SUBSET Counted(c, i)
        BY <1>1, <2>1 DEF InWindow
    <2>3. Passing(InWindow(c, i, o))' = Passing(InWindow(c, i, o))
        <3>1. PICK S : S = InWindow(c, i, o)
            OBVIOUS
        <3>2. Passing(S)' = Passing(S)
            BY <1>1, <2>2, <3>1
        <3>3. Passing(InWindow(c, i, o))' = Passing(S)'
            BY <2>2, <3>1 DEF Passing
        <3> QED
            BY <3>1, <3>2, <3>3
    <2>4. InWindow(c, i, o)' # Counted(c, i)'
        BY <1>1, <2>2
    <2>5. Cardinality(Passing(InWindow(c, i, o))) <=
              IF InWindow(c, i, o) = Counted(c, i) THEN Limit ELSE 2 * Limit
        BY <1>1 DEF LimiterInv, CountersInv, WindowInv
    <2> QED
        BY <2>3, <2>4, <2>5, PassingSize
<1> QED
    BY <1>4, <1>5 DEF WindowInv, Times

(* Who was refused keeps a cause, and the new call is refused for one.      *)
LEMMA SendsRefusals ==
    ASSUME LimiterInv, NEW r \in Calls, NEW q, Sends(r, q), CountersInv'
    PROVE  RefusalsAreEarned'
<1> USE BoundsAssumption
<1>1. /\ CallsInv' /\ call'[r] = q /\ \A x \in Calls \ {r} : call'[x] = call[x]
      /\ ~call[r].counted
    BY SendsCalls
<1>2. now \in Nat /\ now' = now /\ q.sent = now
    BY DEF Sends, LimiterInv, ClockInv, Times
<1>3. ASSUME NEW x \in Calls, x # r, call'[x].at = "429"
      PROVE  \E s \in SameCounter(x)' :
                 /\ Cardinality(Since(s, x)') > Limit
                 /\ \/ call'[s].armed # Never /\ call'[x].sent < call'[s].armed + Window
                    \/ /\ call'[s].at \in {"expire", "unavailable", "lost"}
                       /\ call'[s].armed = Never
    <2>1. call'[x] = call[x] /\ call[x].at = "429"
        BY <1>1, <1>3
    <2>2. PICK s \in SameCounter(x) :
              /\ Cardinality(Since(s, x)) > Limit
              /\ \/ call[s].armed # Never /\ call[x].sent < call[s].armed + Window
                 \/ /\ call[s].at \in {"expire", "unavailable", "lost"}
                    /\ call[s].armed = Never
        BY <2>1 DEF LimiterInv, RefusalsAreEarned
    <2>3. s \in Calls /\ s # r /\ call'[s] = call[s]
        BY <1>1 DEF SameCounter
    <2>4. \A y \in SameCounter(x) : y # r /\ call'[y] = call[y] /\ y \in SameCounter(x)'
        BY <1>1, <2>1 DEF SameCounter
    <2>5. Since(s, x) \in SUBSET Since(s, x)'
        BY <2>1, <2>3, <2>4 DEF Since
    <2>6. Since(s, x)' \in SUBSET Calls
        BY DEF Since, SameCounter
    <2>7. Cardinality(Since(s, x)) <= Cardinality(Since(s, x)')
        BY <2>5, <2>6, Fewer
    <2>8. Cardinality(Since(s, x)) \in Nat /\ Cardinality(Since(s, x)') \in Nat
        <3>1. Since(s, x) \in SUBSET Calls
            BY DEF Since, SameCounter
        <3> QED
            BY <2>6, <3>1, FiniteCalls
    <2>9. Cardinality(Since(s, x)') > Limit
        BY <2>2, <2>7, <2>8
    <2> QED
        BY <2>1, <2>2, <2>3, <2>4, <2>9
<1>4. ASSUME call'[r].at = "429"
      PROVE  \E s \in SameCounter(r)' :
                 /\ Cardinality(Since(s, r)') > Limit
                 /\ \/ call'[s].armed # Never /\ call'[r].sent < call'[s].armed + Window
                    \/ /\ call'[s].at \in {"expire", "unavailable", "lost"}
                       /\ call'[s].armed = Never
    <2>1. PICK c : c = q.client
        OBVIOUS
    <2>2. PICK i : i = q.index
        OBVIOUS
    <2>3. q.at = "429" /\ q.counted
        BY <1>1, <1>4 DEF Sends
    <2>4. Counts(q, c, i)
        BY <2>1, <2>2, <2>3 DEF Counts
    <2>5. CounterInv(c, i)' /\ counter'[c][i].n > 0
        BY <2>4, SendsCounter
    <2>6. PICK s \in Counted(c, i)' : Started(s, c, i)'
        BY <2>5 DEF CounterInv
    <2>7. /\ counter'[c][i].n = counter[c][i].n + 1
          /\ c \in Clients /\ i \in Indexes
        BY <2>4, SendsSets
    <2>8. counter'[c][i].n > Limit
        BY <2>1, <2>2, <2>3, <2>7 DEF Sends
    <2>9. SameCounter(r)' = Counted(c, i)'
        BY <1>1, <2>1, <2>2 DEF SameCounter, Counted
    <2>10. \A x \in Counted(c, i)' : call'[x].sent <= now
        BY <1>1, <1>2 DEF CallsInv, WellSent, Counted
    <2>11. Since(s, r)' = From(c, i, call[s].sent)'
        BY <1>1, <1>2, <2>9, <2>10 DEF Since, From
    <2>12. Cardinality(Since(s, r)') > Limit
        BY <2>6, <2>8, <2>11 DEF Started
    <2>13. call'[s].armed # Never => call'[r].sent < call'[s].armed + Window
        <3>1. counter'[c][i].until \in (now + 1)..Never /\ counter'[c][i].until \in Nat
            BY <1>2, <2>5, <2>7 DEF CounterInv, CountersInv
        <3>2. call'[s].armed # Never => counter'[c][i].until = call'[s].armed + Window
            BY <2>6 DEF Started
        <3>3. counter'[c][i].until > now
            BY <1>2, <3>1
        <3> QED
            BY <1>1, <1>2, <3>2, <3>3
    <2> QED
        BY <2>6, <2>9, <2>12, <2>13 DEF Started
<1> QED
    BY <1>3, <1>4 DEF RefusalsAreEarned

LEMMA SendsKeeps == ASSUME LimiterInv, NEW r \in Calls, NEW q, Sends(r, q) PROVE LimiterInv'
<1>1. CallsInv' /\ ClockInv'
    BY SendsCalls
<1>2. ASSUME NEW c \in Clients, NEW i \in Indexes PROVE CounterInv(c, i)' /\ WindowInv(c, i)'
    <2>1. CASE Counts(q, c, i)
        BY <2>1, SendsCounter, SendsWindow
    <2>2. CASE ~Counts(q, c, i)
        BY <2>2, SendsElsewhere DEF Counts
    <2> QED
        BY <2>1, <2>2
<1>3. counter' \in [Clients -> [Indexes -> [n : Nat, until : Nat]]]
    <2>1. CASE q.counted
        <3>1. PICK c : c = q.client
            OBVIOUS
        <3>2. PICK i : i = q.index
            OBVIOUS
        <3>3. Counts(q, c, i)
            BY <2>1, <3>1, <3>2 DEF Counts
        <3> QED
            BY <3>3, SendsSets
    <2>2. CASE ~q.counted
        BY <2>2 DEF Sends, LimiterInv, CountersInv
    <2> QED
        BY <2>1, <2>2
<1>4. CountersInv'
    BY <1>2, <1>3 DEF CountersInv
<1>5. RefusalsAreEarned'
    BY <1>4, SendsRefusals
<1> QED
    BY <1>1, <1>4, <1>5 DEF LimiterInv

LEMMA UnsentFields ==
    /\ Unsent \in Call /\ Unsent.at = "unsent" /\ Unsent.holds = {}
    /\ Unsent.counted = FALSE /\ Unsent.armed = Never
<1>1. PICK c0 \in Clients : c0 = CHOOSE c \in Clients : TRUE
    BY CallsAssumption
<1>2. Never \in Nat /\ 0 \in Indexes /\ 0 \in Times
    BY BoundsAssumption, IndexInRange, WindowNumber DEF Never, Indexes, Times
<1> QED
    BY <1>1, <1>2 DEF Unsent, Call

(* The call of c to p, after its first command.                             *)
Sent(p, c, at, counted, holds) ==
    [Received(p, c) EXCEPT !.counted = counted, !.at = at, !.holds = holds]

LEMMA ReceivedFields ==
    ASSUME ProcInv, LimiterInv, NEW p \in Procs, NEW c \in Clients
    PROVE  LET v == Received(p, c) IN
           /\ v \in Call /\ v.client = c /\ v.sent = now /\ v.armed = Never /\ v.holds = {}
           /\ v.opened <= now /\ now < v.opened + Window
<1> USE BoundsAssumption
<1>1. PICK b : b = boot[proc[p].host]
    OBVIOUS
<1>2. PICK i : i = (now - b) \div Window
    OBVIOUS
<1>3. b \in 0..now /\ now \in Nat /\ now <= MaxNow
    BY <1>1 DEF ProcInv, Settled, Process, LimiterInv, ClockInv, Times
<1>4. now - b \in Nat /\ now - b \in 0..MaxNow
    BY <1>3
<1>5. i \in Nat /\ i * Window <= now - b /\ now - b < i * Window + Window /\ i \in Indexes
    BY <1>2, <1>4, WindowNumber, IndexInRange
<1>6. PICK o : o = b + i * Window
    OBVIOUS
<1>7. o \in Times /\ o <= now /\ now < o + Window
    <2>1. i * Window \in Nat
        BY <1>5
    <2>2. PICK w \in Nat : w = i * Window
        BY <2>1
    <2> QED
        BY <1>3, <1>5, <1>6, <2>2 DEF Times
<1>8. PICK u \in Call : u = Unsent
    BY UnsentFields
<1>9. PICK v : v = [u EXCEPT !.client = c, !.sent = now, !.index = i, !.opened = o]
    OBVIOUS
<1>10. Received(p, c) = v
    BY <1>1, <1>2, <1>6, <1>8, <1>9 DEF Received, Clock
<1>11. u.armed = Never /\ u.holds = {}
    BY <1>8, UnsentFields
<1>12. now \in Times
    BY <1>3 DEF Times
<1>13. /\ v.client = c /\ v.sent = now /\ v.armed = Never /\ v.holds = {} /\ v.opened = o
       /\ v.index = i /\ v.at = u.at /\ v.counted = u.counted /\ v \in Call
    BY <1>5, <1>7, <1>9, <1>11, <1>12 DEF Call
<1> QED
    BY <1>7, <1>10, <1>13

LEMMA SentFields ==
    ASSUME ProcInv, LimiterInv, NEW p \in Procs, NEW c \in Clients,
           NEW at \in {"expire", "admitted", "429", "unavailable"}, NEW counted \in BOOLEAN,
           NEW holds \in SUBSET {p}
    PROVE  LET q == Sent(p, c, at, counted, holds) IN
           /\ q \in Call /\ q.at = at /\ q.client = c /\ q.index = Received(p, c).index
           /\ q.counted = counted /\ q.holds = holds
           /\ q.sent = now /\ q.armed = Never /\ q.opened <= now /\ now < q.opened + Window
<1>1. PICK v : v = Received(p, c)
    OBVIOUS
<1>2. /\ v \in Call /\ v.client = c /\ v.sent = now /\ v.armed = Never
      /\ v.opened <= now /\ now < v.opened + Window
    BY <1>1, ReceivedFields
<1>3. Sent(p, c, at, counted, holds) = [v EXCEPT !.counted = counted, !.at = at, !.holds = holds]
    BY <1>1 DEF Sent
<1>4. PICK q : q = [v EXCEPT !.counted = counted, !.at = at, !.holds = holds]
    OBVIOUS
<1>5. /\ q.at = at /\ q.client = v.client /\ q.index = v.index /\ q.counted = counted
      /\ q.holds = holds /\ q.sent = v.sent /\ q.armed = v.armed /\ q.opened = v.opened
      /\ q \in Call
    BY <1>2, <1>4 DEF Call
<1> QED
    BY <1>1, <1>2, <1>3, <1>4, <1>5

LEMMA IncrKeeps == ASSUME ProcInv, LimiterInv, NEW r \in Calls, Incr(r) PROVE LimiterInv'
<1> USE BoundsAssumption
<1>1. PICK p \in Procs, c \in Clients :
          LET q == Received(p, c)
              n == counter[c][q.index].n + 1
          IN /\ Count(r, q, n)
             /\ call' = [call EXCEPT ![r] = [q EXCEPT !.counted = TRUE,
                    !.at = IF n = 1 THEN "expire" ELSE Verdict(n),
                    !.holds = IF n = 1 THEN {p} ELSE {}]]
    BY DEF Incr
<1>2. PICK n : n = counter[c][Received(p, c).index].n + 1
    OBVIOUS
<1>3. PICK at : at = IF n = 1 THEN "expire" ELSE Verdict(n)
    OBVIOUS
<1>4. PICK holds : holds = IF n = 1 THEN {p} ELSE {}
    OBVIOUS
<1>5. PICK done \in BOOLEAN : done = TRUE
    OBVIOUS
<1>5a. PICK q : q = Sent(p, c, at, done, holds)
    OBVIOUS
<1>6. at \in {"expire", "admitted", "429", "unavailable"} /\ holds \in SUBSET {p}
    BY <1>3, <1>4 DEF Verdict
<1>7. /\ q \in Call /\ q.at = at /\ q.client = c /\ q.index = Received(p, c).index
      /\ q.counted = done /\ q.holds = holds
      /\ q.sent = now /\ q.armed = Never /\ q.opened <= now /\ now < q.opened + Window
    <2>1. q = Sent(p, c, at, done, holds) /\ done \in BOOLEAN
        BY <1>5a
    <2> QED
        BY <1>6, <2>1, SentFields
<1>8. call' = [call EXCEPT ![r] = q]
    BY <1>1, <1>2, <1>3, <1>4, <1>5, <1>5a DEF Sent
<1>9. Received(p, c).client = c
    BY ReceivedFields
<1>10. counter' = [counter EXCEPT ![q.client][q.index].n = n]
    BY <1>1, <1>2, <1>7, <1>9 DEF Count
<1>11. counter[q.client][q.index].n \in Nat /\ n = counter[q.client][q.index].n + 1
    BY <1>2, <1>7 DEF LimiterInv, CountersInv, Call
<1>12. \/ q.at = "expire" /\ counter[q.client][q.index].n = 0
       \/ q.at = "admitted" /\ counter[q.client][q.index].n # 0 /\ n <= Limit
       \/ q.at = "429" /\ counter[q.client][q.index].n # 0 /\ n > Limit
    BY <1>3, <1>7, <1>11 DEF Verdict, Allowed
<1>13. q.holds # {} => q.at = "expire"
    BY <1>3, <1>4, <1>7
<1>14. call[r].at = "unsent" /\ UNCHANGED <<now, boot>>
    BY DEF Incr, Limiting
<1>15. Sends(r, q)
    BY <1>5, <1>7, <1>8, <1>10, <1>11, <1>12, <1>13, <1>14 DEF Sends
<1> QED
    BY <1>15, SendsKeeps

LEMMA IncrFailsKeeps ==
    ASSUME ProcInv, LimiterInv, NEW r \in Calls, IncrFails(r) PROVE LimiterInv'
<1>1. PICK p \in Procs, c \in Clients, done \in BOOLEAN :
          LET q == Received(p, c) IN
          /\ Count(r, q, counter[c][q.index].n + IF done THEN 1 ELSE 0)
          /\ call' = [call EXCEPT ![r] = [q EXCEPT !.at = "unavailable", !.counted = done]]
    BY DEF IncrFails
<1>2. PICK q : q = Sent(p, c, "unavailable", done, {})
    OBVIOUS
<1>3. /\ q \in Call /\ q.at = "unavailable" /\ q.client = c /\ q.index = Received(p, c).index
      /\ q.counted = done /\ q.holds = {}
      /\ q.sent = now /\ q.armed = Never /\ q.opened <= now /\ now < q.opened + Window
    BY <1>2, SentFields
<1>4. Received(p, c).client = c /\ Received(p, c).holds = {} /\ Received(p, c) \in Call
    BY ReceivedFields
<1>5. call' = [call EXCEPT ![r] = q]
    <2>1. q = [Received(p, c) EXCEPT !.at = "unavailable", !.counted = done]
        <3>1. PICK v \in Call : v = Received(p, c)
            BY <1>4
        <3>2. q = [v EXCEPT !.counted = done, !.at = "unavailable", !.holds = {}]
            BY <1>2, <3>1 DEF Sent
        <3>3. v.holds = {}
            BY <1>4, <3>1
        <3>4. q = [v EXCEPT !.at = "unavailable", !.counted = done]
            BY <3>2, <3>3 DEF Call
        <3> QED
            BY <3>1, <3>4
    <2> QED
        BY <1>1, <2>1
<1>6. counter' = [counter EXCEPT ![q.client][q.index].n =
                      counter[q.client][q.index].n + IF done THEN 1 ELSE 0]
    BY <1>1, <1>3, <1>4 DEF Count
<1>7. ~done => counter' = counter
    <2> SUFFICES ASSUME ~done PROVE counter' = counter
        OBVIOUS
    <2>1. counter \in [Clients -> [Indexes -> [n : Nat, until : Nat]]]
        BY DEF LimiterInv, CountersInv
    <2>2. q.client \in Clients /\ q.index \in Indexes
        BY <1>3 DEF Call
    <2>3. counter[q.client][q.index].n + (IF done THEN 1 ELSE 0) = counter[q.client][q.index].n
        BY <2>1, <2>2
    <2>4. counter' = [counter EXCEPT ![q.client][q.index].n = counter[q.client][q.index].n]
        BY <1>6, <2>3
    <2> QED
        BY <2>1, <2>2, <2>4
<1>8. call[r].at = "unsent" /\ UNCHANGED <<now, boot>>
    BY DEF IncrFails, Limiting
<1>9. Sends(r, q)
    BY <1>3, <1>5, <1>6, <1>7, <1>8 DEF Sends
<1> QED
    BY <1>9, SendsKeeps

LEMMA ExpireKeeps ==
    ASSUME LimiterInv, NEW r \in Calls, Expire(r) \/ ExpireFails(r) PROVE LimiterInv'
<1>1. call[r].at = "expire" /\ UNCHANGED <<now, boot>>
    BY DEF Expire, ExpireFails, Arm, Limiting
<1>2. now \in Nat
    BY DEF LimiterInv, ClockInv, Times
<1>3. CASE Expire(r)
    <2>1. Verdict(1) = "admitted"
        BY BoundsAssumption DEF Verdict, Allowed
    <2>2. PICK time : time = now + Window
        OBVIOUS
    <2>3. PICK a : a = now
        OBVIOUS
    <2>4. /\ counter' = [counter EXCEPT ![call[r].client][call[r].index].until = time]
          /\ call' = [call EXCEPT ![r] = Leaves(call[r], "admitted", a)]
        BY <1>3, <2>1, <2>2, <2>3 DEF Expire, Arm, Arms
    <2> QED
        BY <1>1, <2>2, <2>3, <2>4, SettlesKeeps
<1>4. CASE ExpireFails(r)
    <2>1. PICK time, a :
              /\ counter' = [counter EXCEPT ![call[r].client][call[r].index].until = time]
              /\ call' = [call EXCEPT ![r] = Leaves(call[r], "unavailable", a)]
              /\ \/ a = Never /\ time = Never
                 \/ a = now /\ time = now + Window
        <3>1. CASE /\ Arm(r, Arms(now))
                   /\ call' = [call EXCEPT ![r] = Leaves(@, "unavailable", now)]
            BY <3>1 DEF Arm, Arms
        <3>2. CASE /\ Arm(r, Never)
                   /\ call' = [call EXCEPT ![r] = Leaves(@, "unavailable", Never)]
            BY <3>2 DEF Arm
        <3> QED
            BY <1>4, <3>1, <3>2 DEF ExpireFails
    <2> QED
        BY <1>1, <2>1, SettlesKeeps
<1> QED
    BY <1>3, <1>4

LEMMA LimiterInvNext == ProcInv /\ LimiterInv /\ [Next]_vars => LimiterInv'
<1> SUFFICES ASSUME ProcInv, LimiterInv, [Next]_vars PROVE LimiterInv'
    OBVIOUS
<1>1. CASE UNCHANGED <<now, boot, counter, call>>
    <2>1. ClockInv' /\ CallsInv'
        BY <1>1 DEF LimiterInv, ClockInv, CallsInv, WellSent
    <2>2. ASSUME NEW c \in Clients, NEW i \in Indexes PROVE CounterInv(c, i)' /\ WindowInv(c, i)'
        <3>1. /\ Quiet(c, i) /\ CounterInv(c, i) /\ WindowInv(c, i) /\ now \in Nat /\ now' = now
              /\ counter'[c][i] = counter[c][i] /\ call' = call
            BY <1>1 DEF Quiet, Counted, LimiterInv, CountersInv, ClockInv, Times
        <3>2. CounterInv(c, i)'
            BY <3>1, QuietCounter
        <3>3. WindowInv(c, i)'
            BY <3>1, QuietWindows
        <3> QED
            BY <3>2, <3>3
    <2>3. CountersInv'
        BY <1>1, <2>2 DEF LimiterInv, CountersInv
    <2>4. RefusalsAreEarned'
        BY <1>1, RefusalsKept DEF LimiterInv
    <2> QED
        BY <2>1, <2>3, <2>4 DEF LimiterInv
<1>2. ASSUME NEW p \in Procs, SelectKey(p) \/ SelectOrg(p) \/ CommitKey(p) \/ Keepalive(p)
      PROVE  LimiterInv'
    BY <1>1, <1>2 DEF SelectKey, SelectOrg, CommitKey, Keepalive, Starting
<1>3. ASSUME NEW p \in Procs, Crash(p) PROVE LimiterInv'
    <2>1. Stop({p}) /\ ClockInv'
        BY <1>3 DEF Crash, Stop, LimiterInv, ClockInv
    <2> QED
        BY <2>1, StopLimits
<1>4. ASSUME NEW r \in Calls, Incr(r) \/ Expire(r) \/ IncrFails(r) \/ ExpireFails(r)
      PROVE  LimiterInv'
    BY <1>4, IncrKeeps, IncrFailsKeeps, ExpireKeeps
<1>5. ASSUME NEW h \in Hosts, Reboot(h) PROVE LimiterInv'
    <2>1. Stop({p \in Procs : proc[p].host = h})
        BY <1>5 DEF Reboot
    <2>2. ClockInv'
        <3>1. now \in Nat /\ now' = now
            <4>1. now' = now
                BY <1>5 DEF Reboot, Stop
            <4> QED
                BY <4>1 DEF LimiterInv, ClockInv, Times
        <3>2. boot' = [boot EXCEPT ![h] = now] /\ boot \in [Hosts -> 0..now] /\ now \in Times
            BY <1>5 DEF Reboot, LimiterInv, ClockInv
        <3>3. boot' \in [Hosts -> 0..now]
            BY <3>1, <3>2
        <3> QED
            BY <3>1, <3>2, <3>3 DEF ClockInv
    <2> QED
        BY <2>1, <2>2, StopLimits
<1>6. CASE Tick
    BY <1>6, TickLimits
<1>7. CASE UNCHANGED vars
    BY <1>1, <1>7 DEF vars
<1> QED
    BY <1>2, <1>3, <1>4, <1>5, <1>6, <1>7 DEF Next

LEMMA LimiterHolds == Spec => []LimiterInv
BY ProcInvInit, ProcInvNext, LimiterInvInit, LimiterInvNext, PTL DEF Spec

(* However the calls of a client to any number of processes, time, failures *)
(* of Redis, crashes and restarts of hosts interleave, no more than the     *)
(* limit pass in a window, or twice as many if the counter of the window    *)
(* counted calls of another one too (middleware.py).                        *)
THEOREM LimitHolds == Spec => []WindowLimit
<1>1. LimiterInv => WindowLimit
    <2> SUFFICES ASSUME LimiterInv, NEW r \in Calls
                 PROVE  Cardinality(Admitted(SameWindow(r))) <=
                            IF SameWindow(r) = SameCounter(r) THEN Limit ELSE 2 * Limit
        BY DEF WindowLimit
    <2>1. PICK c \in Clients : c = call[r].client
        BY DEF LimiterInv, CallsInv, Call
    <2>2. PICK i \in Indexes : i = call[r].index
        BY DEF LimiterInv, CallsInv, Call
    <2>3. PICK o \in Times : o = call[r].opened
        BY DEF LimiterInv, CallsInv, Call
    <2>4. SameCounter(r) = Counted(c, i) /\ SameWindow(r) = InWindow(c, i, o)
        BY <2>1, <2>2, <2>3 DEF SameCounter, SameWindow, Counted, InWindow
    <2>5. Cardinality(Passing(InWindow(c, i, o))) <=
              IF InWindow(c, i, o) = Counted(c, i) THEN Limit ELSE 2 * Limit
        BY DEF LimiterInv, CountersInv, WindowInv
    <2>6. Admitted(InWindow(c, i, o)) \in SUBSET Passing(InWindow(c, i, o))
        BY DEF Admitted, Passing
    <2>7. Passing(InWindow(c, i, o)) \in SUBSET Calls
        BY DEF Passing, InWindow, Counted
    <2>8. /\ Cardinality(Admitted(InWindow(c, i, o))) <= Cardinality(Passing(InWindow(c, i, o)))
          /\ Cardinality(Admitted(InWindow(c, i, o))) \in Nat
        BY <2>6, <2>7, Fewer, FiniteCalls
    <2> QED
        BY <2>4, <2>5, <2>8, PassingSize, BoundsAssumption
<1> QED
    BY <1>1, LimiterHolds, PTL

(* A client that is answered 429 made more calls than the limit since its   *)
(* counter was started, less than a window ago unless the counter was left  *)
(* without an expiry (middleware.py).                                       *)
THEOREM RefusedHaveCause == Spec => []RefusalsAreEarned
<1>1. LimiterInv => RefusalsAreEarned
    BY DEF LimiterInv
<1> QED
    BY <1>1, LimiterHolds, PTL

FaultsInv == faults \in 0..MaxFaults

LEMMA FaultsAreCounted == Spec => []FaultsInv
<1>1. Init => FaultsInv
    BY BoundsAssumption DEF Init, FaultsInv
<1>2. FaultsInv /\ [Next]_vars => FaultsInv'
    <2> SUFFICES ASSUME FaultsInv, [Next]_vars PROVE FaultsInv'
        OBVIOUS
    <2>1. Fault \/ UNCHANGED faults
        BY DEF Next, vars, SelectKey, SelectOrg, CommitKey, Keepalive, Starting, Crash, Reboot,
                    Stop, Incr, Expire, IncrFails, ExpireFails, Tick
    <2> QED
        BY <2>1, BoundsAssumption DEF Fault, FaultsInv
<1> QED
    BY <1>1, <1>2, PTL DEF Spec

(* The state keeps its type: in particular an org is held by a process just *)
(* while it commits it, and a counter that is due has expired.              *)
THEOREM TypeCorrect == Spec => []TypeOK
<1>1. ProcInv /\ LimiterInv /\ FaultsInv => TypeOK
    <2> SUFFICES ASSUME ProcInv, LimiterInv, FaultsInv PROVE TypeOK
        OBVIOUS
    <2>1. now \in Times /\ boot \in [Hosts -> Times]
        BY BoundsAssumption DEF LimiterInv, ClockInv, Times
    <2>2. orgs \subseteq Orgs /\ keys \in [DevKeys -> orgs \cup {NoOrg}]
        BY DEF ProcInv, RowsInv
    <2>3. \A p \in Procs : /\ proc[p].org \in Orgs <=> proc[p].at = "commit"
                           /\ proc[p].keepalive # "off" =>
                                  proc[p].at = "serving" /\ p \in KeepaliveEnabled
        BY DEF ProcInv, Settled, Loops
    <2>4. \A c \in Clients, i \in Indexes : counter[c][i].until \in (now + 1)..Never
        BY DEF LimiterInv, CountersInv, CounterInv
    <2> QED
        BY <2>1, <2>2, <2>3, <2>4 DEF TypeOK, FaultsInv
<1>2. Spec => []ProcInv
    BY ProcInvInit, ProcInvNext, PTL DEF Spec
<1> QED
    BY <1>1, <1>2, LimiterHolds, FaultsAreCounted, PTL
=============================================================================
