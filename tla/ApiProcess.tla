----------------------------- MODULE ApiProcess -----------------------------
(****************************************************************************)
(* The API processes of a deployment, around the endpoints: each seeds the  *)
(* development key when it starts, counts the calls of a client in Redis    *)
(* before it serves them, and runs the keepalive loop if it is enabled.     *)
(*                                                                          *)
(* Processes share the database and Redis.  A process reads the monotonic   *)
(* clock of its host, which starts anew when the host does; Redis lets      *)
(* counters expire by real time.  A statement or a transaction of the       *)
(* database is atomic; a process may stop between any two steps.            *)
(****************************************************************************)
EXTENDS Naturals, FiniteSets

CONSTANTS
    Procs, Hosts,
    DevKeys, NoKey,   \* configured keys; none configured
    Settings,         \* the dev keys the processes may be configured with
    KeepaliveEnabled, \* the processes with CIPHERFAULT_KEEPALIVE_ENABLED=1
    Orgs, NoOrg,      \* ids of the orgs named "Dev Org"
    Calls, Clients,   \* requests; X-API-Key headers or addresses
    Limit, Window,    \* rate_limit_requests, rate_limit_window_seconds
    MaxNow,           \* bound on the time
    MaxFaults         \* bound on failures, crashes and restarts of hosts

ASSUME SettingsAssumption ==
    Settings \subseteq [Procs -> DevKeys \cup {NoKey}] /\ KeepaliveEnabled \subseteq Procs
ASSUME NoValueAssumption == NoKey \notin DevKeys /\ NoOrg \notin Orgs
ASSUME CallsAssumption == IsFiniteSet(Calls) /\ Clients # {}
ASSUME BoundsAssumption ==
    /\ Limit \in Nat \ {0} /\ Window \in Nat \ {0}
    /\ MaxNow \in Nat /\ MaxFaults \in Nat

VARIABLES
    now, boot,   \* the time; when each host was started
    proc,        \* of each process: host, devKey, at, org, keepalive
    orgs, keys,  \* committed rows: orgs named "Dev Org", the org of each dev key
    counter,     \* Redis: the value and the time to live of each counter
    call,        \* the requests
    faults

vars == <<now, boot, proc, orgs, keys, counter, call, faults>>

Times == 0..MaxNow
Never == MaxNow + Window + 1   \* later than any time that is set
Indexes == 0..(MaxNow \div Window)

Zero == [n |-> 0, until |-> Never]
Unsent == [at |-> "unsent", client |-> CHOOSE c \in Clients : TRUE, holds |-> {}, index |-> 0, opened |-> 0,
           sent |-> Never, counted |-> FALSE, armed |-> Never]

Init ==
    /\ now = 0 /\ boot = [h \in Hosts |-> 0]
    /\ \E s \in Settings : \E h \in [Procs -> Hosts] :
           proc = [p \in Procs |-> [host |-> h[p], devKey |-> s[p], at |-> "down",
                                    org |-> NoOrg, keepalive |-> "off"]]
    /\ orgs = {} /\ keys = [k \in DevKeys |-> NoOrg]
    /\ counter = [c \in Clients |-> [i \in Indexes |-> Zero]]
    /\ call = [r \in Calls |-> Unsent]
    /\ faults = 0

Fault == faults < MaxFaults /\ faults' = faults + 1

-----------------------------------------------------------------------------
(* Start-up.  init_db creates the tables that are missing; then the dev key *)
(* is looked up, and written with its org in one transaction.               *)

Starting(p, at) == proc[p].at = at /\ UNCHANGED <<now, boot, counter, call, faults>>
Up_IgnoresSetting(p) == [proc[p] EXCEPT !.at = "serving", !.org = NoOrg, !.keepalive = "on"]
Up(p) == [proc[p] EXCEPT !.at = "serving", !.org = NoOrg,
                         !.keepalive = IF p \in KeepaliveEnabled THEN "on" ELSE "off"]

SelectKey(p) ==
    /\ Starting(p, "down")
    /\ LET k == proc[p].devKey IN
       IF k = NoKey \/ (k \in DevKeys /\ keys[k] # NoOrg)
       THEN proc' = [proc EXCEPT ![p] = Up(p)]
       ELSE proc' = [proc EXCEPT ![p].at = "org"]
    /\ UNCHANGED <<orgs, keys>>

(* An org of that name, or a new row that is flushed but not committed.     *)
Flushed_Committed(o) == orgs' = orgs \cup {o}
Flushed(o) == orgs' = orgs
SelectOrg(p) ==
    /\ Starting(p, "org")
    /\ \E o \in IF orgs # {} THEN orgs ELSE Orgs \ {proc[q].org : q \in Procs} :
           /\ proc' = [proc EXCEPT ![p].at = "commit", ![p].org = o]
           /\ Flushed(o)
    /\ UNCHANGED keys

(* key_hash is unique: who comes second is rolled back and does not start.  *)
CommitKey(p) ==
    /\ Starting(p, "commit")
    /\ LET k == proc[p].devKey IN
       IF keys[k] # NoOrg
       THEN /\ proc' = [proc EXCEPT ![p].at = "down", ![p].org = NoOrg]
            /\ UNCHANGED <<orgs, keys>>
       ELSE /\ proc' = [proc EXCEPT ![p] = Up(p)]
            /\ orgs' = orgs \cup {proc[p].org}
            /\ keys' = [keys EXCEPT ![k] = proc[p].org]

(* A round of the keepalive loop.  Failures of the database and of Redis    *)
(* are caught, and so is an HTTP error of the storage; a storage that is    *)
(* not reached is not, and ends the loop.                                   *)
Answers == {"ok", "database error", "redis error", "http error", "unreachable"}
Escapes(answer) == answer = "unreachable"
Keepalive(p) ==
    /\ proc[p].at = "serving" /\ proc[p].keepalive = "on"
    /\ \E answer \in Answers :
           /\ proc' = [proc EXCEPT ![p].keepalive = IF Escapes(answer) THEN answer ELSE "on"]
           /\ IF Escapes(answer) THEN Fault ELSE UNCHANGED faults
    /\ UNCHANGED <<now, boot, orgs, keys, counter, call>>

-----------------------------------------------------------------------------
(* The rate limiter of a call.  It runs on the event loop of its process,   *)
(* which no other call passes meanwhile.                                    *)

Clock(p) == now - boot[proc[p].host]
Busy(p) == \E r \in Calls : p \in call[r].holds
Limiting(r, at) == call[r].at = at /\ UNCHANGED <<now, boot, proc, orgs, keys>>

Allowed_OffByOne(n) == n <= Limit + 1
Allowed(n) == n <= Limit
Verdict(n) == IF Allowed(n) THEN "admitted" ELSE "429"

(* The call r of a client to p, in the window that the clock of p shows.    *)
Received(p, c) ==
    LET i == Clock(p) \div Window IN
    [Unsent EXCEPT !.client = c, !.sent = now, !.index = i,
                   !.opened = boot[proc[p].host] + i * Window]
Count(r, q, n) == counter' = [counter EXCEPT ![q.client][q.index].n = n]

(* incr: the call that starts a counter goes on to expire.                  *)
Incr(r) ==
    /\ Limiting(r, "unsent")
    /\ \E p \in Procs, c \in Clients :
           /\ proc[p].at = "serving" /\ ~Busy(p)
           /\ LET q == Received(p, c)
                  n == counter[c][q.index].n + 1
              IN /\ Count(r, q, n)
                 /\ call' = [call EXCEPT ![r] = [q EXCEPT !.counted = TRUE,
                        !.at = IF n = 1 THEN "expire" ELSE Verdict(n),
                        !.holds = IF n = 1 THEN {p} ELSE {}]]
    /\ UNCHANGED faults

Arms_TwiceAsLong(time) == time + Window + 1
Arms(time) == time + Window
Arm(r, time) ==
    /\ counter' = [counter EXCEPT ![call[r].client][call[r].index].until = time]
    /\ Limiting(r, "expire")
Leaves(q, at, armed) == [q EXCEPT !.at = at, !.holds = {}, !.armed = armed]
Expire(r) ==
    /\ Arm(r, Arms(now))
    /\ call' = [call EXCEPT ![r] = Leaves(@, Verdict(1), now)]
    /\ UNCHANGED faults

(* A call to Redis fails, before or after Redis has carried it out.         *)
IncrFails(r) ==
    /\ Limiting(r, "unsent") /\ Fault
    /\ \E p \in Procs, c \in Clients, done \in BOOLEAN :
           /\ proc[p].at = "serving" /\ ~Busy(p)
           /\ LET q == Received(p, c) IN
              /\ Count(r, q, counter[c][q.index].n + IF done THEN 1 ELSE 0)
              /\ call' = [call EXCEPT ![r] =
                     [q EXCEPT !.at = "unavailable", !.counted = done]]
ExpireFails(r) ==
    /\ Fault
    /\ \/ Arm(r, Arms(now)) /\ call' = [call EXCEPT ![r] = Leaves(@, "unavailable", now)]
       \/ Arm(r, Never) /\ call' = [call EXCEPT ![r] = Leaves(@, "unavailable", Never)]

-----------------------------------------------------------------------------
(* Time, and what stops processes.                                          *)

Tick ==
    /\ now < MaxNow /\ now' = now + 1
    /\ counter' = [c \in Clients |-> [i \in Indexes |->
           IF counter[c][i].until <= now' THEN Zero ELSE counter[c][i]]]
    /\ UNCHANGED <<boot, proc, orgs, keys, call, faults>>

Stop(P) ==
    /\ Fault
    /\ proc' = [p \in Procs |-> IF p \in P THEN
           [proc[p] EXCEPT !.at = "down", !.org = NoOrg, !.keepalive = "off"] ELSE proc[p]]
    /\ call' = [r \in Calls |-> IF call[r].holds \cap P # {}
                                THEN Leaves(call[r], "lost", Never) ELSE call[r]]
    /\ UNCHANGED <<now, orgs, keys, counter>>
Crash(p) == proc[p].at # "down" /\ Stop({p}) /\ UNCHANGED boot
Reboot(h) ==
    /\ boot[h] < now
    /\ Stop({p \in Procs : proc[p].host = h})
    /\ boot' = [boot EXCEPT ![h] = now]

Next ==
    \/ \E p \in Procs : SelectKey(p) \/ SelectOrg(p) \/ CommitKey(p) \/ Keepalive(p) \/ Crash(p)
    \/ \E r \in Calls : Incr(r) \/ Expire(r) \/ IncrFails(r) \/ ExpireFails(r)
    \/ \E h \in Hosts : Reboot(h)
    \/ Tick
Spec == Init /\ [][Next]_vars

-----------------------------------------------------------------------------
TypeOK ==
    /\ now \in Times /\ boot \in [Hosts -> Times] /\ faults \in 0..MaxFaults
    /\ orgs \subseteq Orgs /\ keys \in [DevKeys -> orgs \cup {NoOrg}]
    /\ \A p \in Procs : /\ proc[p].org \in Orgs <=> proc[p].at = "commit"
                        /\ proc[p].keepalive # "off" =>
                               proc[p].at = "serving" /\ p \in KeepaliveEnabled
    /\ \A c \in Clients, i \in Indexes : counter[c][i].until \in (now + 1)..Never

(* The calls counted in the same counter as r, in its window or in another  *)
(* one that has the same number on the clock of its host.                   *)
SameCounter(r) ==
    {q \in Calls : /\ call[q].counted /\ call[q].client = call[r].client
                   /\ call[q].index = call[r].index}
SameWindow(r) == {q \in SameCounter(r) : call[q].opened = call[r].opened}
Admitted(S) == {q \in S : call[q].at = "admitted"}

(* API_REFERENCE.md: 60 requests per 60 seconds per key.  A client gets no  *)
(* more in a window, however its calls to several processes and failures of *)
(* Redis interleave; and at most twice as much if hosts whose clocks differ *)
(* used the same window number.                                             *)
WindowLimit ==
    \A r \in Calls :
        Cardinality(Admitted(SameWindow(r))) <=
            IF SameWindow(r) = SameCounter(r) THEN Limit ELSE 2 * Limit

(* A client that is refused made more calls than the limit since its        *)
(* counter was started, less than a window ago, or earlier if a failure or  *)
(* a crash left the counter without an expiry.                              *)
Since(q, r) == {x \in SameCounter(r) : call[q].sent <= call[x].sent /\ call[x].sent <= call[r].sent}
RefusalsAreEarned ==
    \A r \in Calls : call[r].at = "429" =>
        \E q \in SameCounter(r) :
            /\ Cardinality(Since(q, r)) > Limit
            /\ \/ call[q].armed # Never /\ call[r].sent < call[q].armed + Window
               \/ call[q].at \in {"expire", "unavailable", "lost"} /\ call[q].armed = Never

(* However processes start and stop, an org is only written with a key, and *)
(* each configured key once: there is one Dev Org unless keys differ.       *)
SeededOnce ==
    /\ \A o \in orgs : \E k \in DevKeys : keys[k] = o
    /\ \A p \in Procs : (proc[p].at = "serving" /\ proc[p].devKey # NoKey) =>
           keys[proc[p].devKey] \in orgs
=============================================================================
