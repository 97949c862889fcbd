----------------------------- MODULE Discovery -----------------------------
(***************************************************************************)
(* The discovery responder (hurd/discovery.go), the receive loops that     *)
(* feed it, and the registrations the page keeps                           *)
(* (hurd/orchestrator_page.go), beside an enable switch that adds a port   *)
(* while probes are answered and holds the orchestrator's lock for as long *)
(* as a server takes to bind.                                              *)
(*                                                                         *)
(* A heartbeat names an identity, its instance ("" is NoName), its port    *)
(* and whether it came from this host; it may be lost, repeated, delayed   *)
(* or reordered, so any heartbeat may arrive at any time.  Time is kept as *)
(* ages, which stop growing at Old.                                        *)
(***************************************************************************)
EXTENDS Naturals, Sequences, FiniteSets

CONSTANTS
    Loops,     \* the IPv4 and the IPv6 receive loop
    Ports,     \* TCP ports of this host's device servers
    Insts,     \* instances the page may list
    NoName,    \* the instance of a registration that names none
    Beats,     \* the heartbeats that may arrive: [id, inst, port, local]
    None,      \* no registration
    TTL        \* DefaultRegistrationTTL, in ticks

Old == TTL + 1
Ids == {b.id : b \in Beats}
Registrations == [beat : Beats, age : 0..Old]
Listings == [reg : Registrations \union {None}, since : 0..Old]

ASSUME TTLAssumption == TTL \in Nat
ASSUME BeatsAssumption ==
    Beats \subseteq [id : Ids, inst : Insts \union {NoName}, port : Ports, local : BOOLEAN]
ASSUME NamesAssumption == NoName \notin Insts /\ None \notin Registrations \union Listings

VARIABLES
    static,     \* responder.static: the ports of in-process servers
    staticSet,  \* responder.staticSet
    heard,      \* responder.reg: the last heartbeat of each identity on this host
    rows,       \* the page's rows: [reg, since], or None; since is the time it is listed
    extra,      \* orchestrator.extra
    loop,       \* each receive loop: where it is and what it carries
    switch,     \* the request that holds orchestrator.mu
    reading     \* a page is rendered under the read lock

responder == <<static, staticSet, heard>>
page == <<rows, extra>>
locks == <<switch, reading>>
vars == <<responder, page, loop, locks>>

Elements(s) == {s[i] : i \in DOMAIN s}
Distinct(s) == \A i, j \in DOMAIN s : s[i] = s[j] => i = j

Alive(r) == r # None /\ r.age <= TTL

\* Registrations.LocalPorts: live registrations of this host.
LocalPorts == {heard[i].beat.port : i \in {k \in Ids : Alive(heard[k])}}
Announced == Elements(static) \union LocalPorts

Receiving ==
    [at |-> "receive", out |-> <<>>, left |-> {}, need |-> {}, moved |-> {}, entry |-> None]
Released == [at |-> "free", inst |-> NoName, port |-> 0]

\* addPort holds responder.mu; no other step does for longer than a copy.
AddPortHolds == switch.at = "write"

\* serve starts the responder with the ports of the servers it bound.
StartPorts == {s \in UNION {[1..n -> Ports] : n \in 0..1} : Distinct(s)}

Init ==
    /\ static \in StartPorts /\ staticSet = Elements(static)
    /\ heard = [i \in Ids |-> None]
    /\ rows \in [Insts -> {None, [reg |-> None, since |-> Old]}]
    /\ extra = [i \in Ids |-> None]
    /\ loop = [l \in Loops |-> Receiving]
    /\ switch = Released /\ reading = FALSE

\* The process dies and is started again: what it had in memory is gone.
Restarted ==
    /\ static' \in StartPorts /\ staticSet' = Elements(static')
    /\ heard' = [i \in Ids |-> None]
    /\ rows' = [i \in Insts |-> IF rows[i] = None THEN None ELSE [reg |-> None, since |-> Old]]
    /\ extra' = [i \in Ids |-> None]
    /\ loop' = [l \in Loops |-> Receiving]
    /\ switch' = Released /\ reading' = FALSE

-----------------------------------------------------------------------------
(* The receive loops.                                                       *)

At(l, p) == loop[l].at = p

\* History of a probe under way: need has the ports announced since it arrived without
\* a break, moved those that addPort made static after the loop's copy of the static ports.
Ended == (LocalPorts \ LocalPorts') \ staticSet
Owed(lps, lost) == [l \in Loops |-> [lps[l] EXCEPT !.need = @ \ lost]]
Moved(p) == [l \in Loops |->
    IF loop[l].at \in {"locals", "filter"}
    THEN [loop[l] EXCEPT !.moved = @ \union ({p} \ staticSet)]
    ELSE loop[l]]

ReceiveProbe(l) ==
    /\ At(l, "receive")
    /\ loop' = [loop EXCEPT ![l].at = "copy", ![l].need = Announced]
    /\ UNCHANGED <<responder, page, locks>>

\* Registrations.Datagram records the heartbeat and hands it to noteRegistration.
\* What other hosts registered is for Relay, which runs beside the loop.
ReceiveHeartbeat(l, b) ==
    LET r == [beat |-> b, age |-> 0] IN
    /\ At(l, "receive")
    /\ heard' = [heard EXCEPT ![b.id] = IF b.local THEN r ELSE None]
    /\ loop' = Owed([loop EXCEPT ![l].at = "note", ![l].entry = r], Ended)
    /\ UNCHANGED <<static, staticSet, page, locks>>

\* replies: the static ports are copied under responder.mu ...
CopyStatic(l) ==
    /\ At(l, "copy") /\ ~ AddPortHolds
    /\ loop' = [loop EXCEPT ![l].at = "locals", ![l].out = static]
    /\ UNCHANGED <<responder, page, locks>>

\* ... then, without it, the registrations are read ...
ReadLocals(l) ==
    /\ At(l, "locals")
    /\ loop' = [loop EXCEPT ![l].at = "filter", ![l].left = LocalPorts]
    /\ UNCHANGED <<responder, page, locks>>

\* Seeded bug: the registrations are not compared with the static ports.
FilterNothing(l) ==
    /\ At(l, "filter")
    /\ \E p \in loop[l].left :
        loop' = [loop EXCEPT ![l].left = @ \ {p}, ![l].out = Append(@, p)]
    /\ UNCHANGED <<responder, page, locks>>
\* ... and each port is looked up in the map that addPort may be writing.
Filter(l) ==
    /\ At(l, "filter")
    /\ \E p \in loop[l].left :
        loop' = [loop EXCEPT ![l].left = @ \ {p},
                             ![l].out = IF p \in staticSet THEN @ ELSE Append(@, p)]
    /\ UNCHANGED <<responder, page, locks>>

\* The Go runtime ends a process that it sees read a map while it is written.
ReadDuringWrite(l) ==
    /\ At(l, "filter") /\ loop[l].left # {} /\ AddPortHolds
    /\ Restarted

Answered(l) == At(l, "filter") /\ loop[l].left = {}
Answer(l) ==
    /\ Answered(l)
    /\ loop' = [loop EXCEPT ![l] = Receiving]
    /\ UNCHANGED <<responder, page, locks>>

\* A pending Lock of orchestrator.mu excludes new readers, so that it is served.
CanLock == switch.at = "free" /\ ~ reading
LockPending == \E l \in Loops : At(l, "note")

\* The page's copy of the entry: in the row of its instance, or in extra.
Listed(b) == b.inst \in Insts /\ rows[b.inst] # None
\* Seeded bug: no return after the row is updated.
RecordedTwice(r) ==
    /\ rows' = IF Listed(r.beat) THEN [rows EXCEPT ![r.beat.inst].reg = r] ELSE rows
    /\ extra' = [extra EXCEPT ![r.beat.id] = r]
Recorded(r) ==
    IF Listed(r.beat)
    THEN rows' = [rows EXCEPT ![r.beat.inst].reg = r] /\ UNCHANGED extra
    ELSE extra' = [extra EXCEPT ![r.beat.id] = r] /\ UNCHANGED rows
NoteRegistration(l) ==
    /\ At(l, "note") /\ CanLock
    /\ Recorded(loop[l].entry)
    /\ loop' = [loop EXCEPT ![l] = Receiving]
    /\ UNCHANGED <<responder, locks>>

-----------------------------------------------------------------------------
(* The page.                                                                *)

RenderBegins ==
    /\ switch.at = "free" /\ ~ LockPending /\ ~ reading
    /\ reading' = TRUE
    /\ UNCHANGED <<responder, page, loop, switch>>
RenderEnds ==
    /\ reading
    /\ reading' = FALSE
    /\ UNCHANGED <<responder, page, loop, switch>>

\* handleAdd lists a device file; its registrations so far stay in extra.
AddRow(i) ==
    /\ CanLock /\ rows[i] = None
    /\ rows' = [rows EXCEPT ![i] = [reg |-> None, since |-> 0]]
    /\ UNCHANGED <<responder, extra, loop, locks>>

\* deleteDevice refuses what registered from another host, however long ago.
Elsewhere(r) == r # None /\ ~ r.beat.local
DeleteRow(i) ==
    /\ CanLock /\ rows[i] # None /\ ~ Elsewhere(rows[i].reg)
    /\ rows' = [rows EXCEPT ![i] = None]
    /\ UNCHANGED <<responder, extra, loop, locks>>

\* setEnabled holds the lock while its server binds or the service manager works.
SwitchBegins(i) ==
    /\ CanLock /\ rows[i] # None
    /\ switch' = [Released EXCEPT !.at = "hold", !.inst = i]
    /\ UNCHANGED <<responder, page, loop, reading>>
\* startInProcess: a server is bound, perhaps to the port of one that died, and
\* addPort takes the responder's lock.
AddPortLocks(p) ==
    /\ switch.at = "hold"
    /\ switch' = [switch EXCEPT !.at = "write", !.port = p]
    /\ UNCHANGED <<responder, page, loop, reading>>
\* Seeded bug: the reply is appended only when the port is in the set already.
AddPortForgets ==
    /\ switch.at = "write"
    /\ staticSet' = staticSet \union {switch.port}
    /\ loop' = Moved(switch.port)
    /\ switch' = [switch EXCEPT !.at = "rows"]
    /\ UNCHANGED <<static, heard, page, reading>>
\* Seeded bug: the early return for a known port keeps the lock.
AddPortKeepsLock ==
    LET p == switch.port IN
    /\ switch.at = "write" /\ p \notin staticSet
    /\ static' = Append(static, p) /\ staticSet' = staticSet \union {p}
    /\ loop' = Moved(p)
    /\ switch' = [switch EXCEPT !.at = "rows"]
    /\ UNCHANGED <<heard, page, reading>>
AddPortWrites ==
    LET p == switch.port IN
    /\ switch.at = "write"
    /\ static' = IF p \in staticSet THEN static ELSE Append(static, p)
    /\ staticSet' = staticSet \union {p}
    /\ loop' = Moved(p)
    /\ switch' = [switch EXCEPT !.at = "rows"]
    /\ UNCHANGED <<heard, page, reading>>
\* A row that replaceRows puts in place has no registration; a refusal keeps it.
SwitchEnds ==
    /\ switch.at \in {"hold", "rows"}
    /\ \/ rows' = [rows EXCEPT ![switch.inst].reg = None]
       \/ UNCHANGED rows
    /\ switch' = Released
    /\ UNCHANGED <<responder, extra, loop, reading>>

-----------------------------------------------------------------------------
Later(r) == IF r = None \/ r.age = Old THEN r ELSE [r EXCEPT !.age = @ + 1]
LaterRow(w) ==
    IF w = None THEN None
    ELSE [reg |-> Later(w.reg), since |-> IF w.since = Old THEN Old ELSE w.since + 1]
Tick ==
    /\ heard' = [i \in Ids |-> Later(heard[i])]
    /\ rows' = [i \in Insts |-> LaterRow(rows[i])]
    /\ extra' = [i \in Ids |-> Later(extra[i])]
    /\ loop' = Owed([l \in Loops |-> [loop[l] EXCEPT !.entry = Later(@)]], Ended)
    /\ UNCHANGED <<static, staticSet, locks>>

LoopSteps(l) ==
    \/ CopyStatic(l) \/ ReadLocals(l) \/ Filter(l) \/ Answer(l) \/ NoteRegistration(l)
SwitchSteps == AddPortWrites \/ SwitchEnds
Receives(l) == ReceiveProbe(l) \/ (\E b \in Beats : ReceiveHeartbeat(l, b))

Next ==
    \/ \E l \in Loops : Receives(l) \/ LoopSteps(l) \/ ReadDuringWrite(l)
    \/ RenderBegins \/ RenderEnds
    \/ \E i \in Insts : AddRow(i) \/ DeleteRow(i) \/ SwitchBegins(i)
    \/ \E p \in Ports : AddPortLocks(p)
    \/ SwitchSteps
    \/ Tick

Spec == Init /\ [][Next]_vars
=============================================================================
