--------------------------- MODULE HerdRowProofs ---------------------------
(***************************************************************************)
(* Theorems about the servers, the rows and the switch of Herd.  Each       *)
(* invariant of HerdInv beyond IInv is proved from the ones before it; the   *)
(* faults that defeat it are excluded by an assumption of its own.          *)
(***************************************************************************)
EXTENDS HerdProofs

USE InstancesFinite, TypeOfAssumption, PortsAssumption, BoundsAssumption

-----------------------------------------------------------------------------
(* How a step changes the servers.                                          *)

\* A server is added; if it scans it takes the next window.
Added(st, want, by) ==
    /\ want \in Ports \union {0}
    /\ NewServer(st, want, IF want = 0 THEN scanCount ELSE 0, by)
    /\ scanCount' = IF want = 0 THEN scanCount + 1 ELSE scanCount
Runs(s) == ServerBinds(s) \/ ServerFails(s) \/ ServerDies(s)

LEMMA ServersStep ==
    ASSUME IInv, Next
    PROVE  \/ UNCHANGED <<nsrv, srv, scanCount>>
           \/ BindStart
           \/ \E s \in 1..nsrv : Runs(s)
           \/ \E i \in Instances : OpenEntry(i) /\ Added("built", PortOf(i), "boot")
           \/ StartServer /\ Added("starting", op.port, Creator)
           \/ ProcessGone
<1> DEFINE Goal ==
           \/ UNCHANGED <<nsrv, srv, scanCount>>
           \/ BindStart
           \/ \E s \in 1..nsrv : Runs(s)
           \/ \E i \in Instances : OpenEntry(i) /\ Added("built", PortOf(i), "boot")
           \/ StartServer /\ Added("starting", op.port, Creator)
           \/ ProcessGone
<1>1. ASSUME NEW i \in Instances, OpenEntry(i) PROVE Goal
    BY <1>1, EntryKeyType DEF OpenEntry, Added, net
<1>2. CASE StartServer
    <2>1. op.port \in Ports \union {0}
        BY DEF IInv, TypeOK, TypeOp, OpType
    <2>2. Added("starting", op.port, Creator)
        BY <1>2, <2>1 DEF StartServer, StartServerAt, Added
    <2> QED
        BY <1>2, <2>2
<1>3. CASE Startup
    BY <1>1, <1>3 DEF Startup, Boot, SkipDisabled, BuildBlock, BuildBlockRefused,
       BuildRegisterFails, BuildAttachFails, BuildUnchanged, CloseEntry, BuildDone, BindOk,
       BindErr, BindTimeout, BindFails, Settle, SettleRows, PublishResponder, WireFrontEnds, net, book
<1>4. CASE SwitchSteps
    BY <1>2, <1>4 DEF SwitchSteps, ReuseServer, AwaitOk, AwaitOkThen, AwaitFails, AwaitEndsIf,
       EnableBuildFails, EnableNumberTaken, EnableRegisterFails, EnableAttachFails, Abandon,
       SwitchUnchanged, EnableBlock, EnableBlockSaving, EnableDone, DisableBlock, CloseRow,
       UnregisterFails, DisableDone, DisableDoneLeaving, net, book
<1>5. CASE Servers
    BY <1>5 DEF Servers, Runs
<1>6. CASE Others \/ Requests
    BY <1>6 DEF Others, Requests, OthersTake, OthersFree, EnvUnchanged, EnableBegin, DisableBegin,
       EditSave, RestartRequest, net, book
<1>7. ASSUME NEW x \in pending.left, RestartStep(x) PROVE Goal
    BY <1>7 DEF RestartStep, net, book
<1>8. CASE Sighup \/ Fatal \/ Stop
    BY <1>8 DEF Sighup, Fatal, Stop, net, book
<1> QED
    BY <1>3, <1>4, <1>5, <1>6, <1>7, <1>8 DEF Next

\* A new server leaves the others alone.
LEMMA AddedFacts ==
    ASSUME IInv, NEW st, NEW want, NEW by, Added(st, want, by)
    PROVE  /\ nsrv' = nsrv + 1 /\ nsrv + 1 \in ServerIds /\ nsrv + 1 \in 1..nsrv'
           /\ \A s \in 1..nsrv : s \in 1..nsrv' /\ s # nsrv + 1 /\ srv'[s] = srv[s]
           /\ \A s \in 1..nsrv' : s \in 1..nsrv \/ s = nsrv + 1
           /\ srv'[nsrv + 1] = [st |-> st, want |-> want, by |-> by, port |-> 0,
                                win |-> IF want = 0 THEN scanCount ELSE 0]
<1>1. nsrv \in 0..MaxServers /\ srv \in [ServerIds -> SrvType]
    BY DEF IInv, TypeOK, TypeNet
<1>2. nsrv < MaxServers /\ nsrv' = nsrv + 1
    BY DEF Added, NewServer
<1>3. nsrv + 1 \in ServerIds
    BY <1>1, <1>2 DEF ServerIds
<1>4. srv' = [srv EXCEPT ![nsrv + 1] = [st |-> st, want |-> want, by |-> by, port |-> 0,
                                        win |-> IF want = 0 THEN scanCount ELSE 0]]
    BY DEF Added, NewServer
<1> QED
    BY <1>1, <1>2, <1>3, <1>4 DEF ServerIds

\* The other steps change the state and the port of a server, never what it wants.
LEMMA RunsFacts ==
    ASSUME IInv, NEW s \in 1..nsrv, Runs(s)
    PROVE  /\ nsrv' = nsrv /\ scanCount' = scanCount /\ byPort' = byPort
           /\ \A t \in 1..nsrv : t # s => srv'[t] = srv[t]
           /\ srv'[s].want = srv[s].want /\ srv'[s].win = srv[s].win /\ srv'[s].by = srv[s].by
           /\ \/ /\ srv[s].st = "starting" /\ srv'[s].st = "bound"
                 /\ srv'[s].port \in Candidates(s) /\ srv'[s].port \in Ports
              \/ srv[s].st \in {"starting", "bound"} /\ srv'[s].st = "dead" /\ srv'[s].port = srv[s].port
<1>1. srv \in [ServerIds -> SrvType] /\ 1..nsrv \subseteq ServerIds
    BY DEF IInv, TypeOK, TypeNet, ServerIds
<1>2. nsrv' = nsrv /\ scanCount' = scanCount /\ byPort' = byPort
    BY DEF Runs, ServerBinds, ServerFails, ServerDies, EnvUnchanged, book
<1>3. CASE ServerBinds(s)
    <2>1. PICK p \in Candidates(s) : Outcome(s, "bound", p)
        BY <1>3 DEF ServerBinds
    <2>2. p \in Ports \/ p = 0
        BY <1>1, <2>1 DEF Candidates, Window, SrvType
    <2>3. p # 0
        <3>1. srv[s].want # 0 => p = srv[s].want
            BY <2>1 DEF Candidates
        <3>2. srv[s].want = 0 => p \in Ports
            BY <2>1 DEF Candidates, Window
        <3> QED
            BY <3>1, <3>2
    <2> QED
        BY <1>1, <1>2, <1>3, <2>1, <2>2, <2>3 DEF Outcome, SrvType, ServerBinds
<1>4. CASE ServerFails(s) \/ ServerDies(s)
    BY <1>1, <1>2, <1>4 DEF Outcome, SrvType, ServerFails, ServerDies
<1> QED
    BY <1>3, <1>4 DEF Runs

\* startOne starts one server.
LEMMA BindStartFacts ==
    ASSUME IInv, BindStart
    PROVE  /\ nsrv' = nsrv /\ scanCount' = scanCount /\ byPort' = byPort
           /\ NextToStart \in 1..nsrv /\ srv[NextToStart].st = "built" /\ waiting' = NextToStart
           /\ \A t \in 1..nsrv : t # NextToStart => srv'[t] = srv[t]
           /\ srv'[NextToStart] = [srv[NextToStart] EXCEPT !.st = "starting"]
<1>1. srv \in [ServerIds -> SrvType] /\ 1..nsrv \subseteq ServerIds
    BY DEF IInv, TypeOK, TypeNet, ServerIds
<1>2. NextToStart \in 1..nsrv /\ srv[NextToStart].st = "built"
    BY NextToStartFacts DEF BindStart, Unstarted
<1> QED
    BY <1>1, <1>2 DEF BindStart, book

LEMMA ServerInvInit == Init => ServerInv
    BY DEF Init, ServerInv, OwnWindows, PortsOfBound, ScanServers, OnlyCreatedRun, NoServer

\* Servers come to life one after the other.
LEMMA OnlyCreatedStep == ASSUME IInv, ServerInv, Next PROVE OnlyCreatedRun'
<1>0. srv \in [ServerIds -> SrvType] /\ nsrv \in 0..MaxServers
    BY DEF IInv, TypeOK, TypeNet
<1>1. CASE UNCHANGED <<nsrv, srv, scanCount>>
    BY <1>1 DEF ServerInv, OnlyCreatedRun
<1>2. ASSUME NEW n \in 1..nsrv, NEW rec, srv' = [srv EXCEPT ![n] = rec], nsrv' = nsrv
      PROVE  OnlyCreatedRun'
    BY <1>0, <1>2 DEF ServerInv, OnlyCreatedRun, ServerIds
<1>3. CASE BindStart
    <2>1. NextToStart \in 1..nsrv /\ nsrv' = nsrv
          /\ srv' = [srv EXCEPT ![NextToStart] = [srv[NextToStart] EXCEPT !.st = "starting"]]
        BY <1>3, BindStartFacts DEF BindStart
    <2> QED
        BY <1>2, <2>1
<1>4. ASSUME NEW n \in 1..nsrv, Runs(n) PROVE OnlyCreatedRun'
    <2>1. PICK st, p : Outcome(n, st, p)
        BY <1>4 DEF Runs, ServerBinds, ServerFails, ServerDies
    <2>2. \A s \in ServerIds : s # n => srv'[s] = srv[s]
        BY <1>0, <2>1 DEF Outcome
    <2>3. nsrv' = nsrv
        BY <1>4, RunsFacts
    <2> QED
        BY <1>0, <2>2, <2>3 DEF ServerInv, OnlyCreatedRun
<1>5. ASSUME NEW st, NEW want, NEW by, Added(st, want, by) PROVE OnlyCreatedRun'
    <2>1. \A s \in ServerIds : s # nsrv + 1 => srv'[s] = srv[s]
        BY <1>0, <1>5 DEF Added, NewServer
    <2>2. nsrv' = nsrv + 1
        BY <1>5 DEF Added, NewServer
    <2> QED
        BY <1>0, <2>1, <2>2 DEF ServerInv, OnlyCreatedRun, ServerIds
<1>6. CASE ProcessGone
    BY <1>6 DEF ProcessGone, OnlyCreatedRun, NoServer
<1> QED
    BY <1>1, <1>3, <1>4, <1>5, <1>6, ServersStep

LEMMA ServersKnownStep == ASSUME IInv, ServerInv, Next PROVE OwnWindows' /\ PortsOfBound'
<1>0. /\ srv \in [ServerIds -> SrvType] /\ 1..nsrv \subseteq ServerIds
      /\ \A s \in 1..nsrv : srv[s] \in SrvType
      /\ scanCount \in Nat
    BY DEF IInv, TypeOK, TypeNet, TypeBook, ServerIds
<1>1. CASE UNCHANGED <<nsrv, srv, scanCount>>
    BY <1>1 DEF ServerInv, OwnWindows, PortsOfBound, ScanServers
<1>2. CASE BindStart
    BY <1>0, <1>2, BindStartFacts DEF ServerInv, OwnWindows, PortsOfBound, ScanServers, SrvType
<1>3. ASSUME NEW s \in 1..nsrv, Runs(s) PROVE OwnWindows' /\ PortsOfBound'
    BY <1>0, <1>3, RunsFacts DEF ServerInv, OwnWindows, PortsOfBound, ScanServers, SrvType
<1>4. ASSUME NEW st \in {"built", "starting"}, NEW want, NEW by, Added(st, want, by) PROVE OwnWindows' /\ PortsOfBound'
    <2>1. scanCount' = IF want = 0 THEN scanCount + 1 ELSE scanCount
        BY <1>4 DEF Added
    <2>2. ASSUME NEW s \in ScanServers', s \in 1..nsrv PROVE s \in ScanServers /\ srv'[s] = srv[s]
        BY <1>4, <2>2, AddedFacts DEF ScanServers
    <2>0. /\ srv'[nsrv + 1].want = want /\ srv'[nsrv + 1].st = st /\ srv'[nsrv + 1].port = 0
          /\ want = 0 => srv'[nsrv + 1].win = scanCount
        <3>1. srv'[nsrv + 1] = [st |-> st, want |-> want, by |-> by, port |-> 0,
                                win |-> IF want = 0 THEN scanCount ELSE 0]
            BY <1>4, AddedFacts
        <3> QED
            BY <3>1
    <2>3. nsrv + 1 \in ScanServers' => want = 0 /\ srv'[nsrv + 1].win = scanCount
        BY <2>0 DEF ScanServers
    <2>4. \A s \in ScanServers' : s \in 1..nsrv \/ s = nsrv + 1
        BY <1>4, AddedFacts DEF ScanServers
    <2>5. \A s \in ScanServers : srv[s].win < scanCount /\ srv[s].win \in Nat
        BY <1>0 DEF ServerInv, OwnWindows, ScanServers, SrvType
    <2>6. OwnWindows'
        BY <1>0, <2>1, <2>2, <2>3, <2>4, <2>5 DEF ServerInv, OwnWindows
    <2>7. PortsOfBound'
        <3> SUFFICES ASSUME NEW s \in 1..nsrv'
                     PROVE  /\ srv'[s].st # "none"
                            /\ srv'[s].st \in {"built", "starting"} => srv'[s].port = 0
                            /\ srv'[s].st = "bound" => srv'[s].port # 0
            BY DEF PortsOfBound
        <3>1. s \in 1..nsrv \/ s = nsrv + 1
            BY <1>4, AddedFacts
        <3>2. CASE s \in 1..nsrv
            BY <1>4, <3>2, AddedFacts DEF ServerInv, PortsOfBound
        <3> QED
            BY <1>4, <2>0, <3>1, <3>2
    <2> QED
        BY <2>6, <2>7 DEF ServerInv
<1>5. CASE ProcessGone
    BY <1>5 DEF ProcessGone, ServerInv, OwnWindows, PortsOfBound, ScanServers
<1> QED
    BY <1>1, <1>2, <1>3, <1>4, <1>5, ServersStep

LEMMA ServersRight == Spec => []ServerInv
<1>1. ServerInv /\ UNCHANGED vars => ServerInv'
    BY DEF vars, net, book, ServerInv, OwnWindows, PortsOfBound, OnlyCreatedRun, ScanServers
<1>2. IInv /\ ServerInv /\ Next => ServerInv'
    BY ServersKnownStep, OnlyCreatedStep DEF ServerInv
<1>3. IInv /\ ServerInv /\ [Next]_vars => ServerInv'
    BY <1>1, <1>2
<1> QED
    BY <1>3, ServerInvInit, Inductive, PTL DEF Spec

\* No two servers that scan for a port, at start-up or for a device enabled from the
\* page, are given windows that overlap: scanCount goes up with each of them.
THEOREM WindowsNeverOverlap == Spec => []WindowsApart
<1>1. ASSUME IInv, ServerInv PROVE WindowsApart
    <2> SUFFICES ASSUME NEW s \in 1..nsrv, NEW t \in 1..nsrv, s # t, srv[s].want = 0, srv[t].want = 0,
                        NEW p \in Window(srv[s].win), p \in Window(srv[t].win)
                 PROVE  FALSE
        BY DEF WindowsApart
    <2> DEFINE v == srv[s].win
               w == srv[t].win
    <2>1. v \in Nat /\ w \in Nat /\ v # w
        BY <1>1 DEF IInv, TypeOK, TypeNet, ServerIds, SrvType, ServerInv, OwnWindows, ScanServers
    <2>2. p \in Nat /\ p >= ScanBase + v * ScanSpan /\ p < ScanBase + (v + 1) * ScanSpan
        BY DEF Window
    <2>3. p >= ScanBase + w * ScanSpan /\ p < ScanBase + (w + 1) * ScanSpan
        BY DEF Window
    <2> HIDE DEF v, w
    <2>4. ASSUME NEW x \in Nat, NEW y \in Nat, x < y PROVE (x + 1) * ScanSpan <= y * ScanSpan
        <3>1. PICK z \in Nat : y = (x + 1) + z
            BY <2>4, y - (x + 1) \in Nat
        <3>2. y * ScanSpan = (x + 1) * ScanSpan + z * ScanSpan
            BY <3>1, ScanAssumption
        <3>3. z * ScanSpan \in Nat
            BY ScanAssumption
        <3> QED
            BY <3>2, <3>3, ScanAssumption
    <2>5. /\ (v + 1) * ScanSpan \in Nat /\ (w + 1) * ScanSpan \in Nat
          /\ v * ScanSpan \in Nat /\ w * ScanSpan \in Nat
        BY <2>1, ScanAssumption
    <2>6. CASE v < w
        BY <2>1, <2>2, <2>3, <2>4, <2>5, <2>6, ScanAssumption
    <2>7. CASE w < v
        BY <2>1, <2>2, <2>3, <2>4, <2>5, <2>7, ScanAssumption
    <2> QED
        BY <2>1, <2>6, <2>7
<1> QED
    BY <1>1, Inductive, ServersRight, PTL

-----------------------------------------------------------------------------
(* Start-up waits for one server at a time.                                 *)

\* How a step changes what start-up knows of its servers.
LEMMA StartStep ==
    ASSUME IInv, Next
    PROVE  \/ /\ UNCHANGED <<nsrv, srv, phase, waiting, failed, errc, blame>>
              /\ phase \notin PageUp => byPort' = byPort
           \/ Boot \/ BuildDone \/ PublishResponder \/ WireFrontEnds
           \/ BindStart \/ BindOk \/ BindErr \/ BindTimeout \/ Settle
           \/ \E s \in 1..nsrv : Runs(s)
           \/ \E i \in Instances : OpenEntry(i) /\ Added("built", PortOf(i), "boot")
           \/ StartServer /\ Added("starting", op.port, Creator)
           \/ ProcessGone
<1> DEFINE Same == /\ UNCHANGED <<nsrv, srv, phase, waiting, failed, errc, blame>>
                   /\ phase \notin PageUp => byPort' = byPort
           Goal ==
           \/ Same
           \/ Boot \/ BuildDone \/ PublishResponder \/ WireFrontEnds
           \/ BindStart \/ BindOk \/ BindErr \/ BindTimeout \/ Settle
           \/ \E s \in 1..nsrv : Runs(s)
           \/ \E i \in Instances : OpenEntry(i) /\ Added("built", PortOf(i), "boot")
           \/ StartServer /\ Added("starting", op.port, Creator)
           \/ ProcessGone
<1>1. ASSUME NEW i \in Instances, OpenEntry(i) PROVE Goal
    <2>1. CASE UNCHANGED <<net, byPort>>
        BY <1>1, <2>1 DEF OpenEntry, net
    <2>2. CASE ~UNCHANGED <<net, byPort>>
        BY <1>1, <2>2, EntryKeyType DEF OpenEntry, Added
    <2> QED
        BY <2>1, <2>2
<1>2. CASE StartServer
    <2>1. op.port \in Ports \union {0}
        BY DEF IInv, TypeOK, TypeOp, OpType
    <2>2. Added("starting", op.port, Creator)
        BY <1>2, <2>1 DEF StartServer, StartServerAt, Added
    <2> QED
        BY <1>2, <2>2
<1>3. CASE AwaitOk
    BY <1>3 DEF IInv, OpSane, AwaitOk, AwaitOkThen, Enabling, startup, net
<1>4. CASE Startup
    BY <1>1, <1>4 DEF Startup, SkipDisabled, BuildBlock, BuildBlockRefused,
       BuildRegisterFails, BuildAttachFails, BuildUnchanged, CloseEntry, startup, net, book
<1>5. CASE SwitchSteps
    BY <1>2, <1>3, <1>5 DEF SwitchSteps, ReuseServer, AwaitFails, AwaitEndsIf,
       EnableBuildFails, EnableNumberTaken, EnableRegisterFails, EnableAttachFails, Abandon,
       SwitchUnchanged, EnableBlock, EnableBlockSaving, EnableDone, DisableBlock, CloseRow,
       UnregisterFails, DisableDone, DisableDoneLeaving, startup, net, book
<1>6. CASE Servers
    BY <1>6 DEF Servers, Runs
<1>7. CASE Others \/ Requests
    BY <1>7 DEF Others, Requests, OthersTake, OthersFree, EnvUnchanged, EnableBegin, DisableBegin,
       EditSave, RestartRequest, startup, net, book
<1>8. ASSUME NEW x \in pending.left, RestartStep(x) PROVE Goal
    BY <1>8 DEF RestartStep, startup, net, book
<1>9. CASE Sighup \/ Fatal \/ Stop
    BY <1>9 DEF Sighup, Fatal, Stop, startup, net, book
<1> QED
    BY <1>4, <1>5, <1>6, <1>7, <1>8, <1>9 DEF Next

LEMMA StartInit == Init => Attributed /\ FixedFirst
    BY DEF Init, Attributed, FixedFirst, ScanServers, BootServers, PageUp

\* Who reports an error, and when.
LEMMA ReportFacts ==
    ASSUME IInv, NEW s \in 1..nsrv, Runs(s)
    PROVE  /\ phase' = phase /\ waiting' = waiting /\ failed' = failed /\ blame' = blame
           /\ errc' = IF srv'[s].st = "dead" /\ srv[s].by = "boot" THEN errc \union {s} ELSE errc
<1>1. phase' = phase /\ waiting' = waiting /\ failed' = failed /\ blame' = blame
    BY DEF Runs, ServerBinds, ServerFails, ServerDies, EnvUnchanged
<1>2. srv \in [ServerIds -> SrvType] /\ 1..nsrv \subseteq ServerIds
    BY DEF IInv, TypeOK, TypeNet, ServerIds
<1>3. CASE ServerBinds(s)
    <2>1. PICK p \in Candidates(s) : Outcome(s, "bound", p)
        BY <1>3 DEF ServerBinds
    <2>2. srv'[s].st = "bound" /\ errc' = errc
        BY <1>2, <1>3, <2>1 DEF Outcome, ServerBinds
    <2> QED
        BY <1>1, <2>2
<1>4. CASE ServerFails(s) \/ ServerDies(s)
    <2>1. Outcome(s, "dead", 0) /\ Report(s)
        BY <1>4 DEF ServerFails, ServerDies
    <2>2. srv'[s].st = "dead"
        BY <1>2, <2>1 DEF Outcome
    <2> QED
        BY <1>1, <2>1, <2>2 DEF Report
<1> QED
    BY <1>3, <1>4 DEF Runs

\* An error that came late stays one.
LEMMA LateStays ==
    ASSUME NEW e, LateError(e), srv'[e].port = srv[e].port, blame \subseteq blame'
    PROVE  LateError(e)'
BY DEF LateError

\* The servers that the channel and the history name were created.
LEMMA AttributedTypes ==
    ASSUME IInv, Attributed
    PROVE  /\ nsrv \in Nat /\ waiting \in Nat
           /\ waiting # 0 => waiting \in 1..nsrv
           /\ \A s \in 1..nsrv : srv[s] \in SrvType /\ s # 0 /\ s \in Nat
           /\ \A s \in failed : s \in 1..nsrv
           /\ \A e \in errc : e \in 1..nsrv
           /\ \A p \in blame : /\ p[1] \in failed /\ p[2] \in 0..MaxServers
                               /\ p[2] # 0 => p[2] \in 1..nsrv
<1>1. /\ nsrv \in 0..MaxServers /\ srv \in [ServerIds -> SrvType] /\ waiting \in 0..MaxServers
      /\ failed \subseteq ServerIds /\ errc \subseteq ServerIds
      /\ blame \subseteq ServerIds \X (0..MaxServers)
    BY DEF IInv, TypeOK, TypeNet, TypeStartup
<1>2. waiting # 0 => waiting \in 1..nsrv
    BY <1>1 DEF Attributed
<1>3. \A s \in failed : s \in 1..nsrv
    BY <1>1 DEF Attributed, ServerIds
<1>4. \A e \in errc : e \in 1..nsrv
    BY <1>1 DEF Attributed, ServerIds
<1>5. ASSUME NEW p \in blame
      PROVE  p[1] \in failed /\ p[2] \in 0..MaxServers /\ (p[2] # 0 => p[2] \in 1..nsrv)
    BY <1>1, <1>5 DEF Attributed
<1> QED
    BY <1>1, <1>2, <1>3, <1>4, <1>5 DEF ServerIds

\* A wait ends in an error: e is the server whose error was read, or 0.
LEMMA WaitFails ==
    ASSUME IInv, ServerInv, Attributed, NEW e \in errc \union {0}, BindFails(e, errc \ {e})
    PROVE  Attributed'
<1>0. /\ phase = "bind" /\ phase' = phase /\ waiting # 0 /\ waiting \in 1..nsrv /\ waiting' = 0
      /\ failed' = failed \union {waiting} /\ errc' = errc \ {e}
      /\ blame' = blame \union {<<waiting, e>>} /\ nsrv' = nsrv /\ srv' = srv
    BY AttributedTypes DEF BindFails, net
<1>1. BootServers' = BootServers /\ BootServers \subseteq 1..nsrv
    BY <1>0 DEF BootServers
<1>2. failed' = {p[1] : p \in blame'}
    <2>1. failed = {p[1] : p \in blame}
        BY DEF Attributed
    <2>2. <<waiting, e>>[1] = waiting
        OBVIOUS
    <2>3. ASSUME NEW s \in failed' PROVE \E p \in blame' : p[1] = s
        BY <1>0, <2>1, <2>2, <2>3
    <2>4. ASSUME NEW p \in blame' PROVE p[1] \in failed'
        BY <1>0, <2>1, <2>2, <2>4
    <2> QED
        BY <2>3, <2>4
<1>3. \A s \in failed' : s <= nsrv /\ srv[s].st # "built"
    BY <1>0 DEF Attributed
<1>4. \A x : LateError(x) => LateError(x)'
    BY <1>0 DEF LateError
<1>5. ASSUME NEW x \in 1..nsrv, x = waiting, x # e PROVE LateError(x)'
    <2>1. e \in 0..MaxServers
        BY <1>0 DEF IInv, TypeOK, TypeStartup, ServerIds
    <2>2. <<x, e>> \in blame'
        BY <1>0, <1>5
    <2> QED
        BY <1>5, <2>1, <2>2 DEF LateError
<1>6. ASSUME NEW x \in errc'
      PROVE  x <= nsrv /\ srv[x].by = "boot" /\ srv[x].st = "dead" /\ LateError(x)'
    <2>1. x \in errc /\ x # e
        BY <1>0, <1>6
    <2>2. x = waiting \/ LateError(x)
        BY <2>1 DEF Attributed
    <2> QED
        BY <1>0, <1>4, <1>5, <2>1, <2>2 DEF Attributed
<1>7. ASSUME NEW s \in BootServers
      PROVE  /\ srv[s].st = "starting" => s \in failed'
             /\ srv[s].st = "dead" /\ srv[s].port = 0 => s \in failed' \/ s \in errc'
    <2>1. srv[s].st = "starting" => s \in failed'
        BY <1>0 DEF Attributed
    <2>2. ASSUME srv[s].st = "dead", srv[s].port = 0, s \notin failed', s \notin errc' PROVE FALSE
        <3>1. s \in errc /\ s = e /\ s # waiting
            BY <1>0, <2>2 DEF Attributed
        <3>2. LateError(s)
            BY <3>1 DEF Attributed
        <3>3. PICK f : <<s, f>> \in blame
            BY <2>2, <3>2 DEF LateError
        <3>4. s \in failed
            BY <3>3, AttributedTypes
        <3> QED
            BY <1>0, <2>2, <3>4
    <2> QED
        BY <2>1, <2>2
<1>8. e # 0 => e \in errc /\ e <= nsrv /\ srv[e].st = "dead" /\ (e = waiting \/ LateError(e))
    BY DEF Attributed
<1>9. ASSUME NEW p \in blame', p[2] # 0
      PROVE  /\ p[2] <= nsrv /\ srv[p[2]].st = "dead" /\ p[2] \notin errc'
             /\ p[2] = p[1] \/ LateError(p[2])'
             /\ \A q \in blame' : q[2] = p[2] => q = p
    <2>1. CASE p \in blame
        <3>1. /\ p[2] <= nsrv /\ srv[p[2]].st = "dead" /\ p[2] \notin errc
              /\ p[2] = p[1] \/ LateError(p[2])
              /\ \A q \in blame : q[2] = p[2] => q = p
            BY <1>9, <2>1 DEF Attributed
        <3>2. p[2] # e
            BY <1>8, <1>9, <3>1
        <3> QED
            BY <1>0, <1>4, <3>1, <3>2
    <2>2. CASE p = <<waiting, e>>
        <3>1. e # 0 /\ p[2] = e /\ p[1] = waiting
            BY <1>9, <2>2
        <3>2. \A q \in blame : q[2] # e
            BY <1>8, <3>1 DEF Attributed
        <3> QED
            BY <1>0, <1>4, <1>8, <2>2, <3>1, <3>2
    <2> QED
        BY <1>0, <1>9, <2>1, <2>2
<1>10. phase' \notin PageUp /\ phase' \notin {"down", "build"} /\ phase' = "bind"
    BY <1>0 DEF PageUp
<1> QED
    BY <1>0, <1>1, <1>2, <1>3, <1>6, <1>7, <1>9, <1>10 DEF Attributed

\* A server binds, fails or dies.
LEMMA WaitSeesRun ==
    ASSUME IInv, ServerInv, Attributed, NEW s \in 1..nsrv, Runs(s)
    PROVE  Attributed'
<1>1. /\ phase' = phase /\ waiting' = waiting /\ failed' = failed /\ blame' = blame /\ nsrv' = nsrv
      /\ errc' = IF srv'[s].st = "dead" /\ srv[s].by = "boot" THEN errc \union {s} ELSE errc
      /\ \A t \in 1..nsrv : t # s => srv'[t] = srv[t]
      /\ \A t \in 1..nsrv : srv'[t].by = srv[t].by
    BY RunsFacts, ReportFacts
<1>2. /\ srv[s].st \in {"starting", "bound"} /\ srv'[s].st \in {"bound", "dead"}
      /\ srv'[s].st = "dead" => srv'[s].port = srv[s].port
    BY RunsFacts
<1>3. BootServers' = BootServers /\ BootServers \subseteq 1..nsrv
    BY <1>1 DEF BootServers
<1>4. phase \notin {"down", "build"}
    BY <1>2 DEF Attributed
<1>5. \A t \in 1..nsrv : srv[t].st # "built" => srv'[t].st # "built"
    BY <1>1, <1>2
<1>6. ASSUME NEW e \in 1..nsrv, srv[e].st = "dead"
      PROVE  /\ e # s /\ srv'[e] = srv[e]
             /\ LateError(e) => LateError(e)'
    <2>1. e # s /\ srv'[e] = srv[e]
        BY <1>1, <1>2, <1>6
    <2> QED
        BY <1>1, <2>1 DEF LateError
<1>7. ASSUME srv[s].by = "boot", srv'[s].st = "dead" PROVE s = waiting \/ LateError(s)'
    <2>1. CASE srv[s].st = "bound"
        BY <1>2, <1>7, <2>1 DEF ServerInv, PortsOfBound, LateError
    <2>2. CASE srv[s].st = "starting"
        <3>1. s = waiting \/ s \in failed
            BY <1>7, <2>2 DEF Attributed, BootServers
        <3>2. ASSUME s \in failed PROVE LateError(s)'
            <4>1. PICK p \in blame : p[1] = s
                BY <3>2 DEF Attributed
            <4>2. p[2] # s
                BY <2>2, AttributedTypes DEF Attributed
            <4>3. p[2] \in 0..MaxServers /\ p = <<p[1], p[2]>>
                BY DEF IInv, TypeOK, TypeStartup
            <4>4. <<s, p[2]>> \in blame'
                BY <1>1, <4>1, <4>3
            <4> QED
                BY <4>2, <4>3, <4>4 DEF LateError
        <3> QED
            BY <3>1, <3>2
    <2> QED
        BY <1>2, <2>1, <2>2
<1>8. ASSUME NEW e \in errc'
      PROVE  e <= nsrv /\ srv'[e].by = "boot" /\ srv'[e].st = "dead" /\ (e = waiting \/ LateError(e)')
    <2>1. CASE e \in errc
        BY <1>6, <2>1, AttributedTypes DEF Attributed
    <2>2. CASE e \notin errc
        <3>1. e = s /\ srv'[s].st = "dead" /\ srv[s].by = "boot"
            BY <1>1, <1>8, <2>2
        <3> QED
            BY <1>1, <1>7, <3>1, AttributedTypes
    <2> QED
        BY <2>1, <2>2
<1>9. ASSUME NEW t \in BootServers
      PROVE  /\ srv'[t].st = "starting" => t = waiting \/ t \in failed
             /\ srv'[t].st = "dead" /\ srv'[t].port = 0 => t \in failed \/ t \in errc'
    <2>1. CASE t = s
        BY <1>1, <1>2, <1>9, <2>1 DEF BootServers
    <2>2. CASE t # s
        BY <1>1, <1>3, <1>9, <2>2 DEF Attributed
    <2> QED
        BY <2>1, <2>2
<1>10. ASSUME NEW p \in blame, p[2] # 0
       PROVE  /\ p[2] <= nsrv /\ srv'[p[2]].st = "dead" /\ p[2] \notin errc'
              /\ p[2] = p[1] \/ LateError(p[2])'
              /\ \A q \in blame : q[2] = p[2] => q = p
    <2>1. /\ p[2] \in 1..nsrv /\ p[2] <= nsrv /\ srv[p[2]].st = "dead" /\ p[2] \notin errc
          /\ p[2] = p[1] \/ LateError(p[2])
          /\ \A q \in blame : q[2] = p[2] => q = p
        BY <1>10, AttributedTypes DEF Attributed
    <2> QED
        BY <1>1, <1>6, <2>1
<1>11. waiting # 0 => waiting <= nsrv /\ srv'[waiting].st # "built"
    BY <1>5, AttributedTypes DEF Attributed
<1>12. \A t \in failed : t <= nsrv /\ srv'[t].st # "built"
    BY <1>5, AttributedTypes DEF Attributed
<1>13. phase \in PageUp => \A t \in 1..nsrv : srv'[t].st # "built"
    BY <1>5 DEF Attributed
<1>14. (phase # "bind" => waiting = 0) /\ failed = {p[1] : p \in blame}
    BY DEF Attributed
<1> QED
    BY <1>1, <1>3, <1>4, <1>8, <1>9, <1>10, <1>11, <1>12, <1>13, <1>14 DEF Attributed

LEMMA AttributedStep ==
    ASSUME IInv, ServerInv, Attributed, Next PROVE Attributed'
<1>0. /\ nsrv \in Nat /\ phase \in Phases
      /\ \A s \in 1..nsrv : srv[s] \in SrvType /\ s # 0
    BY AttributedTypes DEF IInv, TypeOK, TypeStartup
<1>1. CASE UNCHANGED <<nsrv, srv, phase, waiting, failed, errc, blame>>
    BY <1>1 DEF Attributed, BootServers, LateError
<1>2. CASE Boot \/ BuildDone \/ PublishResponder \/ WireFrontEnds
    <2>1. /\ UNCHANGED <<nsrv, srv, waiting, failed, errc, blame>> /\ phase # "bind"
          /\ phase' \in PageUp => phase \in PageUp
          /\ phase' \in {"down", "build"} => phase \in {"down", "build"}
        BY <1>2 DEF Boot, BuildDone, PublishResponder, WireFrontEnds, net, PageUp
    <2> QED
        BY <2>1 DEF Attributed, BootServers, LateError
<1>3. CASE BindStart
    <2> DEFINE n == NextToStart
    <2>1. /\ phase' = "bind" /\ phase = "bind" /\ waiting = 0 /\ waiting' = n
          /\ UNCHANGED <<failed, errc, blame, nsrv>>
          /\ n \in 1..nsrv /\ srv[n].st = "built"
          /\ \A t \in 1..nsrv : t # n => srv'[t] = srv[t]
        BY <1>3, BindStartFacts DEF BindStart
    <2>2. srv'[n].st = "starting" /\ srv'[n].by = srv[n].by /\ srv'[n].port = srv[n].port
        BY <1>0, <1>3, <2>1, BindStartFacts DEF SrvType
    <2> HIDE DEF n
    <2>3. BootServers' = BootServers /\ BootServers \subseteq 1..nsrv
        BY <2>1, <2>2 DEF BootServers
    <2>4. \A t \in 1..nsrv : srv[t].st # "built" => t # n /\ srv'[t] = srv[t]
        BY <2>1
    <2>5. ASSUME NEW e \in 1..nsrv, LateError(e), srv[e].st = "dead" PROVE LateError(e)'
        BY <2>1, <2>4, <2>5, LateStays
    <2>6. ASSUME NEW e \in errc
          PROVE  e <= nsrv /\ srv'[e].by = "boot" /\ srv'[e].st = "dead" /\ LateError(e)'
        <3>1. e \in 1..nsrv /\ e # 0
            BY <2>6, AttributedTypes
        <3>2. e <= nsrv /\ srv[e].by = "boot" /\ srv[e].st = "dead" /\ LateError(e)
            BY <2>1, <2>6, <3>1 DEF Attributed
        <3> QED
            BY <2>4, <2>5, <3>1, <3>2
    <2>7. ASSUME NEW s \in BootServers
          PROVE  /\ srv'[s].st = "starting" => s = n \/ s \in failed
                 /\ srv'[s].st = "dead" /\ srv'[s].port = 0 => s \in failed \/ s \in errc
        <3>1. s \in 1..nsrv /\ s # 0
            BY <1>0, <2>3, <2>7
        <3> QED
            BY <2>1, <2>2, <2>7, <3>1 DEF Attributed
    <2>8. ASSUME NEW p \in blame, p[2] # 0
          PROVE  /\ p[2] <= nsrv /\ srv'[p[2]].st = "dead" /\ p[2] \notin errc
                 /\ p[2] = p[1] \/ LateError(p[2])'
                 /\ \A q \in blame : q[2] = p[2] => q = p
        <3>1. /\ p[2] \in 1..nsrv /\ p[2] <= nsrv /\ srv[p[2]].st = "dead" /\ p[2] \notin errc
              /\ p[2] = p[1] \/ LateError(p[2])
              /\ \A q \in blame : q[2] = p[2] => q = p
            BY <2>8, AttributedTypes DEF Attributed
        <3> QED
            BY <2>4, <2>5, <3>1
    <2>9. \A t \in failed : t <= nsrv /\ srv'[t].st # "built"
        BY <2>4, AttributedTypes DEF Attributed
    <2>10. phase' \notin PageUp /\ phase' \notin {"down", "build"} /\ n <= nsrv
           /\ failed = {p[1] : p \in blame}
        BY <1>0, <2>1 DEF PageUp, Attributed
    <2> QED
        BY <2>1, <2>2, <2>3, <2>6, <2>7, <2>8, <2>9, <2>10 DEF Attributed
<1>4. CASE BindOk
    <2>1. phase = "bind" /\ phase' = phase /\ waiting' = 0 /\ srv[waiting].port # 0
          /\ UNCHANGED <<failed, errc, blame, nsrv, srv>>
        BY <1>4 DEF BindOk, net
    <2>2. LateError(waiting) /\ \A x : LateError(x) => LateError(x)'
        BY <2>1 DEF LateError
    <2>3. \A s \in 1..nsrv : srv[s].st = "starting" => s # waiting
        BY <2>1 DEF ServerInv, PortsOfBound
    <2>4. BootServers' = BootServers /\ BootServers \subseteq 1..nsrv
        BY <2>1 DEF BootServers
    <2>5. \A e \in errc : LateError(e)'
        BY <2>2 DEF Attributed
    <2>6. \A p \in blame : p[2] # 0 => p[2] = p[1] \/ LateError(p[2])'
        BY <2>2 DEF Attributed
    <2> QED
        BY <2>1, <2>3, <2>4, <2>5, <2>6 DEF Attributed, PageUp
<1>5. CASE BindErr
    <2>1. PICK e \in errc : BindFails(e, errc \ {e})
        BY <1>5 DEF BindErr
    <2> QED
        BY <2>1, WaitFails
<1>6. CASE BindTimeout
    <2>1. 0 \notin errc
        BY AttributedTypes
    <2>2. errc \ {0} = errc
        BY <2>1
    <2> QED
        BY <1>6, <2>2, WaitFails DEF BindTimeout
<1>7. CASE Settle
    <2>1. waiting = 0 /\ Unstarted = {} /\ phase' = "page"
          /\ UNCHANGED <<waiting, failed, errc, blame, nsrv, srv>>
        BY <1>7 DEF Settle, SettleRows, net
    <2>2. \A s \in 1..nsrv : srv[s].st # "built"
        BY <2>1 DEF Unstarted
    <2> QED
        BY <2>1, <2>2 DEF Attributed, BootServers, LateError, PageUp
<1>8. ASSUME NEW s \in 1..nsrv, Runs(s) PROVE Attributed'
    BY <1>8, WaitSeesRun
<1>9. ASSUME NEW i \in Instances, OpenEntry(i), Added("built", PortOf(i), "boot") PROVE Attributed'
    <2>1. phase = "build" /\ UNCHANGED <<phase, waiting, failed, errc, blame>>
        BY <1>9 DEF OpenEntry
    <2>2. waiting = 0 /\ \A s \in 1..nsrv : srv[s].st = "built"
        BY <2>1 DEF Attributed
    <2>3. errc = {} /\ failed = {}
        BY <2>2, AttributedTypes DEF Attributed
    <2>4. blame = {}
        BY <2>3, AttributedTypes
    <2>5. srv'[nsrv + 1].st = "built" /\ nsrv' = nsrv + 1
        <3>1. srv'[nsrv + 1] = [st |-> "built", want |-> PortOf(i), by |-> "boot", port |-> 0,
                                win |-> IF PortOf(i) = 0 THEN scanCount ELSE 0]
            BY <1>9, AddedFacts
        <3> QED
            BY <1>9, <3>1, AddedFacts
    <2>6. \A s \in 1..nsrv' : srv'[s].st = "built"
        BY <1>9, <2>2, <2>5, AddedFacts
    <2>7. BootServers' \subseteq 1..nsrv'
        BY DEF BootServers
    <2> QED
        BY <2>1, <2>2, <2>3, <2>4, <2>6, <2>7 DEF Attributed, PageUp
<1>10. CASE StartServer /\ Added("starting", op.port, Creator)
    <2>1. phase \in PageUp /\ UNCHANGED <<phase, waiting, failed, errc, blame>>
        BY <1>10 DEF StartServer, StartServerAt, Enabling, IInv, OpSane, startup
    <2>2. /\ srv'[nsrv + 1].st = "starting" /\ srv'[nsrv + 1].by # "boot"
          /\ nsrv' = nsrv + 1
        <3>1. srv'[nsrv + 1] = [st |-> "starting", want |-> op.port, by |-> Creator, port |-> 0,
                                win |-> IF op.port = 0 THEN scanCount ELSE 0]
            BY <1>10, AddedFacts
        <3> QED
            BY <1>10, <3>1, AddedFacts, PageStarters
    <2>3. /\ \A s \in 1..nsrv : s \in 1..nsrv' /\ srv'[s] = srv[s] /\ s <= nsrv'
          /\ \A s \in 1..nsrv' : s \in 1..nsrv \/ s = nsrv + 1
        <3>1. nsrv' = nsrv + 1 /\ nsrv \in Nat
            BY <1>0, <2>2
        <3>2. \A s \in 1..nsrv : srv'[s] = srv[s]
            BY <1>10, AddedFacts
        <3> QED
            BY <3>1, <3>2
    <2>4. BootServers' = BootServers /\ BootServers \subseteq 1..nsrv
        BY <2>2, <2>3 DEF BootServers
    <2>5. \A x \in 1..nsrv : LateError(x) => LateError(x)'
        BY <2>1, <2>3, LateStays
    <2>6. waiting = 0 /\ phase # "bind" /\ phase \notin {"down", "build"}
        BY <2>1 DEF Attributed, PageUp
    <2>7. \A s \in 1..nsrv' : srv'[s].st # "built"
        BY <2>1, <2>2, <2>3 DEF Attributed
    <2>8. ASSUME NEW e \in errc
          PROVE  e <= nsrv' /\ srv'[e].by = "boot" /\ srv'[e].st = "dead" /\ (e = waiting \/ LateError(e)')
        BY <2>3, <2>5, <2>8, AttributedTypes DEF Attributed
    <2>9. ASSUME NEW p \in blame, p[2] # 0
          PROVE  /\ p[2] <= nsrv' /\ srv'[p[2]].st = "dead" /\ p[2] \notin errc
                 /\ p[2] = p[1] \/ LateError(p[2])'
                 /\ \A q \in blame : q[2] = p[2] => q = p
        <3>1. /\ p[2] \in 1..nsrv /\ p[2] <= nsrv /\ srv[p[2]].st = "dead" /\ p[2] \notin errc
              /\ p[2] = p[1] \/ LateError(p[2])
              /\ \A q \in blame : q[2] = p[2] => q = p
            BY <2>9, AttributedTypes DEF Attributed
        <3> QED
            BY <2>3, <2>5, <3>1
    <2>10. \A s \in failed : s <= nsrv' /\ srv'[s].st # "built"
        BY <2>3, <2>7, AttributedTypes
    <2>11. ASSUME NEW s \in BootServers
           PROVE  /\ srv'[s].st = "starting" => s = waiting \/ s \in failed
                  /\ srv'[s].st = "dead" /\ srv'[s].port = 0 => s \in failed \/ s \in errc
        BY <2>3, <2>4, <2>11 DEF Attributed
    <2>12. failed = {p[1] : p \in blame}
        BY DEF Attributed
    <2> QED
        BY <2>1, <2>4, <2>6, <2>7, <2>8, <2>9, <2>10, <2>11, <2>12 DEF Attributed
<1>11. CASE ProcessGone
    BY <1>11 DEF ProcessGone, Attributed, BootServers, PageUp
<1> QED
    BY <1>1, <1>2, <1>3, <1>4, <1>5, <1>6, <1>7, <1>8, <1>9, <1>10, <1>11, StartStep

LEMMA WaitsAreRight == Spec => []Attributed
<1>1. Attributed /\ UNCHANGED vars => Attributed'
    BY DEF vars, net, startup, Attributed, BootServers, LateError
<1>2. IInv /\ ServerInv /\ Attributed /\ [Next]_vars => Attributed'
    BY <1>1, AttributedStep
<1>3. Init => Attributed
    BY StartInit
<1> QED
    BY <1>2, <1>3, Inductive, ServersRight, PTL DEF Spec

\* All start-up servers report on one channel, with a deadline on every wait and bound
\* servers that may die.  A wait ends with the error of its own server, or with one
\* that came late: from a server that was bound, or whose own wait had already ended.
\* No error ends two waits, no server that never bound is taken for a served one, and
\* the error that ends the process in the final select is a late one.
THEOREM FailuresAttributed == Spec => []ErrorsAttributed
<1>1. ASSUME IInv, Attributed PROVE ErrorsAttributed
    <2>1. \A p \in blame : p[2] # 0 =>
              /\ srv[p[2]].st = "dead"
              /\ p[2] = p[1] \/ LateError(p[2])
              /\ \A q \in blame : q[2] = p[2] => q = p
        BY <1>1 DEF Attributed
    <2>2. ASSUME phase \in PageUp
          PROVE  /\ \A e \in errc : LateError(e)
                 /\ \A s \in BootServers : srv[s].st = "dead" /\ srv[s].port = 0 => s \in failed
        <3>1. waiting = 0
            BY <1>1, <2>2 DEF Attributed, PageUp
        <3>2. \A e \in errc : e \in 1..nsrv /\ e # 0
            BY <1>1, AttributedTypes
        <3>3. \A e \in errc : LateError(e)
            BY <1>1, <3>1, <3>2 DEF Attributed
        <3>4. ASSUME NEW s \in BootServers, srv[s].st = "dead", srv[s].port = 0, s \notin failed
              PROVE  FALSE
            <4>1. s \in errc
                BY <1>1, <3>4 DEF Attributed
            <4>2. PICK f : <<s, f>> \in blame
                BY <3>3, <3>4, <4>1 DEF LateError
            <4> QED
                BY <1>1, <3>4, <4>2, AttributedTypes
        <3> QED
            BY <3>3, <3>4
    <2> QED
        BY <1>1, <2>1, <2>2 DEF ErrorsAttributed, Attributed, PageUp
<1> QED
    BY <1>1, Inductive, WaitsAreRight, PTL

\* startOne takes a server that scans only when none with a fixed port is left.
LEMMA FixedGoFirst ==
    ASSUME IInv, BindStart, NEW t \in 1..nsrv, srv[t].want # 0, srv[t].st = "built"
    PROVE  srv[NextToStart].want # 0
<1>1. t \in FixedUnstarted /\ FixedUnstarted \subseteq Unstarted /\ Unstarted \subseteq 1..nsrv
    BY DEF FixedUnstarted, Unstarted
<1>2. FixedUnstarted \in SUBSET (Nat \union {Flat}) /\ FixedUnstarted # {}
    BY <1>1 DEF IInv, TypeOK, TypeNet
<1>3. NextToStart \in FixedUnstarted
    BY <1>2, FirstIsLeast DEF NextToStart
<1> QED
    BY <1>3 DEF FixedUnstarted

LEMMA FixedFirstStep ==
    ASSUME IInv, ServerInv, Attributed, FixedFirst, Next PROVE FixedFirst'
<1>0. /\ \A s \in 1..nsrv : srv[s] \in SrvType /\ s \in ServerIds
      /\ nsrv \in Nat /\ phase \in Phases
    BY DEF IInv, TypeOK, TypeNet, TypeStartup, ServerIds
<1>1. CASE UNCHANGED <<nsrv, srv, phase, waiting, failed, errc, blame>> /\ (phase \notin PageUp => byPort' = byPort)
    BY <1>1 DEF FixedFirst, BootServers, ScanServers, PageUp
<1>2. CASE Boot \/ BuildDone \/ PublishResponder \/ WireFrontEnds
    <2>1. UNCHANGED <<nsrv, srv, byPort, waiting>>
        BY <1>2 DEF Boot, BuildDone, PublishResponder, WireFrontEnds, net, book
    <2>2. /\ phase' = "build" => phase = "down"
          /\ phase' \notin PageUp => phase \notin PageUp
        BY <1>2 DEF Boot, BuildDone, PublishResponder, WireFrontEnds, PageUp
    <2> QED
        <3>1. CASE phase = "down"
            <4>1. nsrv = 0 /\ nsrv' = 0
                BY <2>1, <3>1 DEF FixedFirst
            <4> QED
                BY <4>1 DEF FixedFirst, BootServers, ScanServers
        <3>2. CASE phase # "down"
            <4>1. phase' # "down" /\ phase' # "build"
                BY <1>2, <2>2, <3>2 DEF Boot, BuildDone, PublishResponder, WireFrontEnds
            <4> QED
                BY <2>1, <2>2, <4>1 DEF FixedFirst, BootServers, ScanServers
        <3> QED
            BY <3>1, <3>2
<1>3. CASE BindStart
    <2> DEFINE n == NextToStart
    <2>1. /\ phase' = "bind" /\ phase = "bind" /\ waiting' = n /\ nsrv' = nsrv
          /\ n \in 1..nsrv /\ srv[n].st = "built"
        BY <1>3, BindStartFacts DEF BindStart
    <2>2. /\ srv'[n].st = "starting" /\ \A t \in 1..nsrv : t # n => srv'[t] = srv[t]
          /\ srv'[n].want = srv[n].want /\ srv'[n].by = srv[n].by
        BY <1>0, <1>3, <2>1, BindStartFacts DEF SrvType
    <2>3. \A t \in 1..nsrv : srv[t].want # 0 /\ srv[t].st = "built" => srv[n].want # 0
        BY <1>3, FixedGoFirst
    <2> HIDE DEF n
    <2>4. ASSUME NEW s \in ScanServers', NEW t \in (1..nsrv') \ ScanServers'
          PROVE  /\ srv'[s].st = "built" \/ srv'[t].st # "built"
                 /\ t = waiting' => srv'[s].st = "built"
        <3>1. /\ s \in ScanServers /\ t \in (1..nsrv) \ ScanServers /\ s # t
              /\ srv[s].want = 0 /\ srv[t].want # 0 /\ s \in 1..nsrv /\ t \in 1..nsrv
            BY <2>1, <2>2 DEF ScanServers
        <3>2. srv[s].st = "built" \/ srv[t].st # "built"
            BY <2>1, <3>1 DEF FixedFirst, PageUp
        <3> QED
            BY <2>1, <2>2, <2>3, <3>1, <3>2
    <2>5. \A s \in 1..nsrv : srv'[s].want = srv[s].want /\ srv'[s].by = srv[s].by
        BY <2>2
    <2>6. \A s \in 1..nsrv : srv'[s].st = "bound" => srv'[s] = srv[s]
        BY <2>2
    <2>7. BootServers' = BootServers
        BY <2>1, <2>5 DEF BootServers
    <2>8. BootServers \subseteq 1..nsrv
        BY DEF BootServers
    <2> QED
        BY <2>1, <2>4, <2>5, <2>6, <2>7, <2>8 DEF FixedFirst
<1>4. CASE BindOk \/ BindErr \/ BindTimeout
    <2>1. phase' = phase /\ phase = "bind" /\ waiting' = 0 /\ UNCHANGED <<nsrv, srv, byPort>>
        BY <1>4 DEF BindOk, BindErr, BindTimeout, BindFails, net, book
    <2>2. ScanServers' = ScanServers /\ BootServers' = BootServers
        BY <2>1 DEF ScanServers, BootServers
    <2>3. \A t \in 1..nsrv : t # 0
        BY <1>0
    <2> QED
        BY <2>1, <2>2, <2>3 DEF FixedFirst
<1>5. CASE Settle
    <2>1. phase' = "page" /\ UNCHANGED <<nsrv, srv>>
        BY <1>5 DEF Settle, SettleRows, net
    <2> QED
        BY <2>1 DEF FixedFirst, BootServers, PageUp
<1>6. ASSUME NEW n \in 1..nsrv, Runs(n) PROVE FixedFirst'
    <2>1. /\ phase' = phase /\ waiting' = waiting /\ nsrv' = nsrv /\ byPort' = byPort
          /\ srv[n].st # "built" /\ srv'[n].st # "built"
          /\ \A t \in 1..nsrv : t # n => srv'[t] = srv[t]
          /\ srv'[n].want = srv[n].want /\ srv'[n].by = srv[n].by
        BY <1>6, RunsFacts, ReportFacts
    <2>2. srv'[n].st = "bound" /\ srv'[n].want # 0 => srv'[n].port = srv'[n].want
        BY <1>6, <2>1, RunsFacts DEF Candidates
    <2>3. \A s \in 1..nsrv : srv'[s].want = srv[s].want /\ srv'[s].by = srv[s].by
        BY <2>1
    <2>4. BootServers' = BootServers /\ ScanServers' = ScanServers /\ BootServers \subseteq 1..nsrv
        BY <2>1, <2>3 DEF BootServers, ScanServers
    <2>5. ASSUME phase \notin PageUp, NEW s \in ScanServers, NEW t \in (1..nsrv) \ ScanServers
          PROVE  /\ srv'[s].st = "built" \/ srv'[t].st # "built"
                 /\ t = waiting => srv'[s].st = "built"
        <3>1. s \in 1..nsrv /\ t \in 1..nsrv /\ s # t
            BY <2>5 DEF ScanServers
        <3>2. /\ srv[s].st = "built" \/ srv[t].st # "built"
              /\ t = waiting => srv[s].st = "built"
            BY <2>5 DEF FixedFirst
        <3> QED
            BY <2>1, <3>1, <3>2
    <2>6. \A s \in 1..nsrv : srv'[s].st = "bound" /\ srv'[s].want # 0 => srv'[s].port = srv'[s].want
        BY <2>1, <2>2 DEF FixedFirst
    <2>7. /\ phase = "down" => nsrv = 0
          /\ \A s, t \in BootServers : srv'[s].want = srv'[t].want /\ srv'[s].want # 0 => s = t
          /\ phase = "build" => \A s \in 1..nsrv : srv'[s].want # 0 => byPort[srv'[s].want] = s
        BY <2>3, <2>4 DEF FixedFirst
    <2> QED
        BY <2>1, <2>4, <2>5, <2>6, <2>7 DEF FixedFirst, PageUp
<1>7. ASSUME NEW i \in Instances, OpenEntry(i), Added("built", PortOf(i), "boot") PROVE FixedFirst'
    <2>1. phase = "build" /\ UNCHANGED <<phase, waiting>> /\ waiting = 0
        BY <1>7 DEF OpenEntry, Attributed
    <2>2. /\ srv'[nsrv + 1].st = "built" /\ srv'[nsrv + 1].want = PortOf(i) /\ srv'[nsrv + 1].by = "boot"
          /\ nsrv' = nsrv + 1
        <3>1. srv'[nsrv + 1] = [st |-> "built", want |-> PortOf(i), by |-> "boot", port |-> 0,
                                win |-> IF PortOf(i) = 0 THEN scanCount ELSE 0]
            BY <1>7, AddedFacts
        <3> QED
            BY <1>7, <3>1, AddedFacts
    <2>3. \A s \in 1..nsrv' : (s \in 1..nsrv /\ srv'[s] = srv[s]) \/ s = nsrv + 1
        BY <1>7, AddedFacts
    <2>4. \A s \in 1..nsrv' : srv'[s].st = "built"
        BY <2>1, <2>2, <2>3 DEF Attributed
    <2>5. /\ byPort' = [byPort EXCEPT ![EntryKey(i)] = nsrv + 1] /\ EntryKey(i) \in Keys
          /\ byPort \in [Keys -> 0..MaxServers]
        <3>1. nsrv' # nsrv
            BY <1>0, <2>2
        <3> QED
            BY <1>7, <3>1, EntryKeyType DEF OpenEntry, EntryKey, net, IInv, TypeOK, TypeBook
    <2>6. ASSUME NEW s \in 1..nsrv', srv'[s].want # 0 PROVE byPort'[srv'[s].want] = s
        <3>1. CASE s = nsrv + 1
            BY <2>2, <2>5, <2>6, <3>1 DEF EntryKey
        <3>2. CASE s \in 1..nsrv /\ srv'[s] = srv[s]
            <4>1. byPort[srv[s].want] = s /\ srv[s].want \in Ports
                BY <1>0, <2>1, <2>6, <3>2 DEF FixedFirst, SrvType
            <4>2. CASE PortOf(i) = 0
                <5>1. EntryKey(i) = -1 - scanCount /\ scanCount \in Nat
                    BY <4>2 DEF EntryKey, IInv, TypeOK, TypeBook
                <5>2. srv[s].want \in Nat /\ srv[s].want # EntryKey(i)
                    <6>1. srv[s].want \in Nat
                        BY <4>1
                    <6> QED
                        BY <5>1, <6>1
                <5>3. srv[s].want \in Keys
                    BY <4>1 DEF Keys
                <5> QED
                    BY <2>5, <3>2, <4>1, <5>2, <5>3
            <4>3. CASE PortOf(i) # 0
                <5>1. byPort[PortOf(i)] = 0 /\ EntryKey(i) = PortOf(i)
                    <6>1. nsrv' # nsrv
                        BY <1>0, <2>2
                    <6> QED
                        BY <1>7, <4>3, <6>1 DEF OpenEntry, HasServer, EntryKey, net
                <5>2. srv[s].want # PortOf(i) /\ srv[s].want \in Keys
                    BY <1>0, <3>2, <4>1, <5>1 DEF Keys, ServerIds
                <5> QED
                    BY <2>5, <3>2, <4>1, <5>1, <5>2
            <4> QED
                BY <4>2, <4>3
        <3> QED
            BY <2>3, <3>1, <3>2
    <2>7. BootServers' \subseteq 1..nsrv' /\ ScanServers' \subseteq 1..nsrv'
        BY DEF BootServers, ScanServers
    <2>8. \A s, t \in BootServers' : srv'[s].want = srv'[t].want /\ srv'[s].want # 0 => s = t
        BY <2>6, <2>7
    <2>9. \A t \in 1..nsrv' : t # waiting'
        BY <1>0, <2>1, <2>2
    <2> QED
        BY <2>1, <2>4, <2>6, <2>7, <2>8, <2>9 DEF FixedFirst
<1>8. CASE StartServer /\ Added("starting", op.port, Creator)
    <2>1. phase \in PageUp /\ phase' = phase
        BY <1>8 DEF StartServer, StartServerAt, Enabling, IInv, OpSane, startup
    <2>2. srv'[nsrv + 1].st = "starting" /\ srv'[nsrv + 1].by # "boot"
        <3>1. srv'[nsrv + 1] = [st |-> "starting", want |-> op.port, by |-> Creator, port |-> 0,
                                win |-> IF op.port = 0 THEN scanCount ELSE 0]
            BY <1>8, AddedFacts
        <3> QED
            BY <3>1, PageStarters
    <2>3. \A s \in 1..nsrv' : (s \in 1..nsrv /\ srv'[s] = srv[s]) \/ s = nsrv + 1
        BY <1>8, AddedFacts
    <2>4. \A s \in 1..nsrv' : srv'[s].st = "bound" /\ srv'[s].want # 0 => srv'[s].port = srv'[s].want
        BY <2>2, <2>3 DEF FixedFirst
    <2>5. \A s \in BootServers' : s \in BootServers /\ srv'[s] = srv[s]
        BY <2>2, <2>3 DEF BootServers
    <2>6. phase' # "down" /\ phase' # "build" /\ phase' \in PageUp
        BY <2>1 DEF PageUp
    <2> QED
        BY <2>4, <2>5, <2>6 DEF FixedFirst
<1>9. CASE ProcessGone
    BY <1>9 DEF ProcessGone, FixedFirst, ScanServers, BootServers
<1> QED
    BY <1>1, <1>2, <1>3, <1>4, <1>5, <1>6, <1>7, <1>8, <1>9, StartStep

\* A fixed port that start-up fails to bind while it waits for it is in another
\* program's hands: servers of the herd neither ask for the same port twice nor scan
\* before it is bound, whichever waits were given up and whichever servers died.
THEOREM FixedPortsWin == Spec => FixedPortsFirst
<1> DEFINE Lost == \A s \in 1..nsrv :
              srv[s].st = "starting" /\ s = waiting /\ srv[s].want # 0 /\ srv'[s].st = "dead"
                  => srv[s].want \in busy
<1>1. ASSUME IInv, ServerInv, Attributed, FixedFirst, Next PROVE Lost
    <2> SUFFICES ASSUME NEW s \in 1..nsrv, srv[s].st = "starting", s = waiting,
                        srv[s].want # 0, srv'[s].st = "dead", srv[s].want \notin busy
                 PROVE  FALSE
        OBVIOUS
    <2>0. /\ \A t \in 1..nsrv : srv[t] \in SrvType /\ t \in ServerIds
          /\ nsrv \in Nat /\ phase \in Phases
        BY <1>1 DEF IInv, TypeOK, TypeNet, TypeStartup, ServerIds
    <2>1. ServerFails(s)
        <3>1. CASE \E t \in 1..nsrv : Runs(t)
            <4>1. PICK t \in 1..nsrv : Runs(t)
                BY <3>1
            <4>2. t = s
                BY <1>1, <4>1, RunsFacts
            <4>3. ~ServerBinds(s)
                <5> SUFFICES ASSUME ServerBinds(s) PROVE FALSE
                    OBVIOUS
                <5>1. PICK p : Outcome(s, "bound", p)
                    BY DEF ServerBinds
                <5> QED
                    BY <1>1, <5>1 DEF Outcome, IInv, TypeOK, TypeNet, ServerIds
            <4>4. srv[s].st # "bound"
                OBVIOUS
            <4> QED
                BY <4>1, <4>2, <4>3, <4>4 DEF Runs, ServerDies
        <3>2. CASE BindStart
            <4>1. srv[NextToStart].st = "built" /\ \A t \in 1..nsrv : t # NextToStart => srv'[t] = srv[t]
                BY <1>1, <3>2, BindStartFacts
            <4> QED
                BY <4>1
        <3>3. ASSUME NEW st, NEW want, NEW by, Added(st, want, by) PROVE FALSE
            BY <1>1, <3>3, AddedFacts
        <3>5. CASE UNCHANGED <<nsrv, srv, scanCount>>
            BY <3>5
        <3>4. CASE ProcessGone
            BY <2>0, <3>4 DEF ProcessGone, NoServer
        <3> QED
            BY <1>1, <3>1, <3>2, <3>3, <3>4, <3>5, ServersStep
    <2>2. ~FreePort(srv[s].want)
        BY <2>1 DEF ServerFails, Candidates
    <2>3. PICK t \in ServerIds : srv[t].st = "bound" /\ srv[t].port = srv[s].want
        BY <2>2 DEF FreePort
    <2>4. phase = "bind"
        BY <1>1, <2>0 DEF Attributed
    <2>5. t \in 1..nsrv
        BY <1>1, <2>0, <2>3 DEF ServerInv, OnlyCreatedRun, ServerIds
    <2>6. srv[t].by = "boot" /\ srv[s].by = "boot" /\ t # s
        BY <1>1, <2>0, <2>3, <2>4, <2>5 DEF IInv, ServersPorted, PageUp
    <2>7. srv[t].want # 0
        BY <1>1, <2>3, <2>4, <2>5 DEF FixedFirst, ScanServers, PageUp
    <2> QED
        BY <1>1, <2>3, <2>5, <2>6, <2>7 DEF FixedFirst, BootServers
<1>2. FixedFirst /\ UNCHANGED vars => FixedFirst'
    BY DEF vars, startup, net, book, FixedFirst, ScanServers, BootServers
<1>3. IInv /\ ServerInv /\ Attributed /\ FixedFirst /\ [Next]_vars => FixedFirst'
    BY <1>2, FixedFirstStep
<1>4. Init => FixedFirst
    BY StartInit
<1>5. IInv /\ ServerInv /\ Attributed /\ FixedFirst /\ [Next]_vars => [Lost]_vars
    BY <1>1
<1> HIDE DEF Lost
<1>6. Spec => [][Lost]_vars
    BY <1>3, <1>4, <1>5, Inductive, ServersRight, WaitsAreRight, PTL DEF Spec
<1> QED
    BY <1>6 DEF FixedPortsFirst, Lost

-----------------------------------------------------------------------------
(* How a step changes the rows and the operation that holds mu.             *)

\* At most, devices are reloaded, serve goes on, or an operation ends that has no
\* rows to take away.
Quiet ==
    /\ UNCHANGED <<file, saved, live, fronts, byPort>>
    /\ \E D \in SUBSET regs : regs' = Reloaded(D)
    /\ op' = op \/ (op' = Idle /\ op.kind \in {"build", "enable"})
    /\ phase = "down" \/ todo' \subseteq todo
    /\ phase' # "down" \/ phase = "down"
    /\ phase' = "build" => phase \in {"down", "build"}
    /\ phase' = "serving" <=> phase = "serving"
    /\ phase' \in PageUp <=> phase \in PageUp
    /\ failed \subseteq failed'
    /\ scanCount' = scanCount

\* A block gets neither a device nor a row.
Refused == BuildBlockRefused \/ BuildRegisterFails

\* An enable that fails writes the switch back; its rows stay.
Abandoned ==
    /\ Enabling /\ SetFile(op.inst, FALSE) /\ op' = Idle
    /\ UNCHANGED <<saved, startup, byPort, scanCount, regs, live, fronts>>

LEMMA NothingReloaded == regs' = regs => \E D \in SUBSET regs : regs' = Reloaded(D)
<1> SUFFICES ASSUME regs' = regs PROVE regs' = Reloaded({})
    OBVIOUS
<1>1. Reloaded({}) = regs
    BY DEF Reloaded
<1> QED
    BY <1>1

LEMMA RowsStep ==
    ASSUME IInv, Next
    PROVE  \/ Quiet
           \/ \E i \in Instances : OpenEntry(i)
           \/ BuildBlock \/ Refused \/ BuildAttachFails
           \/ Settle \/ WireFrontEnds
           \/ \E i \in Instances : EnableBegin(i) \/ DisableBegin(i) \/ EditSave(i)
           \/ ReuseServer \/ StartServer \/ AwaitOk
           \/ Abandoned \/ EnableAttachFails \/ EnableBlock
           \/ DisableBlock \/ UnregisterFails \/ DisableDone
           \/ ProcessGone
<1> DEFINE Goal ==
           \/ Quiet
           \/ \E i \in Instances : OpenEntry(i)
           \/ BuildBlock \/ Refused \/ BuildAttachFails
           \/ Settle \/ WireFrontEnds
           \/ \E i \in Instances : EnableBegin(i) \/ DisableBegin(i) \/ EditSave(i)
           \/ ReuseServer \/ StartServer \/ AwaitOk
           \/ Abandoned \/ EnableAttachFails \/ EnableBlock
           \/ DisableBlock \/ UnregisterFails \/ DisableDone
           \/ ProcessGone
<1>1. CASE Startup
    <2>1. CASE Boot \/ (\E i \in Instances : SkipDisabled(i)) \/ CloseEntry \/ BuildDone \/ BindStart
        BY <2>1, NothingReloaded DEF Boot, SkipDisabled, CloseEntry, BuildDone, BindStart, Quiet, disk, startup,
           book, page, PageUp
    <2>2. CASE BindOk \/ BindErr \/ BindTimeout \/ PublishResponder
        BY <2>2, NothingReloaded DEF BindOk, BindErr, BindTimeout, BindFails, PublishResponder,
           Quiet, disk, book, page, PageUp
    <2> QED
        BY <1>1, <2>1, <2>2 DEF Startup, Refused
<1>2. CASE SwitchSteps
    <2>1. CASE AwaitFails \/ EnableBuildFails \/ EnableNumberTaken \/ EnableRegisterFails
        BY <2>1 DEF AwaitFails, AwaitEndsIf, EnableBuildFails, EnableNumberTaken,
           EnableRegisterFails, Abandon, Abandoned, SwitchUnchanged
    <2>2. CASE EnableDone
        BY <2>2, NothingReloaded DEF EnableDone, Quiet, disk, startup, book
    <2> QED
        BY <1>2, <2>1, <2>2 DEF SwitchSteps
<1>3. CASE Servers \/ Others
    BY <1>3, NothingReloaded DEF Servers, Others, ServerBinds, ServerFails, ServerDies, OthersTake,
       OthersFree, EnvUnchanged, Quiet, disk, book, page
<1>4. CASE Requests
    <2>1. ASSUME NEW i \in Instances, RestartRequest(i) PROVE Goal
        BY <2>1, NothingReloaded DEF RestartRequest, Quiet, disk, startup, book, page
    <2> QED
        BY <1>4, <2>1 DEF Requests
<1>5. ASSUME NEW x \in pending.left, RestartStep(x) PROVE Goal
    <2>1. \E D \in SUBSET regs : regs' = Reloaded(D)
        BY <1>5, NothingReloaded DEF RestartStep, DevicesAt
    <2> QED
        BY <1>5, <2>1 DEF RestartStep, Quiet, disk, startup, book, page
<1>6. CASE Sighup
    <2>1. \E D \in SUBSET regs : regs' = Reloaded(D)
        BY <1>6 DEF Sighup
    <2> QED
        BY <1>6, <2>1 DEF Sighup, Quiet, disk, startup, book, page
<1>7. CASE Fatal \/ Stop
    BY <1>7 DEF Fatal, Stop
<1> QED
    BY <1>1, <1>2, <1>3, <1>4, <1>5, <1>6, <1>7 DEF Next

-----------------------------------------------------------------------------
(* One row per block, each on a server that keeps its key.                  *)

LEMMA RowInvInit == Init => RowInv
<1> SUFFICES ASSUME Init PROVE RowInv
    OBVIOUS
<1>1. \A k \in ServerIds : -k \in Keys
    BY DEF Keys
<1>2. KeysAhead
    BY <1>1 DEF Init, KeysAhead, Idle
<1>3. OneRow
    BY DEF Init, OneRow, Idle
<1> QED
    BY <1>2, <1>3 DEF RowInv

\* The block of the operation under way leaves the blocks to come.
LEMMA NextBlockFacts ==
    ASSUME IInv, op.kind \in {"build", "enable", "disable"}, NEW B, op' = [op EXCEPT !.blocks = B]
    PROVE  /\ op'.kind = op.kind /\ op'.inst = op.inst /\ op'.srv = op.srv /\ op'.key = op.key
           /\ op'.port = op.port /\ op'.blocks = B
<1>1. op \in OpType
    BY DEF IInv, TypeOK, TypeOp
<1> QED
    BY <1>1 DEF OpType

LEMMA KeysAheadStep == ASSUME IInv, RowInv, Next PROVE KeysAhead'
<1>0. /\ byPort \in [Keys -> 0..MaxServers] /\ op \in OpType /\ scanCount \in 0..MaxServers
      /\ \A k \in ServerIds : -k \in Keys
    BY DEF IInv, TypeOK, TypeBook, TypeOp, Keys
<1>1. CASE UNCHANGED <<byPort, scanCount>> /\ (op' = op \/ op' = Idle)
    BY <1>1 DEF RowInv, KeysAhead, NewKey, Idle
<1>2. CASE UNCHANGED <<byPort, scanCount>> /\ op'.kind # "enable"
    BY <1>2 DEF RowInv, KeysAhead
<1>3. CASE UNCHANGED <<byPort, scanCount>> /\ op'.srv = 0
    BY <1>3 DEF RowInv, KeysAhead
<1>4. ASSUME NEW i \in Instances, OpenEntry(i) PROVE KeysAhead'
    <2>1. op'.kind = "build"
        BY <1>4 DEF OpenEntry, Idle
    <2>2. CASE UNCHANGED <<byPort, scanCount>>
        BY <1>2, <2>1, <2>2
    <2>3. CASE ~UNCHANGED <<byPort, scanCount>>
        <3>1. /\ byPort' = [byPort EXCEPT ![EntryKey(i)] = nsrv + 1]
              /\ scanCount' = IF PortOf(i) = 0 THEN scanCount + 1 ELSE scanCount
            BY <1>4, <2>3 DEF OpenEntry, EntryKey
        <3>2. PortOf(i) \in Ports \union {0} /\ EntryKey(i) \in Keys
            BY <1>4, EntryKeyType
        <3>3. \A k \in ServerIds : byPort[-k] # 0 => k <= scanCount
            BY DEF RowInv, KeysAhead
        <3>4. ASSUME NEW k \in ServerIds, byPort'[-k] # 0 PROVE k <= scanCount'
            <4>1. CASE -k = EntryKey(i)
                BY <1>0, <3>1, <3>2, <4>1 DEF EntryKey, ServerIds
            <4>2. CASE -k # EntryKey(i)
                BY <1>0, <3>1, <3>3, <3>4, <4>2 DEF ServerIds
            <4> QED
                BY <4>1, <4>2
        <3> QED
            BY <2>1, <3>4 DEF KeysAhead
    <2> QED
        BY <2>2, <2>3
<1>5. CASE Settle
    <2>1. \A k \in Keys : byPort'[k] \in {0, byPort[k]}
        BY <1>5 DEF Settle, SettleRows
    <2>2. UNCHANGED <<scanCount, op>> /\ phase = "bind"
        BY <1>5 DEF Settle, SettleRows
    <2>3. op.kind # "enable"
        BY <2>2 DEF IInv, OpSane, PageUp
    <2> QED
        BY <1>0, <2>1, <2>2, <2>3 DEF RowInv, KeysAhead
<1>6. CASE StartServer
    <2>1. /\ op' = [op EXCEPT !.srv = nsrv + 1] /\ byPort' = byPort
          /\ scanCount' = IF op.port = 0 THEN scanCount + 1 ELSE scanCount
          /\ ~HasServer(op.port) /\ nsrv < MaxServers
        BY <1>6 DEF StartServer, StartServerAt, NewServer
    <2>2. scanCount + 1 \in ServerIds
        BY <1>0, <2>1 DEF IInv, Created, TypeOK, TypeNet, ServerIds
    <2>3. op'.port = op.port /\ op'.key = 0
        BY <1>0, <1>6, <2>1 DEF OpType, StartServer, StartServerAt
    <2>4. byPort[NewKey'] = 0
        <3>1. CASE op.port = 0
            <4>1. NewKey' = -(scanCount + 1)
                BY <2>1, <2>3, <3>1 DEF NewKey
            <4>2. byPort[-(scanCount + 1)] = 0
                BY <1>0, <2>2 DEF RowInv, KeysAhead
            <4> QED
                BY <4>1, <4>2
        <3>2. CASE op.port # 0
            BY <2>1, <2>3, <3>2 DEF NewKey, HasServer
        <3> QED
            BY <3>1, <3>2
    <2>5. \A k \in ServerIds : byPort[-k] # 0 => k <= scanCount'
        BY <1>0, <2>1 DEF RowInv, KeysAhead, ServerIds
    <2> QED
        BY <2>1, <2>3, <2>4, <2>5 DEF KeysAhead
<1>7. CASE AwaitOk
    <2>1. /\ byPort' = [byPort EXCEPT ![NewKey] = op.srv] /\ scanCount' = scanCount
          /\ op' = [op EXCEPT !.key = NewKey, !.srv = 0]
        BY <1>7 DEF AwaitOk, AwaitOkThen
    <2>2. op'.srv = 0
        BY <1>0, <2>1 DEF OpType
    <2>3. ASSUME NEW k \in ServerIds, byPort'[-k] # 0 PROVE k <= scanCount
        <3>1. CASE -k = NewKey
            <4>0. PICK p \in Ports \union {0} : p = op.port
                BY <1>0 DEF OpType
            <4>1. p \in Nat
                OBVIOUS
            <4>2. k \in Nat \ {0}
                BY DEF ServerIds
            <4> QED
                BY <1>0, <3>1, <4>0, <4>1, <4>2 DEF NewKey
        <3>2. CASE -k # NewKey
            BY <1>0, <2>1, <2>3, <3>2 DEF RowInv, KeysAhead
        <3> QED
            BY <3>1, <3>2
    <2> QED
        BY <2>1, <2>2, <2>3 DEF KeysAhead
<1>8. CASE ProcessGone
    BY <1>8 DEF ProcessGone, KeysAhead, Idle, Keys, ServerIds
<1>9. CASE Quiet \/ WireFrontEnds \/ DisableDone \/ UnregisterFails \/ Abandoned \/ EnableAttachFails
           \/ \E i \in Instances : EditSave(i)
    BY <1>1, <1>9 DEF Quiet, WireFrontEnds, DisableDone, DisableDoneLeaving, UnregisterFails, Abandoned,
       EnableAttachFails, Abandon, SwitchUnchanged, EditSave, book
<1>10. CASE \E i \in Instances : EnableBegin(i) \/ DisableBegin(i)
    <2>1. UNCHANGED book
        BY <1>10 DEF EnableBegin, DisableBegin
    <2>2. ASSUME NEW i \in Instances, EnableBegin(i) PROVE op'.srv = 0
        <3>1. \/ op' = Idle
              \/ op' = [Idle EXCEPT !.kind = "enable", !.inst = i, !.port = PortOf(i),
                                    !.blocks = DOMAIN file[i].shape]
            BY <2>2 DEF EnableBegin
        <3>2. CASE op' = Idle
            BY <3>2 DEF Idle
        <3>3. CASE op' = [Idle EXCEPT !.kind = "enable", !.inst = i, !.port = PortOf(i),
                                      !.blocks = DOMAIN file[i].shape]
            BY <3>3 DEF Idle
        <3> QED
            BY <3>1, <3>2, <3>3
    <2>3. op'.srv = 0
        BY <1>10, <2>2 DEF DisableBegin, Idle
    <2> QED
        BY <1>3, <2>1, <2>3 DEF book
<1>11. CASE BuildBlock \/ Refused \/ BuildAttachFails \/ DisableBlock
    <2>1. UNCHANGED <<byPort, scanCount>> /\ NextBlock /\ op.kind \in {"build", "disable"}
        BY <1>11 DEF BuildBlock, Refused, BuildBlockRefused, BuildRegisterFails, BuildAttachFails,
           BuildUnchanged, Building, DisableBlock, CloseRow, Disabling, SwitchUnchanged
    <2>2. op'.kind = op.kind
        BY <2>1, NextBlockFacts DEF NextBlock
    <2> QED
        BY <1>2, <2>1, <2>2
<1>12. CASE ReuseServer \/ EnableBlock
    <2>1. UNCHANGED <<byPort, scanCount>>
        BY <1>12 DEF ReuseServer, EnableBlock, EnableBlockSaving, SwitchUnchanged, book
    <2>2. op.srv = 0
        BY <1>12 DEF ReuseServer, EnableBlock, EnableBlockSaving, Enabling, RowInv, KeysAhead
    <2>3. op'.srv = 0
        BY <1>0, <1>12, <2>2 DEF ReuseServer, EnableBlock, EnableBlockSaving, OpType
    <2> QED
        BY <1>3, <2>1, <2>3
<1> QED
    BY <1>4, <1>5, <1>6, <1>7, <1>8, <1>9, <1>10, <1>11, <1>12, RowsStep

\* What serve and setEnabled start to work on.
LEMMA OpenFacts ==
    ASSUME NEW i \in Instances, OpenEntry(i)
    PROVE  /\ op'.kind = "build" /\ op'.inst = i /\ op'.port = PortOf(i) /\ op'.key = EntryKey(i)
           /\ op'.srv = 0 /\ op'.blocks = DOMAIN file[i].shape
           /\ op = Idle /\ phase = "build" /\ i \in todo /\ todo' = todo \ {i} /\ file[i].enable
           /\ UNCHANGED <<file, saved, live, fronts, regs, failed, phase>>
BY DEF OpenEntry, Idle, EntryKey, disk

LEMMA EnableFacts ==
    ASSUME NEW i \in Instances, EnableBegin(i)
    PROVE  /\ op = Idle /\ Ready /\ SetFile(i, TRUE)
           /\ UNCHANGED <<saved, live, fronts, regs, failed, phase, todo, byPort, scanCount>>
           /\ \/ op' = Idle
              \/ /\ RowsOf(i) = {}
                 /\ op'.kind = "enable" /\ op'.inst = i /\ op'.port = PortOf(i) /\ op'.key = 0
                 /\ op'.srv = 0 /\ op'.blocks = DOMAIN file[i].shape
<1>1. /\ op = Idle /\ Ready /\ SetFile(i, TRUE)
      /\ UNCHANGED <<saved, live, fronts, regs, failed, phase, todo, byPort, scanCount>>
    BY DEF EnableBegin, Ready, startup, book, page
<1>2. CASE RowsOf(i) # {}
    BY <1>1, <1>2 DEF EnableBegin
<1>3. CASE RowsOf(i) = {}
    <2>1. op' = [Idle EXCEPT !.kind = "enable", !.inst = i, !.port = PortOf(i),
                             !.blocks = DOMAIN file[i].shape]
        BY <1>3 DEF EnableBegin
    <2> QED
        BY <1>1, <1>3, <2>1 DEF Idle
<1> QED
    BY <1>2, <1>3

LEMMA DisableFacts ==
    ASSUME NEW i \in Instances, DisableBegin(i)
    PROVE  /\ op = Idle /\ Ready /\ SetFile(i, FALSE)
           /\ UNCHANGED <<saved, live, fronts, regs, failed, phase, todo, byPort, scanCount>>
           /\ op'.kind = "disable" /\ op'.inst = i /\ op'.blocks = {r.block : r \in RowsOf(i)}
BY DEF DisableBegin, Ready, startup, book, page, Idle

\* The row a disable closes keeps all but its cancel function.
Stopped(r) == [r EXCEPT !.stop = "none"]
SameRow(r, q) == q.inst = r.inst /\ q.block = r.block /\ q.key = r.key /\ q.num = r.num

LEMMA StopFacts ==
    ASSUME IInv, Disabling, StopFrontEnd(ThisRow)
    PROVE  /\ ThisRow \in live /\ live' = (live \ {ThisRow}) \union {Stopped(ThisRow)}
           /\ SameRow(ThisRow, Stopped(ThisRow)) /\ Stopped(ThisRow).stop = "none"
           /\ ThisRow.inst = op.inst /\ ThisRow.block = Block /\ Block \in op.blocks
BY RowFacts DEF StopFrontEnd, Stopped, SameRow, RowType

LEMMA WiredFacts ==
    ASSUME IInv, NEW r \in live
    PROVE  SameRow(r, [r EXCEPT !.stop = "boot"]) /\ [r EXCEPT !.stop = "boot"].stop = "boot"
BY DEF IInv, TypeOK, TypePage, RowType, SameRow

\* The row that a block gets.
NewRow(stop) == Row(op.inst, Block, op.key, Number, stop)
LEMMA NewRowFacts ==
    ASSUME NEW stop
    PROVE  /\ NewRow(stop).inst = op.inst /\ NewRow(stop).block = Block /\ NewRow(stop).key = op.key
           /\ NewRow(stop).num = Number /\ NewRow(stop).stop = stop
BY DEF NewRow, Row

\* Rows go only when start-up settles, when a disable ends and with the process.
LEMMA RowsKept ==
    ASSUME IInv, Next, ~Settle, ~DisableDone, ~ProcessGone, NEW r \in live
    PROVE  \E q \in live' : SameRow(r, q)
<1> DEFINE Goal == \E q \in live' : SameRow(r, q)
<1>1. CASE live \subseteq live'
    BY <1>1 DEF SameRow
<1>2. CASE WireFrontEnds
    BY <1>2, WiredFacts DEF WireFrontEnds
<1>3. CASE DisableBlock \/ UnregisterFails
    <2>1. Disabling /\ StopFrontEnd(ThisRow)
        BY <1>3 DEF DisableBlock, CloseRow, UnregisterFails
    <2>2. CASE r = ThisRow
        BY <2>1, <2>2, StopFacts
    <2>3. CASE r # ThisRow
        BY <2>1, <2>3, StopFacts DEF SameRow
    <2> QED
        BY <2>2, <2>3
<1>4. ASSUME NEW i \in Instances, OpenEntry(i) \/ EnableBegin(i) \/ DisableBegin(i) \/ EditSave(i) PROVE Goal
    BY <1>1, <1>4, OpenFacts, EnableFacts, DisableFacts DEF EditSave
<1>5. CASE Quiet \/ BuildBlock \/ Refused \/ BuildAttachFails
    BY <1>1, <1>5 DEF Quiet, BuildBlock, AddRow, Refused, BuildBlockRefused, BuildRegisterFails,
       BuildAttachFails
<1>6. CASE ReuseServer \/ StartServer \/ AwaitOk \/ Abandoned \/ EnableAttachFails \/ EnableBlock
    BY <1>1, <1>6 DEF ReuseServer, StartServer, StartServerAt, AwaitOk, AwaitOkThen, Abandoned,
       EnableAttachFails, Abandon, EnableBlock, EnableBlockSaving, AddRow, page
<1> QED
    BY <1>2, <1>3, <1>4, <1>5, <1>6, RowsStep

\* Rows come only with a block that serve or an enable registers.
LEMMA RowsFrom ==
    ASSUME IInv, Next, NEW q \in live'
    PROVE  \/ BuildBlock /\ q = NewRow("none")
           \/ EnableBlock /\ q = NewRow(Starter)
           \/ \E r \in live : SameRow(r, q)
<1> DEFINE Goal ==
           \/ BuildBlock /\ q = NewRow("none")
           \/ EnableBlock /\ q = NewRow(Starter)
           \/ \E r \in live : SameRow(r, q)
<1>1. CASE live' \subseteq live
    BY <1>1 DEF SameRow
<1>2. CASE WireFrontEnds
    BY <1>2, WiredFacts DEF WireFrontEnds
<1>3. CASE DisableBlock \/ UnregisterFails
    <2>1. Disabling /\ StopFrontEnd(ThisRow)
        BY <1>3 DEF DisableBlock, CloseRow, UnregisterFails
    <2>2. q \in live \/ q = Stopped(ThisRow)
        BY <2>1, StopFacts
    <2> QED
        BY <2>1, <2>2, StopFacts DEF SameRow
<1>4. ASSUME NEW i \in Instances, OpenEntry(i) \/ EnableBegin(i) \/ DisableBegin(i) \/ EditSave(i) PROVE Goal
    BY <1>1, <1>4, OpenFacts, EnableFacts, DisableFacts DEF EditSave
<1>5. CASE BuildBlock \/ EnableBlock
    <2>1. \/ BuildBlock /\ live' = live \union {NewRow("none")}
          \/ EnableBlock /\ live' = live \union {NewRow(Starter)}
        BY <1>5 DEF BuildBlock, EnableBlock, EnableBlockSaving, AddRow, NewRow
    <2> QED
        BY <2>1 DEF SameRow
<1>6. CASE Quiet \/ Refused \/ BuildAttachFails \/ Settle \/ DisableDone \/ ProcessGone
    BY <1>1, <1>6 DEF Quiet, Refused, BuildBlockRefused, BuildRegisterFails, BuildAttachFails,
       Settle, SettleRows, DisableDone, DisableDoneLeaving, ProcessGone
<1>7. CASE ReuseServer \/ StartServer \/ AwaitOk \/ Abandoned \/ EnableAttachFails
    BY <1>1, <1>7 DEF ReuseServer, StartServer, StartServerAt, AwaitOk, AwaitOkThen, Abandoned,
       EnableAttachFails, Abandon, page
<1> QED
    BY <1>2, <1>3, <1>4, <1>5, <1>6, <1>7, RowsStep

\* The server under a key stays there: a new server gets a key that nobody has.
LEMMA HostsKept ==
    ASSUME IInv, RowInv, Next, ~ProcessGone, NEW k \in Keys, byPort[k] # 0
    PROVE  byPort'[k] = byPort[k] \/ (Settle /\ byPort[k] \in failed)
<1>0. byPort \in [Keys -> 0..MaxServers]
    BY DEF IInv, TypeOK, TypeBook
<1>1. ASSUME NEW i \in Instances, OpenEntry(i) PROVE byPort'[k] = byPort[k]
    <2>1. CASE UNCHANGED byPort
        BY <2>1
    <2>2. CASE ~UNCHANGED byPort
        <3>1. byPort' = [byPort EXCEPT ![EntryKey(i)] = nsrv + 1] /\ ~HasServer(PortOf(i)) /\ nsrv < MaxServers
            BY <1>1, <2>2 DEF OpenEntry, EntryKey, NewServer
        <3>2. byPort[EntryKey(i)] = 0
            <4>1. CASE PortOf(i) = 0
                <5>1. scanCount + 1 \in ServerIds /\ scanCount \in Nat
                    BY <3>1 DEF IInv, TypeOK, TypeBook, TypeNet, ServerIds, Created
                <5>2. byPort[-(scanCount + 1)] = 0
                    <6>1. -(scanCount + 1) \in Keys /\ ~(scanCount + 1 <= scanCount)
                        BY <5>1 DEF Keys
                    <6> QED
                        BY <5>1, <6>1 DEF RowInv, KeysAhead
                <5>3. EntryKey(i) = -(scanCount + 1)
                    BY <4>1, <5>1 DEF EntryKey
                <5> QED
                    BY <5>2, <5>3
            <4>2. CASE PortOf(i) # 0
                BY <3>1, <4>2 DEF EntryKey, HasServer
            <4> QED
                BY <4>1, <4>2
        <3> QED
            BY <1>0, <3>1, <3>2
    <2> QED
        BY <2>1, <2>2
<1>2. CASE AwaitOk
    <2>1. byPort' = [byPort EXCEPT ![NewKey] = op.srv] /\ op.kind = "enable" /\ op.srv # 0
        BY <1>2 DEF AwaitOk, AwaitOkThen, Enabling
    <2>2. byPort[NewKey] = 0
        BY <2>1 DEF RowInv, KeysAhead
    <2> QED
        BY <1>0, <2>1, <2>2
<1>3. CASE Settle
    BY <1>0, <1>3 DEF Settle, SettleRows
<1>4. CASE UNCHANGED byPort
    BY <1>4
<1>5. CASE Quiet \/ BuildBlock \/ Refused \/ BuildAttachFails \/ WireFrontEnds \/ EnableBlock
    BY <1>4, <1>5 DEF Quiet, BuildBlock, Refused, BuildBlockRefused, BuildRegisterFails, BuildAttachFails,
       BuildUnchanged, WireFrontEnds, EnableBlock, EnableBlockSaving, SwitchUnchanged, book
<1>6. ASSUME NEW i \in Instances, EnableBegin(i) \/ DisableBegin(i) \/ EditSave(i) PROVE UNCHANGED byPort
    BY <1>6, EnableFacts, DisableFacts DEF EditSave, book
<1>7. CASE ReuseServer \/ StartServer \/ Abandoned \/ EnableAttachFails \/ DisableBlock
           \/ UnregisterFails \/ DisableDone
    BY <1>4, <1>7 DEF ReuseServer, StartServer, StartServerAt, Abandoned, EnableAttachFails, Abandon,
       SwitchUnchanged, DisableBlock, CloseRow, UnregisterFails, DisableDone, DisableDoneLeaving, book
<1> QED
    BY <1>1, <1>2, <1>3, <1>5, <1>6, <1>7, RowsStep

\* The operation's next block has no row yet.
LEMMA BlockIsNew ==
    ASSUME IInv, RowInv, op.kind \in {"build", "enable"}, op.blocks # {}, NEW r \in live
    PROVE  ~(r.inst = op.inst /\ r.block = Block)
BY BlockFacts DEF RowInv, OneRow, RowsOf

LEMMA OneRowStep == ASSUME IInv, RowInv, Next PROVE OneRow'
<1>0. /\ op \in OpType /\ phase \in Phases
      /\ \A r, q \in live : r.inst = q.inst /\ r.block = q.block => r = q
    BY DEF IInv, TypeOK, TypeOp, TypeStartup, RowInv, OneRow
\* Rows stay one per block.
<1>1. ASSUME NEW r \in live', NEW q \in live', r.inst = q.inst, r.block = q.block PROVE r = q
    <2>1. CASE live' \subseteq live
        BY <1>0, <1>1, <2>1
    <2>2. CASE WireFrontEnds
        <3>1. PICK x \in live : r = [x EXCEPT !.stop = "boot"]
            BY <2>2 DEF WireFrontEnds
        <3>2. PICK y \in live : q = [y EXCEPT !.stop = "boot"]
            BY <2>2 DEF WireFrontEnds
        <3>3. x = y
            BY <1>0, <1>1, <3>1, <3>2, WiredFacts DEF SameRow
        <3> QED
            BY <3>1, <3>2, <3>3
    <2>3. CASE DisableBlock \/ UnregisterFails
        <3>1. Disabling /\ StopFrontEnd(ThisRow)
            BY <2>3 DEF DisableBlock, CloseRow, UnregisterFails
        <3>2. \A x \in live' : (x \in live /\ x # ThisRow) \/ x = Stopped(ThisRow)
            BY <3>1, StopFacts
        <3>3. ThisRow \in live /\ SameRow(ThisRow, Stopped(ThisRow))
            BY <3>1, StopFacts
        <3> QED
            BY <1>0, <1>1, <3>2, <3>3 DEF SameRow
    <2>4. CASE BuildBlock \/ EnableBlock
        <3>1. op.kind \in {"build", "enable"} /\ op.blocks # {}
            BY <2>4 DEF BuildBlock, Building, EnableBlock, EnableBlockSaving, Enabling
        <3>2. \/ live' = live \union {NewRow("none")}
              \/ live' = live \union {NewRow(Starter)}
            BY <2>4 DEF BuildBlock, EnableBlock, EnableBlockSaving, AddRow, NewRow
        <3> QED
            BY <1>0, <1>1, <3>1, <3>2, BlockIsNew, NewRowFacts
    <2>5. ASSUME NEW i \in Instances, OpenEntry(i) \/ EnableBegin(i) \/ DisableBegin(i) \/ EditSave(i)
          PROVE live' \subseteq live
        BY <2>5, OpenFacts, EnableFacts, DisableFacts DEF EditSave
    <2>6. CASE Quiet \/ Refused \/ BuildAttachFails \/ Settle \/ DisableDone \/ ProcessGone
        BY <2>1, <2>6 DEF Quiet, Refused, BuildBlockRefused, BuildRegisterFails, BuildAttachFails,
           Settle, SettleRows, DisableDone, DisableDoneLeaving, ProcessGone
    <2>7. CASE ReuseServer \/ StartServer \/ AwaitOk \/ Abandoned \/ EnableAttachFails
        BY <2>1, <2>7 DEF ReuseServer, StartServer, StartServerAt, AwaitOk, AwaitOkThen, Abandoned,
           EnableAttachFails, Abandon, page
    <2> QED
        BY <2>1, <2>2, <2>3, <2>4, <2>5, <2>6, <2>7, RowsStep
\* The rows of the next state, and the operation whose blocks they are set against.
<1> DEFINE Rest == /\ phase' = "down" => live' = {}
                   /\ phase' = "build" => \A i \in todo' : \A r \in live' : r.inst # i
                   /\ op'.kind = "build" => op'.inst \notin todo'
                   /\ op'.kind \in {"build", "enable"} =>
                         \A r \in live' : r.inst = op'.inst => r.block \notin op'.blocks
<1>2. /\ phase = "down" => live = {}
      /\ phase = "build" => \A i \in todo : \A r \in live : r.inst # i
      /\ op.kind = "build" => op.inst \notin todo /\ phase = "build"
      /\ op.kind \in {"build", "enable"} =>
            \A r \in live : r.inst = op.inst => r.block \notin op.blocks
      /\ op.kind \in {"enable", "disable"} => phase \in PageUp
    BY DEF RowInv, OneRow, RowsOf, IInv, OpSane
<1>3. Rest
    <2>1. CASE Quiet
        BY <1>0, <1>2, <2>1 DEF Quiet, Idle
    <2>2. ASSUME NEW i \in Instances, OpenEntry(i) PROVE Rest
        BY <1>2, <2>2, OpenFacts
    <2>3. ASSUME NEW i \in Instances, EnableBegin(i) PROVE Rest
        <3>1. phase \in PageUp
            BY <2>3, EnableFacts DEF Ready, PageServed, PageUp
        <3> QED
            BY <1>2, <2>3, <3>1, EnableFacts DEF PageUp, Idle, RowsOf
    <2>4. ASSUME NEW i \in Instances, DisableBegin(i) PROVE Rest
        <3>1. phase \in PageUp
            BY <2>4, DisableFacts DEF Ready, PageServed, PageUp
        <3> QED
            BY <1>2, <2>4, <3>1, DisableFacts DEF PageUp
    <2>5. ASSUME NEW i \in Instances, EditSave(i) PROVE Rest
        BY <1>2, <2>5 DEF EditSave, startup
    <2>6. CASE BuildBlock \/ Refused \/ BuildAttachFails
        <3>1. /\ op.kind = "build" /\ op.blocks # {} /\ UNCHANGED <<phase, todo>> /\ NextBlock
              /\ live' = live \/ live' = live \union {NewRow("none")}
            BY <2>6 DEF BuildBlock, Refused, BuildBlockRefused, BuildRegisterFails, BuildAttachFails,
               BuildUnchanged, Building, startup, AddRow, NewRow
        <3>2. op'.kind = "build" /\ op'.inst = op.inst /\ op'.blocks = op.blocks \ {Block}
            BY <3>1, NextBlockFacts DEF NextBlock
        <3> QED
            BY <1>2, <3>1, <3>2, NewRowFacts
    <2>7. CASE EnableBlock
        <3>1. /\ op.kind = "enable" /\ op.blocks # {} /\ UNCHANGED <<phase, todo>>
              /\ live' = live \union {NewRow(Starter)}
              /\ op' = [op EXCEPT !.blocks = @ \ {Block}, !.key = 0]
            BY <2>7 DEF EnableBlock, EnableBlockSaving, Enabling, SwitchUnchanged, startup, AddRow, NewRow
        <3>2. op'.kind = "enable" /\ op'.inst = op.inst /\ op'.blocks = op.blocks \ {Block}
            BY <1>0, <3>1 DEF OpType
        <3> QED
            BY <1>2, <3>1, <3>2, NewRowFacts DEF PageUp
    <2>8. CASE DisableBlock
        <3>1. op.kind = "disable" /\ NextBlock /\ UNCHANGED <<phase, todo>>
            BY <2>8 DEF DisableBlock, CloseRow, Disabling, SwitchUnchanged, startup
        <3>2. op'.kind = "disable"
            BY <3>1, NextBlockFacts DEF NextBlock
        <3> QED
            BY <1>2, <3>1, <3>2 DEF PageUp
    <2>9. CASE UnregisterFails \/ DisableDone \/ Abandoned \/ EnableAttachFails
        <3>1. op' = Idle /\ UNCHANGED <<phase, todo>> /\ op.kind \in {"enable", "disable"}
            BY <2>9 DEF UnregisterFails, DisableDone, DisableDoneLeaving, Abandoned, EnableAttachFails,
               Abandon, SwitchUnchanged, startup, Enabling, Disabling
        <3> QED
            BY <1>2, <3>1 DEF PageUp, Idle
    <2>10. CASE ReuseServer \/ StartServer \/ AwaitOk
        <3>1. /\ UNCHANGED <<phase, todo, live>> /\ op.kind = "enable"
              /\ op'.kind = op.kind /\ op'.inst = op.inst /\ op'.blocks = op.blocks
            BY <1>0, <2>10 DEF ReuseServer, StartServer, StartServerAt, AwaitOk, AwaitOkThen, Enabling,
               startup, page, OpType
        <3> QED
            BY <1>2, <3>1 DEF PageUp
    <2>11. CASE Settle \/ WireFrontEnds
        <3>1. phase' \notin {"down", "build"} /\ op' = op /\ phase \notin {"down", "build"}
            BY <2>11 DEF Settle, SettleRows, WireFrontEnds
        <3>2. op.kind # "build"
            BY <1>2, <3>1
        <3>3. op.kind # "enable"
            <4>1. phase \in PageUp \/ op.kind # "enable"
                BY <1>2
            <4>2. Settle => phase \notin PageUp
                BY SettleFacts DEF PageUp
            <4>3. WireFrontEnds => op = Idle
                BY DEF WireFrontEnds
            <4> QED
                BY <2>11, <4>1, <4>2, <4>3 DEF Idle
        <3> QED
            BY <3>1, <3>2, <3>3
    <2>12. CASE ProcessGone
        BY <2>12 DEF ProcessGone, Idle
    <2> QED
        BY <2>1, <2>2, <2>3, <2>4, <2>5, <2>6, <2>7, <2>8, <2>9, <2>10, <2>11, <2>12, RowsStep
<1> QED
    BY <1>1, <1>3 DEF OneRow, RowsOf

LEMMA RowsInOrder == Spec => []RowInv
<1>1. RowInv /\ UNCHANGED vars => RowInv'
    BY DEF vars, startup, net, book, page, RowInv, KeysAhead, OneRow, NewKey, RowsOf
<1>2. IInv /\ RowInv /\ Next => RowInv'
    BY KeysAheadStep, OneRowStep DEF RowInv
<1>3. IInv /\ RowInv /\ [Next]_vars => RowInv'
    BY <1>1, <1>2
<1> QED
    BY <1>3, RowInvInit, Inductive, PTL DEF Spec

-----------------------------------------------------------------------------
(* Rows and devices.                                                        *)

LEMMA ReloadKeeps ==
    ASSUME IInv, NEW D \in SUBSET regs, NEW d \in regs
    PROVE  \E e \in Reloaded(D) : SameDevice(d, e)
<1>1. d \in RegType
    BY DEF IInv, TypeOK, TypeRegs
<1>2. CASE d \in D
    <2>1. [d EXCEPT !.cfg = file[d.inst].cfg] \in Reloaded(D)
        BY <1>2 DEF Reloaded
    <2> QED
        BY <1>1, <2>1 DEF SameDevice, RegType
<1>3. CASE d \notin D
    BY <1>3 DEF Reloaded, SameDevice
<1> QED
    BY <1>2, <1>3

\* The device that a block gets.
NewDevice(re) == Registration(Host, op.inst, Block, Number, re)
LEMMA NewDeviceFacts ==
    ASSUME NEW re
    PROVE  /\ NewDevice(re).sid = byPort[op.key] /\ NewDevice(re).type = TypeOf[op.inst]
           /\ NewDevice(re).num = Number /\ NewDevice(re).inst = op.inst /\ NewDevice(re).block = Block
BY DEF NewDevice, Registration, Host
LEMMA NewDeviceReload == NewDevice(TRUE).reload /\ ~NewDevice(FALSE).reload
BY DEF NewDevice, Registration

\* How a step changes the devices.
LEMMA DevicesStep ==
    ASSUME IInv, Next
    PROVE  \/ \E D \in SUBSET regs : regs' = Reloaded(D)
           \/ (BuildBlock \/ EnableBlock) /\ regs' = regs \union {NewDevice(TRUE)}
           \/ (BuildAttachFails \/ EnableAttachFails) /\ regs' = regs \union {NewDevice(FALSE)}
           \/ DisableBlock /\ regs' = regs \ AtRow(ThisRow)
           \/ ProcessGone
<1> DEFINE Goal ==
           \/ \E D \in SUBSET regs : regs' = Reloaded(D)
           \/ (BuildBlock \/ EnableBlock) /\ regs' = regs \union {NewDevice(TRUE)}
           \/ (BuildAttachFails \/ EnableAttachFails) /\ regs' = regs \union {NewDevice(FALSE)}
           \/ DisableBlock /\ regs' = regs \ AtRow(ThisRow)
           \/ ProcessGone
<1>1. CASE UNCHANGED regs
    BY <1>1, NothingReloaded
<1>2. CASE BuildBlock \/ EnableBlock \/ BuildAttachFails \/ EnableAttachFails \/ DisableBlock \/ Quiet
    BY <1>2 DEF BuildBlock, EnableBlock, EnableBlockSaving, BuildAttachFails, EnableAttachFails, AddDevice,
       NewDevice, DisableBlock, CloseRow, Quiet
<1>3. ASSUME NEW i \in Instances, OpenEntry(i) \/ EnableBegin(i) \/ DisableBegin(i) \/ EditSave(i)
      PROVE  UNCHANGED regs
    BY <1>3, OpenFacts, EnableFacts, DisableFacts DEF EditSave
<1>4. CASE Refused \/ Settle \/ WireFrontEnds \/ ReuseServer \/ StartServer \/ AwaitOk
    BY <1>1, <1>4 DEF Refused, BuildBlockRefused, BuildRegisterFails, Settle, SettleRows,
       WireFrontEnds, ReuseServer, StartServer, StartServerAt, AwaitOk, AwaitOkThen
<1>5. CASE Abandoned \/ UnregisterFails \/ DisableDone
    BY <1>1, <1>5 DEF Abandoned, UnregisterFails, DisableDone, DisableDoneLeaving
<1> QED
    BY <1>1, <1>2, <1>3, <1>4, <1>5, RowsStep

\* A device goes only with the row a disable closes, or with the process.
LEMMA DevicesKept ==
    ASSUME IInv, Next, ~ProcessGone, NEW d \in regs
    PROVE  (DisableBlock /\ d \in AtRow(ThisRow)) \/ \E e \in regs' : SameDevice(d, e)
<1>1. ASSUME d \in regs' PROVE \E e \in regs' : SameDevice(d, e)
    BY <1>1 DEF SameDevice
<1>2. ASSUME NEW D \in SUBSET regs, regs' = Reloaded(D) PROVE \E e \in regs' : SameDevice(d, e)
    BY <1>2, ReloadKeeps
<1> QED
    BY <1>1, <1>2, DevicesStep

\* The device at the address of a row that has one is that row's.
LEMMA AddressIsRows ==
    ASSUME IInv, NEW r \in live, Registered(r), NEW d \in AtRow(r)
    PROVE  d.inst = r.inst /\ d.block = r.block
BY DEF IInv, UniqueAddress, Registered, AtRow

\* A row keeps its device over a step that closes neither.
LEMMA RegisteredKept ==
    ASSUME IInv, RowInv, Next, ~ProcessGone, NEW r \in live, NEW q \in live', SameRow(r, q), Registered(r),
           Settle => byPort[r.key] \notin failed,
           DisableBlock => r # ThisRow /\ Registered(ThisRow)
    PROVE  Registered(q)'
<1>1. PICK d \in regs : /\ d.sid = byPort[r.key] /\ d.type = TypeOf[r.inst] /\ d.num = r.num
                        /\ d.inst = r.inst /\ d.block = r.block
    BY DEF Registered
<1>2. byPort'[r.key] = byPort[r.key]
    BY HostsKept, RowServer DEF IInv, RowsHosted
<1>3. ~(DisableBlock /\ d \in AtRow(ThisRow))
    <2> SUFFICES ASSUME DisableBlock, d \in AtRow(ThisRow) PROVE FALSE
        OBVIOUS
    <2>1. ThisRow \in live
        BY RowFacts DEF DisableBlock, CloseRow
    <2>2. d.inst = ThisRow.inst /\ d.block = ThisRow.block
        BY <2>1, AddressIsRows
    <2>3. r = ThisRow
        BY <1>1, <2>1, <2>2 DEF RowInv, OneRow
    <2> QED
        BY <2>3
<1>4. PICK e \in regs' : SameDevice(d, e)
    BY <1>3, DevicesKept
<1>5. /\ e.sid = byPort'[q.key] /\ e.type = TypeOf[q.inst] /\ e.num = q.num
      /\ e.inst = q.inst /\ e.block = q.block
    BY <1>1, <1>2, <1>4 DEF SameRow, SameDevice
<1> QED
    BY <1>5 DEF Registered

\* A block that is registered gives its row a device.
LEMMA RegisteredNew ==
    ASSUME IInv, Next, NEW stop, BuildBlock \/ EnableBlock, NEW q, q = NewRow(stop)
    PROVE  Registered(q)'
<1>1. regs' = regs \union {NewDevice(TRUE)} /\ byPort' = byPort
    BY DEF BuildBlock, EnableBlock, EnableBlockSaving, BuildUnchanged, SwitchUnchanged, AddDevice, NewDevice
<1>2. PICK d \in regs' : d = NewDevice(TRUE)
    BY <1>1
<1>3. /\ d.sid = byPort'[q.key] /\ d.type = TypeOf[q.inst] /\ d.num = q.num
      /\ d.inst = q.inst /\ d.block = q.block
    BY <1>1, <1>2, NewDeviceFacts, NewRowFacts
<1> QED
    BY <1>2, <1>3 DEF Registered

\* How the operation goes on while a row or a device stays.
LEMMA OpStep ==
    ASSUME IInv, Next
    PROVE  \/ op' = op
           \/ op'.kind = "idle" /\ (op.kind = "disable" => DisableDone \/ UnregisterFails \/ ProcessGone)
           \/ op = Idle /\ \E i \in Instances : OpenEntry(i) \/ EnableBegin(i) \/ DisableBegin(i)
           \/ op.kind \in {"build", "enable"} /\ op'.kind = op.kind /\ op'.inst = op.inst
           \/ DisableBlock /\ op'.kind = "disable" /\ op'.inst = op.inst
              /\ op'.blocks = op.blocks \ {Block}
<1> DEFINE Goal ==
           \/ op' = op
           \/ op'.kind = "idle" /\ (op.kind = "disable" => DisableDone \/ UnregisterFails \/ ProcessGone)
           \/ op = Idle /\ \E i \in Instances : OpenEntry(i) \/ EnableBegin(i) \/ DisableBegin(i)
           \/ op.kind \in {"build", "enable"} /\ op'.kind = op.kind /\ op'.inst = op.inst
           \/ DisableBlock /\ op'.kind = "disable" /\ op'.inst = op.inst
              /\ op'.blocks = op.blocks \ {Block}
<1>0. op \in OpType
    BY DEF IInv, TypeOK, TypeOp
<1>1. CASE Quiet \/ Settle \/ WireFrontEnds
    <2>1. Quiet => Goal
        BY DEF Quiet, Idle
    <2>2. WireFrontEnds => op' = op
        BY DEF WireFrontEnds
    <2> QED
        BY <1>1, <2>1, <2>2, SettleFacts
<1>2. ASSUME NEW i \in Instances, OpenEntry(i) \/ EnableBegin(i) \/ DisableBegin(i) PROVE Goal
    BY <1>2, OpenFacts, EnableFacts, DisableFacts
<1>3. ASSUME NEW i \in Instances, EditSave(i) PROVE Goal
    BY <1>3 DEF EditSave
<1>4. CASE BuildBlock \/ Refused \/ BuildAttachFails
    <2>1. op.kind = "build" /\ NextBlock
        BY <1>4 DEF BuildBlock, Refused, BuildBlockRefused, BuildRegisterFails, BuildAttachFails, Building
    <2> QED
        BY <2>1, NextBlockFacts DEF NextBlock
<1>5. CASE EnableBlock
    <2>1. op.kind = "enable" /\ op' = [op EXCEPT !.blocks = @ \ {Block}, !.key = 0]
        BY <1>5 DEF EnableBlock, EnableBlockSaving, Enabling
    <2> QED
        BY <1>0, <2>1 DEF OpType
<1>6. CASE ReuseServer \/ StartServer \/ AwaitOk
    BY <1>0, <1>6 DEF ReuseServer, StartServer, StartServerAt, AwaitOk, AwaitOkThen, Enabling, OpType
<1>7. CASE Abandoned \/ EnableAttachFails
    <2>1. op' = Idle /\ op.kind = "enable"
        BY <1>7 DEF Abandoned, EnableAttachFails, Abandon, Enabling
    <2>2. Idle.kind = "idle"
        BY DEF Idle
    <2> QED
        BY <2>1, <2>2
<1>8. CASE DisableBlock
    <2>1. op.kind = "disable" /\ NextBlock
        BY <1>8 DEF DisableBlock, CloseRow, Disabling
    <2> QED
        BY <1>8, <2>1, NextBlockFacts DEF NextBlock
<1>9. CASE UnregisterFails \/ DisableDone \/ ProcessGone
    BY <1>9 DEF UnregisterFails, DisableDone, DisableDoneLeaving, ProcessGone, Idle
<1> QED
    BY <1>1, <1>2, <1>3, <1>4, <1>5, <1>6, <1>7, <1>8, <1>9, RowsStep

NoUnregisterError == "unregister" \notin Faults

LEMMA RowsRegisteredStep ==
    ASSUME IInv, RowInv, RowsRegistered, Next, NoUnregisterError PROVE RowsRegistered'
<1>0. ~UnregisterFails
    BY DEF UnregisterFails, NoUnregisterError
<1>1. CASE ProcessGone
    BY <1>1 DEF ProcessGone, RowsRegistered
<1>2. CASE DisableDone
    <2>1. live' = live \ RowsOf(op.inst) /\ regs' = regs /\ byPort' = byPort
        BY <1>2 DEF DisableDone, DisableDoneLeaving, book
    <2>2. ASSUME NEW r \in live' PROVE Registered(r)'
        <3>1. r \in live /\ r.inst # op.inst
            BY <2>1 DEF RowsOf
        <3>2. Registered(r)
            BY <3>1 DEF RowsRegistered
        <3> QED
            BY <2>1, <3>2 DEF Registered
    <2> QED
        BY <2>2 DEF RowsRegistered
<1>3. CASE ~ProcessGone /\ ~DisableDone
    <2> SUFFICES ASSUME NEW q \in live'
                 PROVE  \/ Registered(q)'
                        \/ op'.kind = "disable" /\ q.inst = op'.inst /\ q.block \notin op'.blocks
        BY DEF RowsRegistered
    <2>1. CASE \E stop : (BuildBlock \/ EnableBlock) /\ q = NewRow(stop)
        BY <2>1, RegisteredNew
    <2>2. ASSUME NEW r \in live, SameRow(r, q)
          PROVE  \/ Registered(q)'
                 \/ op'.kind = "disable" /\ q.inst = op'.inst /\ q.block \notin op'.blocks
        <3>1. Settle => byPort[r.key] \notin failed
            BY <2>2, ZenonT(60) DEF Settle, SettleRows, SameRow
        <3>2. DisableBlock => Registered(ThisRow)
            BY RowFacts DEF DisableBlock, CloseRow, RowsRegistered
        <3>3. CASE DisableBlock /\ r = ThisRow
            <4>1. r.inst = op.inst /\ r.block = Block
                BY <3>3, RowFacts DEF DisableBlock, CloseRow
            <4>2. op'.kind = "disable" /\ op'.inst = op.inst /\ op'.blocks = op.blocks \ {Block}
                <5>1. op.kind = "disable" /\ NextBlock
                    BY <3>3 DEF DisableBlock, CloseRow, Disabling
                <5> QED
                    BY <5>1, NextBlockFacts DEF NextBlock
            <4> QED
                BY <2>2, <4>1, <4>2 DEF SameRow
        <3>4. CASE Registered(r) /\ ~(DisableBlock /\ r = ThisRow)
            BY <1>3, <2>2, <3>1, <3>2, <3>4, RegisteredKept
        <3>5. CASE ~Registered(r) /\ ~(DisableBlock /\ r = ThisRow)
            <4>1. op.kind = "disable" /\ r.inst = op.inst /\ r.block \notin op.blocks
                BY <3>5 DEF RowsRegistered
            <4>2. op'.kind = "disable" /\ op'.inst = op.inst /\ op'.blocks \subseteq op.blocks
                BY <1>0, <1>3, <4>1, OpStep DEF Idle
            <4> QED
                BY <2>2, <4>1, <4>2 DEF SameRow
        <3> QED
            BY <3>3, <3>4, <3>5
    <2> QED
        BY <2>1, <2>2, RowsFrom
<1> QED
    BY <1>1, <1>2, <1>3

LEMMA RowsStayRegistered == ASSUME NoUnregisterError PROVE Spec => []RowsRegistered
<1>1. RowsRegistered /\ UNCHANGED vars => RowsRegistered'
    BY DEF vars, book, page, RowsRegistered, Registered
<1>2. IInv /\ RowInv /\ RowsRegistered /\ [Next]_vars => RowsRegistered'
    BY <1>1, RowsRegisteredStep
<1>3. Init => RowsRegistered
    BY DEF Init, RowsRegistered
<1> QED
    BY <1>2, <1>3, Inductive, RowsInOrder, PTL DEF Spec

\* Every row that the page shows as in process has a device of its own instance and
\* block at its address, so Restart and Setup reach that device and no other.  Only a
\* failed Unregister leaves rows whose device is gone.
THEOREM RowsHaveDevices ==
    ASSUME NoUnregisterError
    PROVE  Spec => []RowsAreRegistered
<1>1. RowsRegistered => RowsAreRegistered
    BY DEF RowsRegistered, RowsAreRegistered
<1> QED
    BY <1>1, RowsStayRegistered, PTL

\* A disable unregisters devices of its own instance only: whatever is reloaded or
\* started meanwhile, each device of another instance is still at its address.
THEOREM DisableSparesOthers ==
    ASSUME NoUnregisterError
    PROVE  Spec => DisableTouchesOwn
<1> DEFINE Spares == op.kind = "disable" /\ phase' # "down" =>
              \A d \in regs : d.inst = op.inst \/ \E e \in regs' : SameDevice(d, e)
<1>1. ASSUME IInv, RowsRegistered, Next PROVE Spares
    <2> SUFFICES ASSUME phase' # "down", NEW d \in regs, ~\E e \in regs' : SameDevice(d, e)
                 PROVE  d.inst = op.inst
        OBVIOUS
    <2>1. ~ProcessGone
        BY DEF ProcessGone
    <2>2. DisableBlock /\ d \in AtRow(ThisRow)
        BY <1>1, <2>1, DevicesKept
    <2>3. ThisRow \in live /\ ThisRow.inst = op.inst /\ Registered(ThisRow)
        BY <1>1, <2>2, RowFacts DEF DisableBlock, CloseRow, RowsRegistered
    <2> QED
        BY <1>1, <2>2, <2>3, AddressIsRows
<1>2. ASSUME IInv, RowsRegistered, UNCHANGED vars PROVE [Spares]_vars
    BY <1>2
<1>3. IInv /\ RowsRegistered /\ [Next]_vars => [Spares]_vars
    BY <1>1, <1>2
<1> HIDE DEF Spares
<1>4. Spec => [][Spares]_vars
    BY <1>3, Inductive, RowsStayRegistered, PTL DEF Spec
<1> QED
    BY <1>4 DEF DisableTouchesOwn, Spares

\* Errors of start-up are forgotten only with the process.
LEMMA FailedKept ==
    ASSUME IInv, Next, ~ProcessGone
    PROVE  failed \subseteq failed'
<1>1. ASSUME NEW i \in Instances, OpenEntry(i) \/ EnableBegin(i) \/ DisableBegin(i) \/ EditSave(i)
      PROVE  failed' = failed
    BY <1>1, OpenFacts, EnableFacts, DisableFacts DEF EditSave, startup
<1>2. CASE BuildBlock \/ Refused \/ BuildAttachFails \/ Settle \/ WireFrontEnds \/ ReuseServer \/ StartServer
           \/ AwaitOk
    BY <1>2 DEF BuildBlock, Refused, BuildBlockRefused, BuildRegisterFails, BuildAttachFails, BuildUnchanged,
       startup, Settle, SettleRows, WireFrontEnds, ReuseServer, StartServer, StartServerAt, AwaitOk, AwaitOkThen
<1>3. CASE Abandoned \/ EnableAttachFails \/ EnableBlock \/ DisableBlock \/ UnregisterFails \/ DisableDone
    BY <1>3 DEF Abandoned, EnableAttachFails, Abandon, EnableBlock, EnableBlockSaving, DisableBlock, CloseRow,
       UnregisterFails, DisableDone, DisableDoneLeaving, SwitchUnchanged, startup
<1> QED
    BY <1>1, <1>2, <1>3, RowsStep DEF Quiet

\* The row of a device that nobody closes stays the row of that device.
LEMMA RowOfKept ==
    ASSUME IInv, RowInv, DevicesRowed, Next, ~ProcessGone, NEW e \in regs, e.sid \notin failed, e.reload
    PROVE  HasRow(e)'
<1>1. PICK r \in live : RowOf(r, e)
    BY DEF DevicesRowed, HasRow
<1>2. r.key \in Keys /\ byPort[r.key] = e.sid /\ byPort[r.key] # 0
    BY <1>1, RowServer DEF RowOf, IInv, RowsHosted
<1>3. byPort'[r.key] = e.sid
    BY <1>2, HostsKept
<1>4. \E q \in live' : SameRow(r, q)
    <2>1. CASE Settle
        BY <1>2, <2>1 DEF Settle, SettleRows, SameRow
    <2>2. CASE DisableDone
        <3>1. op.kind = "disable" /\ op.blocks = {} /\ live' = live \ RowsOf(op.inst)
            BY <2>2 DEF DisableDone, DisableDoneLeaving
        <3>2. r.inst # op.inst
            BY <1>1, <3>1 DEF DevicesRowed, RowOf
        <3> QED
            BY <3>1, <3>2 DEF RowsOf, SameRow
    <2> QED
        BY <2>1, <2>2, RowsKept
<1>5. PICK q \in live' : SameRow(r, q)
    BY <1>4
<1>6. RowOf(q, e)'
    BY <1>1, <1>3, <1>5 DEF RowOf, SameRow
<1> QED
    BY <1>6 DEF HasRow

\* A disable has yet to close every device of its instance that it has not closed.
LEMMA ToCloseKept ==
    ASSUME IInv, RowInv, DevicesRowed, Next, ~ProcessGone, NEW e \in regs, e.sid \notin failed, e.reload,
           ~(DisableBlock /\ e \in AtRow(ThisRow)), op'.kind = "disable", e.inst = op'.inst
    PROVE  e.block \in op'.blocks
<1>1. PICK r \in live : RowOf(r, e)
    BY DEF DevicesRowed, HasRow
<1>2. CASE op' = op
    BY <1>2 DEF DevicesRowed
<1>3. ASSUME NEW i \in Instances, DisableBegin(i) PROVE e.block \in op'.blocks
    <2>1. op'.inst = i /\ op'.blocks = {q.block : q \in RowsOf(i)}
        BY <1>3, DisableFacts
    <2>2. r \in RowsOf(i) /\ r.block = e.block
        BY <1>1, <2>1 DEF RowOf, RowsOf
    <2> QED
        BY <2>1, <2>2
<1>4. ASSUME NEW i \in Instances, OpenEntry(i) \/ EnableBegin(i) PROVE FALSE
    <2>1. Idle.kind # "disable"
        BY DEF Idle
    <2> QED
        BY <1>4, <2>1, OpenFacts, EnableFacts
<1>5. CASE DisableBlock /\ op'.inst = op.inst /\ op'.blocks = op.blocks \ {Block}
    <2>1. Disabling /\ op.kind = "disable"
        BY <1>5 DEF DisableBlock, CloseRow, Disabling
    <2>2. e.block \in op.blocks
        BY <1>5, <2>1 DEF DevicesRowed
    <2>3. ThisRow \in live /\ ThisRow.inst = op.inst /\ ThisRow.block = Block
        BY <2>1, RowFacts
    <2>4. e.block = Block => r = ThisRow
        BY <1>1, <1>5, <2>3 DEF RowOf, RowInv, OneRow
    <2>5. r = ThisRow => e \in AtRow(ThisRow)
        BY <1>1 DEF RowOf, AtRow
    <2> QED
        BY <1>5, <2>2, <2>4, <2>5
<1>6. CASE \E i \in Instances : OpenEntry(i) \/ EnableBegin(i) \/ DisableBegin(i)
    BY <1>3, <1>4, <1>6
<1>7. CASE op.kind \in {"build", "enable"} /\ op'.kind = op.kind
    BY <1>7
<1> QED
    BY <1>2, <1>5, <1>6, <1>7, OpStep

\* What the next state owes a device.
RowedAfter(d) == /\ HasRow(d)'
                 /\ op'.kind = "disable" /\ d.inst = op'.inst => d.block \in op'.blocks

\* A device that stays is owed what it was owed before.
LEMMA RowedKept ==
    ASSUME IInv, RowInv, DevicesRowed, Next, ~ProcessGone, NEW e \in regs, e.sid \notin failed, e.reload,
           ~(DisableBlock /\ e \in AtRow(ThisRow)), NEW d, SameDevice(e, d)
    PROVE  RowedAfter(d)
<1>1. HasRow(e)'
    BY RowOfKept
<1>2. op'.kind = "disable" /\ e.inst = op'.inst => e.block \in op'.blocks
    BY ToCloseKept
<1> QED
    BY <1>1, <1>2 DEF SameDevice, HasRow, RowOf, RowedAfter

\* A device that is registered with a row has that row.
LEMMA RowedNew ==
    ASSUME IInv, Next, BuildBlock \/ EnableBlock, NEW d, d = NewDevice(TRUE)
    PROVE  RowedAfter(d)
<1>1. \E stop : NewRow(stop) \in live'
    BY DEF BuildBlock, EnableBlock, EnableBlockSaving, AddRow, NewRow
<1>2. byPort' = byPort
    BY DEF BuildBlock, EnableBlock, EnableBlockSaving, BuildUnchanged, SwitchUnchanged
<1>3. HasRow(d)'
    <2>1. PICK q \in live' : \E stop : q = NewRow(stop)
        BY <1>1
    <2>2. q.inst = op.inst /\ q.block = Block /\ q.key = op.key /\ q.num = Number
        BY <2>1, NewRowFacts
    <2>3. /\ d.sid = byPort[op.key] /\ d.type = TypeOf[op.inst] /\ d.num = Number
          /\ d.inst = op.inst /\ d.block = Block
        BY NewDeviceFacts
    <2>4. RowOf(q, d)'
        BY <1>2, <2>2, <2>3 DEF RowOf
    <2> QED
        BY <2>4 DEF HasRow
<1>4. op.kind \in {"build", "enable"}
    BY DEF BuildBlock, Building, EnableBlock, EnableBlockSaving, Enabling
<1>5. ~(op = Idle /\ \E i \in Instances : OpenEntry(i) \/ EnableBegin(i) \/ DisableBegin(i))
    BY <1>4 DEF Idle
<1>6. ~DisableBlock
    BY <1>4 DEF DisableBlock, CloseRow, Disabling
<1>7. op'.kind # "disable"
    BY <1>4, <1>5, <1>6, OpStep
<1> QED
    BY <1>3, <1>7 DEF RowedAfter

LEMMA DevicesRowedStep ==
    ASSUME IInv, RowInv, DevicesRowed, Next PROVE DevicesRowed'
<1>1. CASE ProcessGone
    BY <1>1 DEF ProcessGone, DevicesRowed
<1>2. CASE ~ProcessGone
    <2> SUFFICES ASSUME NEW d \in regs', d.sid \notin failed', d.reload
                 PROVE  RowedAfter(d)
        BY DEF DevicesRowed, RowedAfter
    <2>1. d.sid \notin failed
        BY <1>2, FailedKept
    <2>2. ASSUME NEW D \in SUBSET regs, regs' = Reloaded(D), ~DisableBlock
          PROVE  RowedAfter(d)
        <3>1. d \in Reloaded(D)
            BY <2>2
        <3>2. PICK e \in regs : SameDevice(e, d) /\ d = IF e \in D THEN [e EXCEPT !.cfg = file[e.inst].cfg] ELSE e
            BY <3>1, ReloadedFacts DEF IInv, TypeOK, SameDevice
        <3>3. e.reload
            BY <3>2 DEF IInv, TypeOK, TypeRegs, RegType
        <3> QED
            BY <1>2, <2>1, <2>2, <3>2, <3>3, RowedKept DEF SameDevice
    <2>3. ASSUME d \in regs, ~(DisableBlock /\ d \in AtRow(ThisRow)) PROVE RowedAfter(d)
        <3>1. SameDevice(d, d)
            BY DEF SameDevice
        <3> QED
            BY <1>2, <2>1, <2>3, <3>1, RowedKept
    <2>4. CASE DisableBlock
        <3>1. d \in regs /\ d \notin AtRow(ThisRow)
            BY <2>4 DEF DisableBlock, CloseRow
        <3> QED
            BY <2>3, <3>1
    <2>5. CASE (BuildBlock \/ EnableBlock) /\ regs' = regs \union {NewDevice(TRUE)}
        <3>1. ~DisableBlock
            BY <2>5 DEF BuildBlock, Building, EnableBlock, EnableBlockSaving, Enabling, DisableBlock,
               CloseRow, Disabling
        <3>2. d \in regs \/ d = NewDevice(TRUE)
            BY <2>5
        <3> QED
            BY <2>3, <2>5, <3>1, <3>2, RowedNew
    <2>6. CASE (BuildAttachFails \/ EnableAttachFails) /\ regs' = regs \union {NewDevice(FALSE)}
        <3>1. ~DisableBlock
            BY <2>6 DEF BuildAttachFails, Building, EnableAttachFails, Enabling, DisableBlock,
               CloseRow, Disabling
        <3>2. d # NewDevice(FALSE)
            BY NewDeviceReload
        <3> QED
            BY <2>3, <2>6, <3>1, <3>2
    <2> QED
        BY <1>2, <2>2, <2>4, <2>5, <2>6, DevicesStep
<1> QED
    BY <1>1, <1>2

LEMMA DevicesStayRowed == Spec => []DevicesRowed
<1>1. DevicesRowed /\ UNCHANGED vars => DevicesRowed'
    BY DEF vars, startup, book, page, DevicesRowed, HasRow, RowOf
<1>2. IInv /\ RowInv /\ DevicesRowed /\ [Next]_vars => DevicesRowed'
    BY <1>1, DevicesRowedStep
<1>3. Init => DevicesRowed
    BY DEF Init, DevicesRowed
<1> QED
    BY <1>2, <1>3, Inductive, RowsInOrder, PTL DEF Spec

\* Once start-up is over, every device a client can reach has its row, so the page can
\* stop it: serve and startInProcess register no device without one, and no row goes
\* before its device.  The one kind that has none is the device whose attachSetupForm
\* failed after Register; whatever else fails, no other is left.
THEOREM NothingOrphaned == Spec => []NoOrphanDevice
<1>1. DevicesRowed => NoOrphanDevice
    BY DEF DevicesRowed, HasRow, RowOf, NoOrphanDevice
<1> QED
    BY <1>1, DevicesStayRowed, PTL

-----------------------------------------------------------------------------
(* Rows and front-ends.                                                     *)

\* The front-ends of rows that stay are those that ran.
LEMMA ShownKept ==
    ASSUME IInv, \A r \in live : byPort'[r.key] = byPort[r.key], live' = live
    PROVE  Shown(live)' = Shown(live)
<1>1. \A r \in live : (FrontEnd(r, r.stop))' = FrontEnd(r, r.stop)
    BY DEF FrontEnd
<1> QED
    BY <1>1 DEF Shown

\* Steps that start, stop and move no front-end.
LEMMA FrontsKeptStep ==
    ASSUME IInv, FrontEnds, UNCHANGED <<live, fronts>>, \A r \in live : byPort'[r.key] = byPort[r.key],
           phase' = "serving" <=> phase = "serving", phase' \in PageUp <=> phase \in PageUp
    PROVE  StopsEarly' /\ FrontsRun'
BY ShownKept DEF FrontEnds, StopsEarly, FrontsRun

LEMMA RowServersKept ==
    ASSUME IInv, RowInv, Next, phase' # "down", ~Settle
    PROVE  \A r \in live : byPort'[r.key] = byPort[r.key]
<1>1. ~ProcessGone
    BY DEF ProcessGone
<1> QED
    BY <1>1, RowServer, HostsKept DEF IInv, RowsHosted

\* A row that is closed, and its front-end.
LEMMA ShownStopped ==
    ASSUME IInv, RowInv, FrontEnds, Disabling, StopFrontEnd(ThisRow), byPort' = byPort
    PROVE  Shown(live)' \subseteq fronts' /\ fronts' \ Shown(live)' \subseteq fronts \ Shown(live)
<1> DEFINE t == ThisRow
           q == Stopped(t)
<1>1. /\ t \in live /\ live' = (live \ {t}) \union {q} /\ q.stop = "none"
      /\ fronts' = IF t.stop = "none" THEN fronts ELSE fronts \ {FrontEnd(t, t.stop)}
    BY StopFacts DEF StopFrontEnd
<1>2. \A r \in live : r # t => FrontEnd(r, r.stop) # FrontEnd(t, t.stop)
    BY <1>1 DEF FrontEnd, RowInv, OneRow
<1>3. \A r : (FrontEnd(r, r.stop))' = FrontEnd(r, r.stop)
    BY DEF FrontEnd
<1> HIDE DEF t, q
<1>4. Shown(live)' = {FrontEnd(r, r.stop) : r \in {x \in live \ {t} : x.stop # "none"}}
    BY <1>1, <1>3 DEF Shown
<1>5. Shown(live) \subseteq fronts
    BY DEF FrontEnds, FrontsRun
<1>6. CASE t.stop = "none"
    <2>1. Shown(live)' = Shown(live)
        BY <1>4, <1>6 DEF Shown
    <2> QED
        BY <1>1, <1>5, <1>6, <2>1
<1>7. CASE t.stop # "none"
    <2>1. Shown(live)' = Shown(live) \ {FrontEnd(t, t.stop)}
        BY <1>2, <1>4 DEF Shown
    <2> QED
        BY <1>1, <1>5, <1>7, <2>1
<1> QED
    BY <1>6, <1>7

LEMMA FrontEndsStep == ASSUME IInv, RowInv, FrontEnds, Next PROVE FrontEnds'
<1> DEFINE Fronts == StopsEarly' /\ FrontsRun'
           Closing == op'.kind = "disable" =>
                         \A r \in live' : r.inst = op'.inst => r.block \in op'.blocks \/ r.stop = "none"
<1>0. /\ op \in OpType /\ Idle.kind = "idle"
      /\ op.kind = "disable" => \A r \in live : r.inst = op.inst => r.block \in op.blocks \/ r.stop = "none"
      /\ phase \notin PageUp => \A r \in live : r.stop = "none"
      /\ phase # "serving" => \A r \in live : r.stop \in {"none", "early"}
      /\ op.kind \in {"enable", "disable"} => phase \in PageUp
      /\ Shown(live) \subseteq fronts
      /\ \A f \in fronts \ Shown(live) : phase = "serving" /\ f.by = "early"
    BY DEF IInv, TypeOK, TypeOp, Idle, FrontEnds, StopsEarly, FrontsRun, ClosedStopped, RowsOf, OpSane
<1>f. Fronts /\ Closing => FrontEnds'
    BY DEF FrontEnds, ClosedStopped, RowsOf
<1>g. ASSUME \A r \in live : r.stop = "none" PROVE Shown(live) = {}
    BY <1>g DEF Shown
<1>1. CASE Quiet
    <2>1. Fronts
        BY <1>1, FrontsKeptStep DEF Quiet
    <2>2. Closing
        BY <1>0, <1>1 DEF Quiet
    <2> QED
        BY <1>f, <2>1, <2>2
<1>2. ASSUME NEW i \in Instances, OpenEntry(i) PROVE FrontEnds'
    <2>1. op'.kind = "build" /\ UNCHANGED <<live, fronts, phase>> /\ phase' # "down" /\ ~Settle
        BY <1>2, OpenFacts DEF Settle, SettleRows
    <2>2. Fronts
        BY <2>1, FrontsKeptStep, RowServersKept
    <2> QED
        BY <1>f, <2>1, <2>2
<1>3. ASSUME NEW i \in Instances, EnableBegin(i) \/ DisableBegin(i) \/ EditSave(i) PROVE FrontEnds'
    <2>1. UNCHANGED <<live, fronts, phase, byPort>>
        BY <1>3, EnableFacts, DisableFacts DEF EditSave, startup, book
    <2>2. Fronts
        BY <2>1, FrontsKeptStep
    <2>3. CASE EnableBegin(i)
        BY <1>0, <1>f, <2>2, <2>3, EnableFacts
    <2>4. CASE DisableBegin(i)
        <3>1. op'.blocks = {r.block : r \in RowsOf(i)} /\ op'.inst = i
            BY <2>4, DisableFacts
        <3>2. Closing
            BY <2>1, <3>1 DEF RowsOf
        <3> QED
            BY <1>f, <2>2, <3>2
    <2>5. CASE EditSave(i)
        BY <1>0, <1>f, <2>1, <2>2, <2>5 DEF EditSave
    <2> QED
        BY <1>3, <2>3, <2>4, <2>5
<1>4. CASE BuildBlock \/ Refused \/ BuildAttachFails
    <2>1. /\ op.kind = "build" /\ NextBlock /\ phase = "build" /\ UNCHANGED <<phase, byPort, fronts>>
          /\ live' = live \/ live' = live \union {NewRow("none")}
        BY <1>4 DEF BuildBlock, Refused, BuildBlockRefused, BuildRegisterFails, BuildAttachFails, Building,
           BuildUnchanged, startup, AddRow, NewRow
    <2>2. op'.kind = "build"
        BY <2>1, NextBlockFacts DEF NextBlock
    <2>3. (\A r \in live : r.stop = "none") /\ phase # "serving"
        BY <1>0, <2>1 DEF PageUp
    <2>4. \A r \in live' : r.stop = "none"
        BY <2>1, <2>3, NewRowFacts
    <2>5. Shown(live)' = {}
        BY <2>4 DEF Shown
    <2>6. fronts' = {}
        BY <1>0, <1>g, <2>1, <2>3
    <2> QED
        BY <1>f, <2>2, <2>4, <2>5, <2>6 DEF StopsEarly, FrontsRun
<1>5. CASE Settle
    <2>1. phase = "bind" /\ phase' = "page" /\ live' \subseteq live /\ op' = op /\ fronts' = fronts
        BY <1>5 DEF Settle, SettleRows
    <2>2. (\A r \in live : r.stop = "none") /\ phase # "serving"
        BY <1>0, <2>1 DEF PageUp
    <2>3. \A r \in live' : r.stop = "none"
        BY <2>1, <2>2
    <2>4. Shown(live)' = {}
        BY <2>3 DEF Shown
    <2>5. fronts' = {}
        BY <1>0, <1>g, <2>1, <2>2
    <2> QED
        BY <1>f, <2>3, <2>4, <2>5 DEF StopsEarly, FrontsRun
<1>6. CASE WireFrontEnds
    <2>1. /\ phase = "discover" /\ phase' = "serving" /\ op' = op /\ op = Idle /\ byPort' = byPort
          /\ fronts' = fronts \union {FrontEnd(r, "boot") : r \in live}
          /\ live' = {[r EXCEPT !.stop = "boot"] : r \in live}
        BY <1>0, <1>6 DEF WireFrontEnds, book
    <2> DEFINE Wired(r) == [r EXCEPT !.stop = "boot"]
    <2>2. \A r \in live : FrontEnd(Wired(r), "boot") = FrontEnd(r, "boot")
        BY WiredFacts DEF FrontEnd, SameRow
    <2>3. \A q : (FrontEnd(q, q.stop))' = FrontEnd(q, q.stop)
        BY <2>1 DEF FrontEnd
    <2>4. Shown(live)' = {FrontEnd(q, "boot") : q \in live'}
        <3>1. \A q \in live' : q.stop = "boot"
            BY <2>1, WiredFacts
        <3> QED
            BY <2>3, <3>1 DEF Shown
    <2>5. {FrontEnd(q, "boot") : q \in live'} = {FrontEnd(r, "boot") : r \in live}
        <3>1. live' = {Wired(r) : r \in live}
            BY <2>1
        <3> HIDE DEF Wired
        <3> QED
            BY <2>2, <3>1
    <2>6. \A f \in fronts : f.by = "early"
        <3>1. \A f \in fronts : f \in Shown(live)
            BY <1>0, <2>1
        <3>2. \A r \in live : r.stop # "none" => r.stop = "early"
            BY <1>0, <2>1
        <3> QED
            BY <3>1, <3>2 DEF Shown, FrontEnd
    <2>7. FrontsRun'
        BY <2>1, <2>4, <2>5, <2>6 DEF FrontsRun
    <2>8. StopsEarly'
        BY <2>1 DEF StopsEarly, PageUp
    <2> QED
        BY <1>0, <1>f, <2>1, <2>7, <2>8
<1>7. CASE ReuseServer \/ StartServer \/ AwaitOk \/ Abandoned \/ EnableAttachFails
    <2>1. /\ op.kind = "enable" /\ UNCHANGED <<live, fronts, phase>> /\ phase' # "down" /\ ~Settle
          /\ op' = Idle \/ op'.kind = "enable"
        BY <1>0, <1>7 DEF ReuseServer, StartServer, StartServerAt, AwaitOk, AwaitOkThen, Abandoned,
           EnableAttachFails, Abandon, Enabling, SwitchUnchanged, startup, page, OpType, Settle, SettleRows, PageUp
    <2>2. Fronts
        BY <2>1, FrontsKeptStep, RowServersKept
    <2> QED
        BY <1>0, <1>f, <2>1, <2>2
<1>8. CASE EnableBlock
    <2> DEFINE q == NewRow(Starter)
    <2>1. /\ op.kind = "enable" /\ UNCHANGED <<phase, byPort>>
          /\ op' = [op EXCEPT !.blocks = @ \ {Block}, !.key = 0]
          /\ live' = live \union {q} /\ fronts' = fronts \union {FrontEnd(q, Starter)}
        BY <1>8 DEF EnableBlock, EnableBlockSaving, Enabling, SwitchUnchanged, startup, AddRow, NewRow
    <2>2. q.stop = Starter /\ Starter # "none" /\ op'.kind = "enable" /\ phase' \in PageUp
        BY <1>0, <2>1, NewRowFacts, PageStarters DEF OpType
    <2>3. phase # "serving" => Starter = "early"
        BY DEF Starter
    <2> HIDE DEF q
    <2>4. \A r : (FrontEnd(r, r.stop))' = FrontEnd(r, r.stop)
        BY <2>1 DEF FrontEnd
    <2>5. Shown(live)' = Shown(live) \union {FrontEnd(q, q.stop)}
        BY <2>1, <2>2, <2>4 DEF Shown
    <2>6. FrontsRun'
        BY <1>0, <2>1, <2>2, <2>5 DEF FrontsRun
    <2>7. StopsEarly'
        BY <1>0, <2>1, <2>2, <2>3 DEF StopsEarly
    <2> QED
        BY <1>0, <1>f, <2>2, <2>6, <2>7
<1>9. CASE DisableBlock \/ UnregisterFails
    <2>1. /\ Disabling /\ StopFrontEnd(ThisRow) /\ UNCHANGED <<phase, byPort>> /\ phase \in PageUp
          /\ NextBlock \/ op' = Idle
        BY <1>0, <1>9 DEF DisableBlock, CloseRow, UnregisterFails, SwitchUnchanged, startup, Disabling
    <2>2. FrontsRun'
        BY <1>0, <2>1, ShownStopped DEF FrontsRun
    <2>3. StopsEarly'
        BY <1>0, <2>1, StopFacts DEF StopsEarly
    <2>4. Closing
        <3>1. CASE op' = Idle
            BY <1>0, <3>1
        <3>2. CASE NextBlock
            <4>1. op'.inst = op.inst /\ op'.blocks = op.blocks \ {Block} /\ op.kind = "disable"
                BY <2>1, <3>2, NextBlockFacts DEF NextBlock, Disabling
            <4>2. ASSUME NEW r \in live', r.inst = op.inst, r.stop # "none" PROVE r.block \in op.blocks \ {Block}
                <5>1. r \in live /\ r # ThisRow
                    BY <2>1, <4>2, StopFacts
                <5>2. r.block # Block
                    BY <2>1, <4>2, <5>1, StopFacts DEF RowInv, OneRow
                <5> QED
                    BY <1>0, <4>1, <4>2, <5>1, <5>2
            <4> QED
                BY <4>1, <4>2
        <3> QED
            BY <2>1, <3>1, <3>2
    <2> QED
        BY <1>f, <2>2, <2>3, <2>4
<1>10. CASE DisableDone
    <2>1. /\ op.kind = "disable" /\ op.blocks = {} /\ op' = Idle /\ live' = live \ RowsOf(op.inst)
          /\ UNCHANGED <<phase, byPort, fronts>>
        BY <1>10 DEF DisableDone, DisableDoneLeaving, startup, book
    <2>2. \A r \in live \ live' : r.stop = "none"
        BY <1>0, <2>1 DEF RowsOf
    <2>3. \A r : (FrontEnd(r, r.stop))' = FrontEnd(r, r.stop)
        BY <2>1 DEF FrontEnd
    <2>4. {r \in live' : r.stop # "none"} = {r \in live : r.stop # "none"}
        BY <2>1, <2>2
    <2>5. Shown(live)' = Shown(live)
        BY <2>3, <2>4 DEF Shown
    <2>6. FrontsRun'
        BY <1>0, <2>1, <2>5 DEF FrontsRun
    <2>7. StopsEarly'
        BY <1>0, <2>1 DEF StopsEarly
    <2> QED
        BY <1>0, <1>f, <2>1, <2>6, <2>7
<1>11. CASE ProcessGone
    <2>1. live' = {} /\ fronts' = {} /\ op' = Idle
        BY <1>11 DEF ProcessGone
    <2>2. Shown(live)' = {}
        BY <2>1 DEF Shown
    <2> QED
        BY <1>0, <1>f, <2>1, <2>2 DEF StopsEarly, FrontsRun
<1> QED
    BY <1>1, <1>2, <1>3, <1>4, <1>5, <1>6, <1>7, <1>8, <1>9, <1>10, <1>11, RowsStep

LEMMA FrontEndsRight == Spec => []FrontEnds
<1>1. FrontEnds /\ UNCHANGED vars => FrontEnds'
    BY DEF vars, startup, book, page, FrontEnds, StopsEarly, FrontsRun, ClosedStopped, Shown, FrontEnd, RowsOf
<1>2. IInv /\ RowInv /\ FrontEnds /\ [Next]_vars => FrontEnds'
    BY <1>1, FrontEndsStep
<1>3. Init => FrontEnds
    BY DEF Init, FrontEnds, StopsEarly, FrontsRun, ClosedStopped, Shown, Idle
<1> QED
    BY <1>2, <1>3, Inductive, RowsInOrder, PTL DEF Spec

\* Every cancel function a row holds stops a front-end that runs, whenever the page was
\* used.  The front-ends that no row can stop are of one kind: those the page started
\* before the last loop of serve, which overwrites their cancel functions (run.go); no
\* later request adds one (startFrontEnd, setEnabled).
THEOREM FrontEndsMatchRows == Spec => []FrontEndsFollowRows
<1>1. FrontEnds => FrontEndsFollowRows
    BY DEF FrontEnds, FrontsRun, FrontEndsFollowRows
<1> QED
    BY <1>1, FrontEndsRight, PTL

\* What a disable that ends leaves of its instance never had a row to be stopped from: a
\* device whose setup form failed or that is on a server nobody serves, a front-end that
\* serve's wiring loop cut off from its row (setEnabled, stopDevice).
THEOREM DisablesStop == Spec => DisableStops
<1> DEFINE Ends == op.kind = "disable" /\ op.blocks = {} /\ op' = Idle /\ phase' # "down" =>
               /\ \A d \in regs' : d.inst = op.inst => d.sid \in failed \/ ~d.reload
               /\ \A f \in fronts' : f.inst = op.inst => f.by = "early"
<1>1. ASSUME IInv, DevicesRowed, FrontEnds, Next PROVE Ends
    <2> SUFFICES ASSUME op.kind = "disable", op.blocks = {}, op' = Idle, phase' # "down"
                 PROVE  /\ \A d \in regs' : d.inst = op.inst => d.sid \in failed \/ ~d.reload
                        /\ \A f \in fronts' : f.inst = op.inst => f.by = "early"
        OBVIOUS
    <2>1. ~ProcessGone /\ ~UnregisterFails
        BY DEF ProcessGone, UnregisterFails, Disabling
    <2>2. Idle.kind = "idle"
        BY DEF Idle
    <2>3. DisableDone
        BY <1>1, <2>1, <2>2, OpStep
    <2>4. regs' = regs /\ fronts' = fronts
        BY <2>3 DEF DisableDone, DisableDoneLeaving
    <2>5. \A d \in regs : d.inst = op.inst => d.sid \in failed \/ ~d.reload
        BY <1>1 DEF DevicesRowed
    <2>6. \A r \in live : r.stop # "none" => r.inst # op.inst
        BY <1>1 DEF FrontEnds, ClosedStopped, RowsOf
    <2>7. \A f \in Shown(live) : f.inst # op.inst
        BY <2>6 DEF Shown, FrontEnd
    <2>8. \A f \in fronts : f.inst = op.inst => f.by = "early"
        BY <1>1, <2>7 DEF FrontEnds, FrontsRun
    <2> QED
        BY <2>4, <2>5, <2>8
<1>2. IInv /\ DevicesRowed /\ FrontEnds /\ [Next]_vars => [Ends]_vars
    BY <1>1
<1> HIDE DEF Ends
<1>3. Spec => [][Ends]_vars
    BY <1>2, Inductive, DevicesStayRowed, FrontEndsRight, PTL DEF Spec
<1> QED
    BY <1>3 DEF DisableStops, Ends

-----------------------------------------------------------------------------
(* The ports that are announced and persisted.                              *)

\* A server that the page lists keeps its port, even when it dies.
LEMMA ListedPortsKept ==
    ASSUME IInv, ServerInv, Next, ~ProcessGone, phase \in PageUp, NEW k \in Keys, byPort[k] # 0
    PROVE  srv'[byPort[k]].port = srv[byPort[k]].port
<1> DEFINE n == byPort[k]
<1>1. n \in 1..nsrv /\ srv[n].port # 0
    BY DEF IInv, Created, ServersPorted, TypeOK, TypeBook, TypeNet
<1>2. srv[n].st # "starting"
    BY <1>1 DEF ServerInv, PortsOfBound
<1> HIDE DEF n
<1>3. ASSUME NEW s \in 1..nsrv, Runs(s) PROVE srv'[n].port = srv[n].port
    BY <1>1, <1>2, <1>3, RunsFacts
<1>4. ASSUME NEW st, NEW want, NEW by, Added(st, want, by) PROVE srv'[n].port = srv[n].port
    BY <1>1, <1>4, AddedFacts
<1>5. ~BindStart
    BY DEF BindStart, PageUp
<1> QED
    BY <1>3, <1>4, <1>5, ServersStep DEF n

\* Who started a server does not change.
LEMMA StartersKept ==
    ASSUME IInv, Next, ~ProcessGone
    PROVE  \A n \in 1..nsrv : n \in 1..nsrv' /\ srv'[n].by = srv[n].by
<1> DEFINE Goal == \A n \in 1..nsrv : n \in 1..nsrv' /\ srv'[n].by = srv[n].by
<1>1. ASSUME NEW s \in 1..nsrv, Runs(s) PROVE Goal
    BY <1>1, RunsFacts
<1>2. ASSUME NEW st, NEW want, NEW by, Added(st, want, by) PROVE Goal
    BY <1>2, AddedFacts
<1>3. CASE BindStart
    <2>1. srv'[NextToStart].by = srv[NextToStart].by
        BY <1>3, BindStartFacts DEF IInv, TypeOK, TypeNet, ServerIds, SrvType
    <2> QED
        BY <1>3, <2>1, BindStartFacts
<1>4. CASE UNCHANGED <<nsrv, srv, scanCount>>
    BY <1>4
<1> QED
    BY <1>1, <1>2, <1>3, <1>4, ServersStep

LEMMA BootServersKept == ASSUME IInv, Next, ~ProcessGone PROVE BootServers \subseteq BootServers'
BY StartersKept DEF BootServers

\* The server an enable waits for is the one it started.
LEMMA AwaitedStep ==
    ASSUME IInv, Next, op'.kind = "enable", op'.srv # 0
    PROVE  (op.kind = "enable" /\ op'.srv = op.srv) \/ StartServer
<1>0. op \in OpType /\ Idle.kind = "idle"
    BY DEF IInv, TypeOK, TypeOp, Idle
<1>1. ASSUME NEW i \in Instances, OpenEntry(i) \/ EnableBegin(i) \/ DisableBegin(i) PROVE FALSE
    BY <1>0, <1>1, OpenFacts, EnableFacts, DisableFacts
<1>2. ASSUME NEW i \in Instances, EditSave(i) PROVE op' = op
    BY <1>2 DEF EditSave
<1>3. ASSUME BuildBlock \/ Refused \/ BuildAttachFails \/ DisableBlock PROVE FALSE
    <2>1. op.kind \in {"build", "disable"} /\ NextBlock
        BY <1>3 DEF BuildBlock, Refused, BuildBlockRefused, BuildRegisterFails, BuildAttachFails, Building,
           DisableBlock, CloseRow, Disabling
    <2> QED
        BY <2>1, NextBlockFacts DEF NextBlock
<1>4. CASE ReuseServer \/ EnableBlock
    BY <1>0, <1>4 DEF ReuseServer, EnableBlock, EnableBlockSaving, Enabling, OpType
<1>5. ASSUME AwaitOk PROVE FALSE
    BY <1>0, <1>5 DEF AwaitOk, AwaitOkThen, OpType
<1>6. ASSUME Abandoned \/ EnableAttachFails \/ UnregisterFails \/ DisableDone \/ ProcessGone PROVE FALSE
    BY <1>0, <1>6 DEF Abandoned, EnableAttachFails, Abandon, UnregisterFails, DisableDone,
       DisableDoneLeaving, ProcessGone
<1>7. Quiet \/ Settle \/ WireFrontEnds => op' = op
    BY <1>0, SettleFacts DEF Quiet, WireFrontEnds
<1> QED
    BY <1>1, <1>2, <1>3, <1>4, <1>5, <1>6, <1>7, RowsStep

\* How far serve has come, as the responder sees it.
LEMMA PhaseStep ==
    ASSUME IInv, Next, ~ProcessGone, ~PublishResponder, ~Settle
    PROVE  /\ phase' \in {"discover", "serving"} <=> phase \in {"discover", "serving"}
           /\ phase' = "page" => phase = "page" /\ failed' = failed
<1>1. CASE Boot \/ BuildDone \/ WireFrontEnds \/ BindStart \/ BindOk \/ BindErr \/ BindTimeout
    BY <1>1 DEF Boot, BuildDone, WireFrontEnds, BindStart, BindOk, BindErr, BindTimeout, BindFails
<1>2. ASSUME NEW s \in 1..nsrv, Runs(s) PROVE phase' = phase /\ failed' = failed
    BY <1>2, ReportFacts
<1>3. ASSUME NEW i \in Instances, OpenEntry(i) PROVE phase' = phase /\ failed' = failed
    BY <1>3, OpenFacts
<1>4. StartServer => phase' = phase /\ failed' = failed
    BY DEF StartServer, StartServerAt, startup
<1> QED
    BY <1>1, <1>2, <1>3, <1>4, StartStep

\* Who lists a server, and who announces one.
LEMMA AnnounceStep ==
    ASSUME IInv, Next
    PROVE  \/ UNCHANGED <<resp, adv, byPort>>
           \/ PublishResponder \/ Settle \/ AwaitOk \/ ProcessGone
           \/ \E i \in Instances : OpenEntry(i)
<1>1. CASE Startup
    BY <1>1 DEF Startup, Boot, SkipDisabled, BuildBlock, BuildBlockRefused,
       BuildRegisterFails, BuildAttachFails, BuildUnchanged, CloseEntry, BuildDone, BindStart, BindOk,
       BindErr, BindTimeout, BindFails, WireFrontEnds, page, book
<1>2. CASE SwitchSteps
    BY <1>2 DEF SwitchSteps, ReuseServer, StartServer, StartServerAt, AwaitFails, AwaitEndsIf,
       EnableBuildFails, EnableNumberTaken, EnableRegisterFails, EnableAttachFails, Abandon,
       SwitchUnchanged, EnableBlock, EnableBlockSaving, EnableDone, DisableBlock, CloseRow,
       UnregisterFails, DisableDone, DisableDoneLeaving, page, book
<1>3. CASE Servers \/ Others
    BY <1>3 DEF Servers, ServerBinds, ServerFails, ServerDies, Others, OthersTake, OthersFree, EnvUnchanged,
       page, book
<1>4. CASE Requests
    BY <1>4 DEF Requests, EnableBegin, DisableBegin, EditSave, RestartRequest, page, book
<1>5. ASSUME NEW x \in pending.left, RestartStep(x) PROVE UNCHANGED <<resp, adv, byPort>>
    BY <1>5 DEF RestartStep, page, book
<1>6. CASE Sighup \/ Fatal \/ Stop
    BY <1>6 DEF Sighup, Fatal, Stop, page, book
<1> QED
    BY <1>1, <1>2, <1>3, <1>4, <1>5, <1>6 DEF Next

\* A server that an enable starts while there is no responder is an early one.
LEMMA AwaitedEarly ==
    ASSUME IInv, Attributed, Announced, Next, ~ProcessGone, phase' = "page", op'.kind = "enable", op'.srv # 0
    PROVE  srv'[op'.srv].by = "early" /\ op'.srv \notin failed'
<1>1. CASE Settle
    <2>1. op' = op /\ phase \notin PageUp
        BY <1>1, SettleFacts DEF PageUp
    <2> QED
        BY <2>1 DEF IInv, OpSane
<1>2. CASE ~Settle
    <2>1. phase = "page" /\ failed' = failed
        <3>1. ~PublishResponder
            BY DEF PublishResponder
        <3> QED
            BY <1>2, <3>1, PhaseStep
    <2>2. CASE op.kind = "enable" /\ op'.srv = op.srv
        <3>1. op.srv \in 1..nsrv
            BY <2>2 DEF IInv, OpSane, TypeOK, TypeOp, OpType
        <3>2. srv'[op.srv].by = srv[op.srv].by
            BY <3>1, StartersKept
        <3> QED
            BY <2>1, <2>2, <3>2 DEF Announced
    <2>3. CASE StartServer
        <3>1. ~resp /\ Creator = "early"
            BY <2>1 DEF Announced, Creator
        <3>2. op' = [op EXCEPT !.srv = nsrv + 1] /\ op.port \in Ports \union {0}
            BY <2>3 DEF StartServer, StartServerAt, IInv, TypeOK, TypeOp, OpType
        <3>3. op'.srv = nsrv + 1
            BY <3>2 DEF IInv, TypeOK, TypeOp, OpType
        <3>4. Added("starting", op.port, Creator)
            BY <2>3, <3>2 DEF StartServer, StartServerAt, Added
        <3>5. srv'[nsrv + 1] = [st |-> "starting", want |-> op.port, by |-> Creator, port |-> 0,
                                win |-> IF op.port = 0 THEN scanCount ELSE 0]
            BY <3>4, AddedFacts
        <3>6. nsrv + 1 \notin failed
            BY AttributedTypes
        <3> QED
            BY <2>1, <3>1, <3>3, <3>5, <3>6
    <2> QED
        BY <2>2, <2>3, AwaitedStep
<1> QED
    BY <1>1, <1>2

LEMMA AnnouncedStep ==
    ASSUME IInv, ServerInv, Attributed, Announced, Next PROVE Announced'
<1> DEFINE Awaited == phase' = "page" /\ op'.kind = "enable" /\ op'.srv # 0 =>
                          srv'[op'.srv].by = "early" /\ op'.srv \notin failed'
           Listed == /\ resp' <=> phase' \in {"discover", "serving"}
                     /\ ~resp' => \A k \in Keys : byPort'[k] # 0 =>
                           byPort'[k] \in BootServers' \/ srv'[byPort'[k]].by = "early"
                     /\ phase' = "page" => \A k \in Keys : byPort'[k] \notin failed'
                     /\ resp' => \A k \in Keys : byPort'[k] # 0 =>
                           srv'[byPort'[k]].port \in adv' \/ srv'[byPort'[k]].by = "early"
<1>0. /\ byPort \in [Keys -> 0..MaxServers] /\ failed \subseteq ServerIds /\ 0 \notin ServerIds
      /\ nsrv \in Nat /\ \A k \in Keys : byPort[k] # 0 => byPort[k] \in 1..nsrv
    BY DEF IInv, TypeOK, TypeBook, TypeStartup, TypeNet, ServerIds, Created
<1>1. CASE ProcessGone
    BY <1>1 DEF ProcessGone, Announced, Idle
<1>2. ASSUME ~ProcessGone PROVE Awaited
    BY <1>2, AwaitedEarly
<1>3. ASSUME ~ProcessGone, Listed PROVE Announced'
    BY <1>2, <1>3 DEF Announced
<1>4. CASE ~ProcessGone /\ UNCHANGED <<resp, adv, byPort>> /\ ~PublishResponder /\ ~Settle
    <2>1. /\ phase' \in {"discover", "serving"} <=> phase \in {"discover", "serving"}
          /\ phase' = "page" => phase = "page" /\ failed' = failed
        BY <1>4, PhaseStep
    <2>2. BootServers \subseteq BootServers'
        BY <1>4, BootServersKept
    <2>3. resp => phase \in PageUp
        BY DEF Announced, PageUp
    <2>4. \A k \in Keys : resp /\ byPort[k] # 0 => srv'[byPort[k]].port = srv[byPort[k]].port
        BY <1>4, <2>3, ListedPortsKept
    <2>5. \A k \in Keys : byPort[k] # 0 => srv'[byPort[k]].by = srv[byPort[k]].by
        BY <1>0, <1>4, StartersKept
    <2>6. Listed
        BY <1>4, <2>1, <2>2, <2>4, <2>5 DEF Announced
    <2> QED
        BY <1>3, <1>4, <2>6
<1>5. CASE PublishResponder
    <2>1. /\ phase = "page" /\ phase' = "discover" /\ resp' = TRUE /\ adv' = {srv[s].port : s \in Kept}
          /\ UNCHANGED <<byPort, srv>> /\ ~resp
        BY <1>5 DEF PublishResponder, net, book, Announced
    <2>2. \A k \in Keys : byPort[k] # 0 => byPort[k] \in Kept \/ srv[byPort[k]].by = "early"
        BY <2>1 DEF Announced, Kept
    <2>3. Listed
        BY <2>1, <2>2
    <2> QED
        BY <1>3, <2>1, <2>3 DEF ProcessGone
<1>6. CASE Settle
    <2>1. /\ phase = "bind" /\ phase' = "page" /\ UNCHANGED <<resp, nsrv, srv, failed>>
          /\ byPort' = [k \in Keys |-> IF byPort[k] \in failed THEN 0 ELSE byPort[k]]
        BY <1>6 DEF Settle, SettleRows, net
    <2>2. BootServers' = BootServers
        BY <2>1 DEF BootServers
    <2>3. ~resp /\ \A k \in Keys : byPort[k] # 0 => byPort[k] \in BootServers \/ srv[byPort[k]].by = "early"
        BY <2>1 DEF Announced
    <2>4. Listed
        BY <1>0, <2>1, <2>2, <2>3
    <2> QED
        BY <1>3, <2>1, <2>4 DEF ProcessGone
<1>7. ASSUME NEW i \in Instances, OpenEntry(i) PROVE Announced'
    <2>1. phase = "build" /\ phase' = "build" /\ ~resp /\ resp' = resp
        BY <1>7, OpenFacts DEF OpenEntry, Announced
    <2>2. ~ProcessGone
        BY <2>1 DEF ProcessGone
    <2>3. BootServers \subseteq BootServers'
        BY <2>2, BootServersKept
    <2>4. \A k \in Keys : byPort[k] # 0 => srv'[byPort[k]].by = srv[byPort[k]].by
        BY <1>0, <2>2, StartersKept
    <2>5. \A k \in Keys : byPort'[k] = byPort[k] \/ byPort'[k] \in BootServers'
        <3>1. CASE UNCHANGED <<net, byPort>>
            BY <3>1
        <3>2. CASE ~UNCHANGED <<net, byPort>>
            <4>1. byPort' = [byPort EXCEPT ![EntryKey(i)] = nsrv + 1] /\ Added("built", PortOf(i), "boot")
                BY <1>7, <3>2, EntryKeyType DEF OpenEntry, EntryKey, Added
            <4>2. srv'[nsrv + 1] = [st |-> "built", want |-> PortOf(i), by |-> "boot", port |-> 0,
                                    win |-> IF PortOf(i) = 0 THEN scanCount ELSE 0]
                BY <4>1, AddedFacts
            <4>3. srv'[nsrv + 1].by = "boot" /\ nsrv + 1 \in 1..nsrv'
                BY <4>1, <4>2, AddedFacts
            <4>4. nsrv + 1 \in BootServers'
                BY <4>3 DEF BootServers
            <4> QED
                BY <1>0, <4>1, <4>4
        <3> QED
            BY <3>1, <3>2
    <2>6. Listed
        BY <2>1, <2>3, <2>4, <2>5 DEF Announced
    <2> QED
        BY <1>3, <2>2, <2>6
<1>8. CASE AwaitOk
    <2>1. /\ phase' = phase /\ resp' = resp /\ srv' = srv /\ failed' = failed /\ nsrv' = nsrv
          /\ byPort' = [byPort EXCEPT ![NewKey] = op.srv]
          /\ adv' = IF resp THEN adv \union {srv[op.srv].port} ELSE adv
          /\ op.kind = "enable" /\ op.srv # 0
        BY <1>8 DEF AwaitOk, AwaitOkThen, Enabling, startup, net
    <2>2. phase \in PageUp
        BY <2>1 DEF IInv, OpSane
    <2>3. ~resp => phase = "page" /\ srv[op.srv].by = "early" /\ op.srv \notin failed
        BY <2>1, <2>2 DEF Announced, PageUp
    <2>4. phase = "page" => ~resp
        BY DEF Announced
    <2>5. BootServers' = BootServers
        BY <2>1 DEF BootServers
    <2>6. \A k \in Keys : byPort'[k] \in {byPort[k], op.srv}
        BY <1>0, <2>1
    <2>7. Listed
        BY <2>1, <2>3, <2>4, <2>5, <2>6 DEF Announced
    <2> QED
        BY <1>3, <2>1, <2>2, <2>7 DEF ProcessGone, PageUp
<1> QED
    BY <1>1, <1>4, <1>5, <1>6, <1>7, <1>8, AnnounceStep

LEMMA PortsAnnounced == Spec => []Announced
<1>1. Announced /\ UNCHANGED vars => Announced'
    BY DEF vars, startup, net, book, page, Announced, BootServers
<1>2. IInv /\ ServerInv /\ Attributed /\ Announced /\ [Next]_vars => Announced'
    BY <1>1, AnnouncedStep
<1>3. Init => Announced
    BY DEF Init, Announced, Idle
<1> QED
    BY <1>2, <1>3, Inductive, ServersRight, WaitsAreRight, PTL DEF Spec

\* Discovery finds every device in process, with one exception that the theorem pins
\* down: the responder is published with the ports of start-up, and a server that an
\* enable starts adds its own (addPort), so a port is missing only if its server was
\* started from the page before the responder was published, whatever else fails.
THEOREM PortsDiscoverable == Spec => []ServedPortsAdvertised
<1>1. IInv /\ Announced => ServedPortsAdvertised
    BY RowServer DEF Announced, ServedPortsAdvertised, RowPort, IInv, RowsHosted
<1> QED
    BY <1>1, Inductive, PortsAnnounced, PTL

\* Who writes the device files and the persisted ports.
LEMMA DiskStep ==
    ASSUME IInv, Next
    PROVE  /\ saved' = saved \/ Settle \/ EnableBlock
           /\ \/ file' = file
              \/ \E i \in Instances : EnableBegin(i) \/ DisableBegin(i) \/ EditSave(i)
              \/ Enabling /\ SetFile(op.inst, FALSE) /\ op' = Idle /\ live' = live
<1>1. ASSUME NEW i \in Instances, OpenEntry(i) \/ EnableBegin(i) \/ DisableBegin(i) \/ EditSave(i)
      PROVE  /\ saved' = saved
             /\ file' = file \/ EnableBegin(i) \/ DisableBegin(i) \/ EditSave(i)
    BY <1>1, OpenFacts, EnableFacts, DisableFacts DEF EditSave
<1>2. CASE Quiet \/ BuildBlock \/ Refused \/ BuildAttachFails \/ Settle \/ WireFrontEnds
    BY <1>2 DEF Quiet, BuildBlock, Refused, BuildBlockRefused, BuildRegisterFails, BuildAttachFails,
       BuildUnchanged, Settle, SettleRows, WireFrontEnds, disk
<1>3. CASE ReuseServer \/ StartServer \/ AwaitOk \/ EnableBlock \/ DisableBlock \/ UnregisterFails
           \/ DisableDone \/ ProcessGone
    BY <1>3 DEF ReuseServer, StartServer, StartServerAt, AwaitOk, AwaitOkThen, EnableBlock, EnableBlockSaving,
       DisableBlock, CloseRow, UnregisterFails, DisableDone, DisableDoneLeaving, ProcessGone, disk
<1>4. CASE Abandoned \/ EnableAttachFails
    BY <1>4 DEF Abandoned, EnableAttachFails, Abandon
<1> QED
    BY <1>1, <1>2, <1>3, <1>4, RowsStep

\* The switch is all of a file that it writes.
LEMMA SetFileFacts ==
    ASSUME IInv, NEW i \in Instances, NEW on \in BOOLEAN, SetFile(i, on), NEW j \in Instances
    PROVE  /\ file'[j].shape = file[j].shape /\ file'[j].port = file[j].port
           /\ file'[j].enable = IF j = i THEN on ELSE file[j].enable
BY DEF IInv, TypeOK, TypeDisk, FileType, SetFile

\* What holds of every file at first and of every draft holds of every file later, if
\* the switch does not change it.
LEMMA FilesStayServers ==
    ASSUME IInv, Next, OneServerEach, NEW i \in Instances, OneServer(file[i])
    PROVE  OneServer(file'[i])
<1>1. ASSUME NEW j \in Instances, NEW on \in BOOLEAN, SetFile(j, on) PROVE OneServer(file'[i])
    BY <1>1, SetFileFacts DEF OneServer, OneBlock
<1>2. ASSUME NEW j \in Instances, EnableBegin(j) \/ DisableBegin(j) PROVE OneServer(file'[i])
    BY <1>1, <1>2, EnableFacts, DisableFacts
<1>3. ASSUME NEW j \in Instances, EditSave(j) PROVE OneServer(file'[i])
    <2>1. PICK f \in Drafts : file' = [file EXCEPT ![j] = f]
        BY <1>3 DEF EditSave
    <2> QED
        BY <2>1 DEF OneServerEach, IInv, TypeOK, TypeDisk
<1>4. CASE Enabling /\ SetFile(op.inst, FALSE)
    <2>1. op.inst \in Instances
        BY <1>4 DEF Enabling, IInv, OpSane
    <2> QED
        BY <1>1, <1>4, <2>1
<1> QED
    BY <1>2, <1>3, <1>4, DiskStep

\* A block goes to the server that the rows of its instance are on.
LEMMA BlockJoinsRows ==
    ASSUME IInv, OneHost, BuildBlock \/ EnableBlock, NEW q \in live, q.inst = op.inst
    PROVE  q.key = op.key
<1>1. CASE BuildBlock
    BY <1>1 DEF BuildBlock, Building, OneHost, RowsOf
<1>2. CASE EnableBlock
    <2>1. op.kind = "enable" /\ op.blocks # {} /\ op.key # 0
        BY <1>2 DEF EnableBlock, EnableBlockSaving, Enabling
    <2> QED
        BY <2>1 DEF OneHost, RowsOf
<1> QED
    BY <1>1, <1>2

LEMMA OneHostStep == ASSUME IInv, RowInv, OneHost, Next, OneServerEach PROVE OneHost'
<1> DEFINE Files == \A i \in Instances : OneServer(file[i])
           Keyed == \A r, q \in live : r.inst = q.inst => r.key = q.key
           Builds == op.kind = "build" => \A r \in live : r.inst = op.inst => r.key = op.key
           Pinned == op.kind = "enable" /\ op.port # 0 =>
                        /\ op.key \in {0, op.port}
                        /\ \A r \in live : r.inst = op.inst => r.key = op.port
           Scans == op.kind = "enable" /\ op.port = 0 =>
                        /\ \A b, c \in op.blocks : b = c
                        /\ op.blocks = {} \/ \A r \in live : r.inst # op.inst
           Working == Builds /\ Pinned /\ Scans
<1>0. op \in OpType /\ Idle.kind = "idle" /\ Keyed /\ Working /\ Files
    BY DEF IInv, TypeOK, TypeOp, Idle, OneHost, RowsOf
<1>1. Files'
    BY <1>0, FilesStayServers
<1>2. Keyed'
    <2>1. \A r \in live' : \/ (BuildBlock \/ EnableBlock) /\ r.inst = op.inst /\ r.key = op.key
                           \/ \E x \in live : x.inst = r.inst /\ x.key = r.key
        BY RowsFrom, NewRowFacts DEF SameRow
    <2> QED
        BY <1>0, <2>1, BlockJoinsRows
<1>3. Working'
    <2>1. CASE op' = op /\ live' \subseteq live
        BY <1>0, <2>1
    <2>2. CASE op'.kind \notin {"build", "enable"}
        BY <2>2
    <2>3. CASE Quiet
        BY <1>0, <2>1, <2>2, <2>3 DEF Quiet
    <2>4. ASSUME NEW i \in Instances, OpenEntry(i) PROVE Working'
        <3>1. op'.kind = "build" /\ op'.inst = i /\ live' = live /\ \A r \in live : r.inst # i
            BY <2>4, OpenFacts DEF RowInv, OneRow, RowsOf
        <3> QED
            BY <3>1
    <2>5. ASSUME NEW i \in Instances, EnableBegin(i) PROVE Working'
        <3>1. CASE op' = Idle
            BY <1>0, <2>2, <3>1
        <3>2. CASE op' # Idle
            <4>1. /\ op'.kind = "enable" /\ op'.inst = i /\ op'.port = PortOf(i) /\ op'.key = 0
                  /\ op'.blocks = DOMAIN file[i].shape /\ live' = live /\ \A r \in live : r.inst # i
                BY <2>5, <3>2, EnableFacts DEF RowsOf
            <4>2. PortOf(i) = 0 => OneBlock(file[i])
                BY <1>0 DEF PortOf, OneServer
            <4> QED
                BY <4>1, <4>2 DEF OneBlock
        <3> QED
            BY <3>1, <3>2
    <2>6. ASSUME NEW i \in Instances, DisableBegin(i) \/ EditSave(i) PROVE Working'
        <3>1. CASE DisableBegin(i)
            BY <2>2, <3>1, DisableFacts
        <3>2. CASE EditSave(i)
            BY <2>1, <3>2 DEF EditSave
        <3> QED
            BY <2>6, <3>1, <3>2
    <2>7. CASE BuildBlock \/ Refused \/ BuildAttachFails
        <3>1. /\ op.kind = "build" /\ NextBlock
              /\ live' = live \/ live' = live \union {NewRow("none")}
            BY <2>7 DEF BuildBlock, Refused, BuildBlockRefused, BuildRegisterFails, BuildAttachFails,
               BuildUnchanged, Building, AddRow, NewRow
        <3>2. op'.kind = "build" /\ op'.inst = op.inst /\ op'.key = op.key
            BY <3>1, NextBlockFacts DEF NextBlock
        <3> QED
            BY <1>0, <3>1, <3>2, NewRowFacts
    <2>8. CASE Settle \/ WireFrontEnds
        <3>1. op' = op
            BY <2>8 DEF Settle, SettleRows, WireFrontEnds
        <3>2. CASE Settle
            BY <2>1, <3>1, <3>2 DEF Settle, SettleRows
        <3>3. CASE WireFrontEnds
            BY <1>0, <2>2, <3>1, <3>3 DEF WireFrontEnds
        <3> QED
            BY <2>8, <3>2, <3>3
    <2>9. CASE ReuseServer \/ StartServer \/ AwaitOk
        <3>1. /\ op.kind = "enable" /\ live' = live /\ op'.kind = "enable" /\ op'.inst = op.inst
              /\ op'.port = op.port /\ op'.blocks = op.blocks
            BY <1>0, <2>9 DEF ReuseServer, StartServer, StartServerAt, AwaitOk, AwaitOkThen, Enabling,
               page, OpType
        <3>2. op.port # 0 => op'.key \in {0, op.port}
            <4>1. CASE ReuseServer \/ StartServer
                BY <1>0, <4>1 DEF ReuseServer, StartServer, StartServerAt, OpType
            <4>2. CASE AwaitOk
                BY <1>0, <4>2 DEF AwaitOk, AwaitOkThen, NewKey, OpType
            <4> QED
                BY <2>9, <4>1, <4>2
        <3> QED
            BY <1>0, <3>1, <3>2
    <2>10. CASE EnableBlock
        <3>1. /\ op.kind = "enable" /\ op.blocks # {} /\ op.key # 0
              /\ op' = [op EXCEPT !.blocks = @ \ {Block}, !.key = 0]
              /\ live' = live \union {NewRow(Starter)}
            BY <2>10 DEF EnableBlock, EnableBlockSaving, Enabling, AddRow, NewRow
        <3>2. /\ op'.kind = "enable" /\ op'.inst = op.inst /\ op'.blocks = op.blocks \ {Block}
              /\ op'.key = 0 /\ op'.port = op.port
            BY <1>0, <3>1 DEF OpType
        <3>3. Block \in op.blocks
            BY <3>1, BlockFacts
        <3>4. Pinned'
            BY <1>0, <3>1, <3>2, NewRowFacts
        <3>5. Scans'
            BY <1>0, <3>1, <3>2, <3>3
        <3> QED
            BY <3>2, <3>4, <3>5
    <2>11. CASE Abandoned \/ EnableAttachFails \/ UnregisterFails \/ DisableDone \/ ProcessGone
        BY <1>0, <2>2, <2>11 DEF Abandoned, EnableAttachFails, Abandon, UnregisterFails, DisableDone,
           DisableDoneLeaving, ProcessGone
    <2>12. CASE DisableBlock
        <3>1. op.kind = "disable" /\ NextBlock
            BY <2>12 DEF DisableBlock, CloseRow, Disabling
        <3>2. op'.kind = "disable"
            BY <3>1, NextBlockFacts DEF NextBlock
        <3> QED
            BY <2>2, <3>2
    <2> QED
        BY <2>3, <2>4, <2>5, <2>6, <2>7, <2>8, <2>9, <2>10, <2>11, <2>12, RowsStep
<1> QED
    BY <1>1, <1>2, <1>3 DEF OneHost, RowsOf

\* The page is served from Settle on.
LEMMA PageUpFrom ==
    ASSUME IInv, Next, phase' \in PageUp, ~Settle
    PROVE  phase \in PageUp
<1>1. CASE Boot \/ BuildDone \/ BindStart \/ BindOk \/ BindErr \/ BindTimeout \/ ProcessGone
    BY <1>1 DEF Boot, BuildDone, BindStart, BindOk, BindErr, BindTimeout, BindFails, ProcessGone, PageUp
<1>2. CASE PublishResponder \/ WireFrontEnds
    BY <1>2 DEF PublishResponder, WireFrontEnds, PageUp
<1>3. ASSUME NEW s \in 1..nsrv, Runs(s) PROVE phase' = phase
    BY <1>3, ReportFacts
<1>4. ASSUME NEW i \in Instances, OpenEntry(i) PROVE phase' = phase
    BY <1>4, OpenFacts
<1>5. StartServer => phase' = phase
    BY DEF StartServer, StartServerAt, startup
<1> QED
    BY <1>1, <1>2, <1>3, <1>4, <1>5, StartStep

NoSaveError == "save" \notin Faults

LEMMA RememberedStep ==
    ASSUME IInv, ServerInv, RowInv, OneHost, Remembered, Next, NoSaveError PROVE Remembered'
<1> SUFFICES ASSUME phase' \in PageUp, NEW q \in live'
             PROVE  saved'[q.inst] = srv'[byPort'[q.key]].port
    BY DEF Remembered, RowPort
<1>0. ~ProcessGone /\ saved \in [Instances -> Ports \union {0}]
    BY DEF ProcessGone, PageUp, IInv, TypeOK, TypeDisk
<1>1. CASE Settle
    <2> DEFINE served == {r \in live : byPort[r.key] \notin failed}
               bound == [i \in {r.inst : r \in served} |->
                             srv[byPort[(CHOOSE r \in served : r.inst = i).key]].port]
    <2>1. live' = served /\ Persist(bound) /\ srv' = srv
        BY <1>1 DEF Settle, SettleRows, net
    <2>2. q \in live /\ q \in served /\ q.inst \in DOMAIN bound /\ q.inst \in Instances
        BY <2>1, RowServer
    <2>3. saved'[q.inst] = bound[q.inst]
        BY <2>1, <2>2 DEF Persist, NoSaveError
    <2>4. PICK c \in served : c.inst = q.inst /\ bound[q.inst] = srv[byPort[c.key]].port
        BY <2>2
    <2>5. c.key = q.key
        BY <2>2, <2>4 DEF OneHost
    <2>6. byPort'[q.key] = byPort[q.key]
        BY <1>1, <2>2, RowServer DEF Settle, SettleRows
    <2> QED
        BY <2>1, <2>3, <2>4, <2>5, <2>6
<1>2. CASE ~Settle
    <2>1. phase \in PageUp
        BY <1>2, PageUpFrom
    <2>2. \A r \in live : /\ byPort'[r.key] = byPort[r.key] /\ r.key \in Keys
                          /\ srv'[byPort[r.key]].port = srv[byPort[r.key]].port
        BY <1>0, <1>2, <2>1, RowServersKept, RowServer, ListedPortsKept DEF IInv, RowsHosted, PageUp
    <2>3. \A r \in live : saved[r.inst] = srv[byPort[r.key]].port
        BY <2>1 DEF Remembered, RowPort
    <2>4. CASE EnableBlock
        <3>1. /\ Persist([i \in {op.inst} |-> srv[Host].port]) /\ UNCHANGED <<byPort, srv>>
              /\ live' = live \union {NewRow(Starter)} /\ op.kind = "enable" /\ op.blocks # {}
            BY <2>4 DEF EnableBlock, EnableBlockSaving, SwitchUnchanged, net, Enabling, AddRow, NewRow
        <3>2. saved' = [saved EXCEPT ![op.inst] = srv[byPort[op.key]].port]
            BY <1>0, <3>1 DEF Persist, NoSaveError, Host
        <3>3. op.inst \in Instances
            BY <3>1 DEF IInv, OpSane
        <3>4. q.inst = op.inst => q.key = op.key
            BY <2>4, <3>1, BlockJoinsRows, NewRowFacts
        <3>5. NewRow(Starter).inst = op.inst
            BY NewRowFacts
        <3>6. CASE q.inst = op.inst
            BY <1>0, <3>1, <3>2, <3>3, <3>4, <3>6
        <3>7. CASE q.inst # op.inst
            <4>1. q \in live
                BY <3>1, <3>5, <3>7
            <4>2. saved'[q.inst] = saved[q.inst]
                BY <1>0, <3>2, <3>7, <4>1, RowServer
            <4> QED
                BY <2>3, <3>1, <4>1, <4>2
        <3> QED
            BY <3>6, <3>7
    <2>5. CASE saved' = saved /\ ~EnableBlock
        <3>1. ~BuildBlock
            BY <2>1 DEF BuildBlock, Building, PageUp
        <3>2. PICK r \in live : SameRow(r, q)
            BY <2>5, <3>1, RowsFrom
        <3>3. q.key = r.key /\ q.inst = r.inst
            BY <3>2 DEF SameRow
        <3> QED
            BY <2>2, <2>3, <2>5, <3>3
    <2> QED
        BY <1>2, <2>4, <2>5, DiskStep
<1> QED
    BY <1>1, <1>2

\* The rows of an instance have one port, and a restart finds that port again: serve
\* and setEnabled persist it when the server is bound, and the port of a server that is
\* listed never changes.  What defeats this: a write that fails, or an entry whose blocks
\* got a server each.
THEOREM PortsPersist ==
    ASSUME NoSaveError, OneServerEach
    PROVE  Spec => []PortRemembered
<1>1. OneHost /\ Remembered /\ UNCHANGED vars => OneHost' /\ Remembered'
    BY DEF vars, disk, startup, net, book, page, OneHost, Remembered, RowPort, RowsOf, OneServer, OneBlock
<1>2. IInv /\ ServerInv /\ RowInv /\ OneHost /\ Remembered /\ [Next]_vars => OneHost' /\ Remembered'
    BY <1>1, OneHostStep, RememberedStep
<1>3. Init => OneHost /\ Remembered
    BY FilesAssumption DEF Init, OneHost, Remembered, RowsOf, Idle, OneServerEach
<1>4. Remembered => PortRemembered
    BY DEF Remembered, PortRemembered, PageUp
<1> QED
    BY <1>2, <1>3, <1>4, Inductive, ServersRight, RowsInOrder, PTL DEF Spec

-----------------------------------------------------------------------------
(* The switch in the file and what runs.                                    *)

LEMMA FilesStayOneBlock ==
    ASSUME IInv, Next, OneBlockEach, NEW i \in Instances, OneBlock(file[i])
    PROVE  OneBlock(file'[i])
<1>1. ASSUME NEW j \in Instances, NEW on \in BOOLEAN, SetFile(j, on) PROVE OneBlock(file'[i])
    BY <1>1, SetFileFacts DEF OneBlock
<1>2. ASSUME NEW j \in Instances, EnableBegin(j) \/ DisableBegin(j) PROVE OneBlock(file'[i])
    BY <1>1, <1>2, EnableFacts, DisableFacts
<1>3. ASSUME NEW j \in Instances, EditSave(j) PROVE OneBlock(file'[i])
    <2>1. PICK f \in Drafts : file' = [file EXCEPT ![j] = f]
        BY <1>3 DEF EditSave
    <2> QED
        BY <2>1 DEF OneBlockEach, IInv, TypeOK, TypeDisk
<1>4. CASE Enabling /\ SetFile(op.inst, FALSE)
    <2>1. op.inst \in Instances
        BY <1>4 DEF Enabling, IInv, OpSane
    <2> QED
        BY <1>1, <1>4, <2>1
<1> QED
    BY <1>2, <1>3, <1>4, DiskStep

\* A row that stays is enabled in its file, or the disable that closes it goes on.
LEMMA RowStaysEnabled ==
    ASSUME IInv, Enabled, Next, NoUnregisterError, OneBlockEach, NEW r \in live,
           \E q \in live' : q.inst = r.inst
    PROVE  file'[r.inst].enable \/ (op'.kind = "disable" /\ r.inst = op'.inst)
<1>0. ~UnregisterFails /\ ~ProcessGone /\ Idle.kind = "idle" /\ r.inst \in Instances
    BY RowServer DEF UnregisterFails, NoUnregisterError, ProcessGone, Idle
<1>1. CASE op.kind = "disable" /\ r.inst = op.inst /\ file' = file
    <2>1. ~DisableDone
        BY <1>1 DEF DisableDone, DisableDoneLeaving, RowsOf
    <2>2. op'.kind = "disable" /\ op'.inst = op.inst
        BY <1>0, <1>1, <2>1, OpStep
    <2> QED
        BY <1>1, <2>2
<1>2. CASE file[r.inst].enable /\ file' = file
    BY <1>2
<1>3. ASSUME NEW i \in Instances, EnableBegin(i)
      PROVE  file'[r.inst].enable
    <2>1. op = Idle /\ SetFile(i, TRUE)
        BY <1>3, EnableFacts
    <2>2. file[r.inst].enable
        BY <1>0, <2>1 DEF Enabled
    <2> QED
        BY <1>0, <2>1, <2>2, SetFileFacts, ZenonT(60)
<1>4. ASSUME NEW i \in Instances, DisableBegin(i)
      PROVE  file'[r.inst].enable \/ (op'.kind = "disable" /\ r.inst = op'.inst)
    <2>1. op = Idle /\ SetFile(i, FALSE) /\ op'.kind = "disable" /\ op'.inst = i
        BY <1>4, DisableFacts
    <2>2. file[r.inst].enable
        BY <1>0, <2>1 DEF Enabled
    <2> QED
        BY <1>0, <2>1, <2>2, SetFileFacts, ZenonT(60)
<1>5. ASSUME NEW i \in Instances, EditSave(i) PROVE file'[r.inst].enable
    <2>1. op = Idle
        BY <1>5 DEF EditSave, Ready
    <2>2. file[r.inst].enable
        BY <1>0, <2>1 DEF Enabled
    <2>3. PICK f \in Drafts : file' = [file EXCEPT ![i] = f]
        BY <1>5 DEF EditSave
    <2> QED
        BY <1>0, <2>2, <2>3 DEF OneBlockEach, IInv, TypeOK, TypeDisk
<1>6. CASE Enabling /\ SetFile(op.inst, FALSE)
    <2>1. op.kind = "enable" /\ op.blocks # {} /\ op.inst \in Instances
        BY <1>6 DEF Enabling, IInv, OpSane
    <2>2. r.inst # op.inst /\ file[r.inst].enable
        BY <2>1 DEF Enabled, RowsOf
    <2> QED
        BY <1>0, <1>6, <2>1, <2>2, SetFileFacts, ZenonT(60)
<1>7. file[r.inst].enable \/ (op.kind = "disable" /\ r.inst = op.inst)
    BY DEF Enabled
<1> QED
    BY <1>1, <1>2, <1>3, <1>4, <1>5, <1>6, <1>7, DiskStep

LEMMA EnabledStep ==
    ASSUME IInv, RowInv, Enabled, Next, NoUnregisterError, OneBlockEach PROVE Enabled'
<1> DEFINE Working == op.kind \in {"build", "enable"} =>
               /\ file[op.inst].enable
               /\ \A b, c \in op.blocks : b = c
               /\ op.blocks = {} \/ \A r \in live : r.inst # op.inst
<1>0. op \in OpType /\ Idle.kind = "idle" /\ Working
    BY DEF IInv, TypeOK, TypeOp, Idle, Enabled, RowsOf
<1>1. \A i \in Instances : OneBlock(file'[i])
    BY FilesStayOneBlock DEF Enabled
<1>2. ASSUME NEW q \in live' PROVE file'[q.inst].enable \/ (op'.kind = "disable" /\ q.inst = op'.inst)
    <2>1. CASE (BuildBlock \/ EnableBlock) /\ q.inst = op.inst
        <3>1. op.kind \in {"build", "enable"} /\ file' = file
            BY <2>1 DEF BuildBlock, Building, BuildUnchanged, EnableBlock, EnableBlockSaving, Enabling, disk
        <3> QED
            BY <1>0, <2>1, <3>1
    <2>2. ASSUME NEW r \in live, SameRow(r, q)
          PROVE  file'[q.inst].enable \/ (op'.kind = "disable" /\ q.inst = op'.inst)
        <3>1. q.inst = r.inst
            BY <2>2 DEF SameRow
        <3> QED
            BY <3>1, RowStaysEnabled
    <2> QED
        BY <2>1, <2>2, RowsFrom, NewRowFacts
<1>3. Working'
    <2>1. CASE op' = op /\ live' \subseteq live /\ file' = file
        BY <1>0, <2>1
    <2>2. CASE op'.kind \notin {"build", "enable"}
        BY <2>2
    <2>3. CASE Quiet
        BY <1>0, <2>1, <2>2, <2>3 DEF Quiet
    <2>4. ASSUME NEW i \in Instances, OpenEntry(i) PROVE Working'
        <3>1. /\ op'.blocks = DOMAIN file[i].shape /\ op'.inst = i /\ live' = live /\ file' = file
              /\ file[i].enable /\ \A r \in live : r.inst # i
            BY <2>4, OpenFacts DEF RowInv, OneRow, RowsOf
        <3> QED
            BY <3>1 DEF Enabled, OneBlock
    <2>5. ASSUME NEW i \in Instances, EnableBegin(i), op' # Idle PROVE Working'
        <3>1. /\ op'.blocks = DOMAIN file[i].shape /\ op'.inst = i /\ live' = live
              /\ SetFile(i, TRUE) /\ \A r \in live : r.inst # i
            BY <2>5, EnableFacts DEF RowsOf
        <3>2. file'[i].enable
            BY <3>1, SetFileFacts
        <3> QED
            BY <3>1, <3>2 DEF Enabled, OneBlock
    <2>6. ASSUME NEW i \in Instances,
                 (EnableBegin(i) /\ op' = Idle) \/ DisableBegin(i) \/ EditSave(i)
          PROVE  op'.kind \notin {"build", "enable"}
        BY <1>0, <2>6, DisableFacts DEF EditSave, Ready
    <2>7. CASE BuildBlock \/ Refused \/ BuildAttachFails
        <3>1. op.kind = "build" /\ NextBlock /\ op.blocks # {} /\ file' = file
            BY <2>7 DEF BuildBlock, Refused, BuildBlockRefused, BuildRegisterFails, BuildAttachFails,
               BuildUnchanged, Building, disk
        <3>2. op'.inst = op.inst /\ op'.blocks = op.blocks \ {Block} /\ Block \in op.blocks
            BY <3>1, NextBlockFacts, BlockFacts DEF NextBlock
        <3> QED
            BY <1>0, <3>1, <3>2
    <2>8. CASE Settle \/ WireFrontEnds
        <3>1. CASE Settle
            BY <2>1, <3>1 DEF Settle, SettleRows
        <3>2. CASE WireFrontEnds
            BY <1>0, <2>2, <3>2 DEF WireFrontEnds
        <3> QED
            BY <2>8, <3>1, <3>2
    <2>9. CASE ReuseServer \/ StartServer \/ AwaitOk
        <3>1. /\ op.kind = "enable" /\ live' = live /\ file' = file /\ op'.inst = op.inst
              /\ op'.blocks = op.blocks
            BY <1>0, <2>9 DEF ReuseServer, StartServer, StartServerAt, AwaitOk, AwaitOkThen, Enabling,
               page, disk, OpType
        <3> QED
            BY <1>0, <3>1
    <2>10. CASE EnableBlock
        <3>1. /\ op.kind = "enable" /\ op.blocks # {} /\ file' = file
              /\ op' = [op EXCEPT !.blocks = @ \ {Block}, !.key = 0]
            BY <2>10 DEF EnableBlock, EnableBlockSaving, Enabling
        <3>2. op'.inst = op.inst /\ op'.blocks = op.blocks \ {Block} /\ Block \in op.blocks
            BY <1>0, <3>1, BlockFacts DEF OpType
        <3> QED
            BY <1>0, <3>1, <3>2
    <2>11. CASE Abandoned \/ EnableAttachFails \/ UnregisterFails \/ DisableDone \/ ProcessGone
        BY <1>0, <2>2, <2>11 DEF Abandoned, EnableAttachFails, Abandon, UnregisterFails, DisableDone,
           DisableDoneLeaving, ProcessGone
    <2>12. CASE DisableBlock
        <3>1. op.kind = "disable" /\ NextBlock
            BY <2>12 DEF DisableBlock, CloseRow, Disabling
        <3>2. op'.kind = "disable"
            BY <3>1, NextBlockFacts DEF NextBlock
        <3> QED
            BY <2>2, <3>2
    <2> QED
        BY <2>2, <2>3, <2>4, <2>5, <2>6, <2>7, <2>8, <2>9, <2>10, <2>11, <2>12, RowsStep
<1> QED
    BY <1>1, <1>2, <1>3 DEF Enabled, RowsOf

\* Between requests the file of every device in process says enabled: setEnabled writes
\* the switch before it acts and writes it back when an enable fails.  What defeats
\* this: an Unregister that fails, an enable of several blocks that fails halfway, and
\* a draft that turns the switch off (handleEdit stops nothing).
THEOREM SwitchTellsTruth ==
    ASSUME NoUnregisterError, OneBlockEach
    PROVE  Spec => []RunningIsEnabled
<1>1. Enabled /\ UNCHANGED vars => Enabled'
    BY DEF vars, disk, page, Enabled, RowsOf, OneBlock
<1>2. IInv /\ RowInv /\ Enabled /\ [Next]_vars => Enabled'
    BY <1>1, EnabledStep
<1>3. Init => Enabled
    BY FilesAssumption DEF Init, Enabled, RowsOf, Idle, OneBlockEach
<1>4. Enabled => RunningIsEnabled
    BY DEF Enabled, RunningIsEnabled, Idle
<1> QED
    BY <1>2, <1>3, <1>4, Inductive, RowsInOrder, PTL DEF Spec
=============================================================================
