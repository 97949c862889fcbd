-------------------------------- MODULE Herd --------------------------------
(***************************************************************************)
(* The orchestrator process of alpacahurd for drivers compiled into it:    *)
(* the start-up sequence of serve (hurd/run.go), the enable switch of the  *)
(* page (hurd/toggle.go), device registration (hurd/build.go), Restart     *)
(* (hurd/orchestrator_page.go) and the reload signal, over the goalpaca    *)
(* servers it runs, the device files and the persisted ports.              *)
(*                                                                         *)
(* A server is known by the order of its creation, 1..nsrv.  A device      *)
(* address is <<server, device type, device number>>.  byPort is keyed by  *)
(* the configured port, or by -1, -2, ... for a server that scans.         *)
(***************************************************************************)
EXTENDS DeviceNumbers

CONSTANTS
    Instances,    \* device files (one instance each)
    Nobody,       \* the instance of an idle orchestrator
    Types,        \* ASCOM device types
    TypeOf,       \* the type of the driver each file names
    Settings,     \* versions of a file's driver settings
    Shapes,       \* what subSpecs makes of a file: enabled block -> its pin
    InitFiles,    \* the device files the process may be started with
    Drafts,       \* the texts a user may save in the editor
    Ports,        \* TCP ports
    ScanBase,     \* portScanBase
    ScanSpan,     \* portScanSpan
    Contested,    \* ports that other programs may hold
    Faults,       \* the failures and races a run lets happen
    MaxServers,   \* bound: servers created in one life of the process
    MaxRegs       \* bound: devices registered at once

\* The block of an entry that is not split into blocks (spec.Block == nil).
Flat == -1
Blocks == UNION {DOMAIN s : s \in Shapes}

FileType == [enable : BOOLEAN, port : Ports \union {0}, shape : Shapes, cfg : Settings]
FaultKinds == {"early", "build", "register", "attach", "unregister",
               "timeout", "die", "stop", "save"}

ASSUME InstancesFinite == IsFiniteSet(Instances) /\ Nobody \notin Instances
ASSUME TypeOfAssumption == TypeOf \in [Instances -> Types]
ASSUME PortsAssumption == Ports \subseteq Nat \ {0} /\ Contested \subseteq Ports
ASSUME ScanAssumption == ScanBase \in Nat /\ ScanSpan \in Nat \ {0}
ASSUME ShapesAssumption ==
    \A s \in Shapes : /\ DOMAIN s \subseteq Nat \union {Flat}
                      /\ \A b \in DOMAIN s : s[b] \in Int
ASSUME FilesAssumption == InitFiles \subseteq [Instances -> FileType] /\ Drafts \subseteq FileType
ASSUME BoundsAssumption == MaxServers \in Nat /\ MaxRegs \in Nat
ASSUME FaultsAssumption == Faults \subseteq FaultKinds

VARIABLES
    file,       \* devices.d: the admin file of each instance
    saved,      \* state file: the port persisted for the instance, 0 if none
    busy,       \* ports held by other programs
    phase,      \* how far serve has come
    todo,       \* entries serve's build loop has not reached
    waiting,    \* the server startOne waits for, 0 if none
    failed,     \* serve's failed: servers whose startup wait ended in an error
    errc,       \* serve's errc: servers whose Run error nobody has read
    blame,      \* history: <<s, e>> if e's error ended the wait for s, <<s, 0>> if the deadline did
    nsrv, srv,  \* servers created so far
    byPort,     \* orchestrator.byPort, 0 if absent
    byBound,    \* orchestrator.servers, by bound port, 0 if absent
    used,       \* orchestrator.nums: numbers taken under each key
    scanCount,  \* orchestrator.scanCount
    regs,       \* devices registered on the servers
    live,       \* rows with inProcess set
    rowOn,      \* the first row of the instance says enabled
    fronts,     \* driver front-ends that run
    resp, adv,  \* the discovery responder is published; the ports it announces
    op,         \* what holds orchestrator.mu (or serve's build loop)
    pending     \* the Restart request between its snapshot and its Reloads

disk    == <<file, saved>>
startup == <<phase, todo, waiting, failed, errc, blame>>
net     == <<busy, nsrv, srv>>
book    == <<byPort, byBound, used, scanCount>>
page    == <<live, rowOn, fronts, resp, adv>>
vars    == <<disk, startup, net, book, regs, page, op, pending>>

-----------------------------------------------------------------------------
(* Shapes of the state.                                                     *)

ServerIds == 1..MaxServers
Keys == Ports \union {-k : k \in ServerIds}
Phases == {"down", "build", "bind", "page", "discover", "serving"}

NoServer == [st |-> "none", want |-> 0, win |-> 0, port |-> 0, by |-> "boot"]
Idle == [kind |-> "idle", inst |-> Nobody, port |-> 0, key |-> 0, srv |-> 0, blocks |-> {}]
NoRestart == [inst |-> Nobody, left |-> {}]

\* A device registered with a server, the settings it was built from, and whether
\* SetReloader was called for it.
Registration(s, i, b, n, re) ==
    [sid |-> s, type |-> TypeOf[i], num |-> n, inst |-> i, block |-> b, cfg |-> file[i].cfg, reload |-> re]

\* A table row that is served in process, with the front-end it can stop.
Row(i, b, key, n, stop) == [inst |-> i, block |-> b, key |-> key, num |-> n, stop |-> stop]

RowsOf(i) == {r \in live : r.inst = i}
First(S) == CHOOSE b \in S : \A c \in S : b <= c
Last(S)  == CHOOSE b \in S : \A c \in S : b >= c

\* The port loadDeviceFile yields: the admin's, else the persisted one.
PortOf(i) == IF file[i].port # 0 THEN file[i].port ELSE saved[i]

\* byPort lists a server for a configured port.
HasServer(port) == port # 0 /\ byPort[port] # 0

NoNumbers == [t \in Types |-> {}]

\* A free TCP port: no other program and no server of ours listens on it.
FreePort(p) == /\ p \notin busy
               /\ \A s \in ServerIds : ~(srv[s].st = "bound" /\ srv[s].port = p)
Window(w) == {p \in Ports : /\ p >= ScanBase + w * ScanSpan
                            /\ p <  ScanBase + (w + 1) * ScanSpan}
Candidates(s) == {p \in IF srv[s].want # 0 THEN {srv[s].want} ELSE Window(srv[s].win) : FreePort(p)}

\* The servers of serve's local list after the ones that failed are dropped.
BootServers == {s \in 1..nsrv : srv[s].by = "boot"}
Kept == BootServers \ failed

Init ==
    /\ file \in InitFiles
    /\ saved = [i \in Instances |-> 0]
    /\ busy = {}
    /\ phase = "down" /\ todo = {} /\ waiting = 0 /\ failed = {} /\ errc = {} /\ blame = {}
    /\ nsrv = 0 /\ srv = [s \in ServerIds |-> NoServer]
    /\ byPort = [k \in Keys |-> 0] /\ byBound = [p \in Ports |-> 0]
    /\ used = [k \in Keys |-> NoNumbers] /\ scanCount = 0
    /\ regs = {} /\ live = {} /\ rowOn = [i \in Instances |-> FALSE]
    /\ fronts = {} /\ resp = FALSE /\ adv = {}
    /\ op = Idle /\ pending = NoRestart

\* The process ends: only the files and the other programs remain.
ProcessGone ==
    /\ phase' = "down" /\ todo' = {} /\ waiting' = 0 /\ failed' = {} /\ errc' = {} /\ blame' = {}
    /\ nsrv' = 0 /\ srv' = [s \in ServerIds |-> NoServer]
    /\ byPort' = [k \in Keys |-> 0] /\ byBound' = [p \in Ports |-> 0]
    /\ used' = [k \in Keys |-> NoNumbers] /\ scanCount' = 0
    /\ regs' = {} /\ live' = {} /\ rowOn' = [i \in Instances |-> FALSE]
    /\ fronts' = {} /\ resp' = FALSE /\ adv' = {}
    /\ op' = Idle /\ pending' = NoRestart
    /\ UNCHANGED <<disk, busy>>

NewServer(st, want, win, by) ==
    /\ nsrv < MaxServers
    /\ nsrv' = nsrv + 1
    /\ srv' = [srv EXCEPT ![nsrv + 1] =
                  [st |-> st, want |-> want, win |-> win, port |-> 0, by |-> by]]
    /\ busy' = busy

-----------------------------------------------------------------------------
(* Registering one block: deviceNumbers.assign, srv.Register and            *)
(* attachSetupForm, for the operation op on the server under op.key.        *)

Block  == First(op.blocks)
Pin    == file[op.inst].shape[Block]
Here   == used[op.key][TypeOf[op.inst]]
Number == NumberFor(Here, Pin)
Host   == byPort[op.key]

Assignable  == CanAssign(Here, Pin)
TakeNumber  == used' = [used EXCEPT ![op.key][TypeOf[op.inst]] = @ \union {Number}]
AddDevice(re) == regs' = regs \union {Registration(Host, op.inst, Block, Number, re)}
AddRow(stop) == live' = live \union {Row(op.inst, Block, op.key, Number, stop)}

-----------------------------------------------------------------------------
(* Start-up: serve, one action per step that other code can observe.        *)

\* main loads the configuration and calls serve.
Boot ==
    /\ phase = "down"
    /\ phase' = "build" /\ todo' = Instances
    /\ UNCHANGED <<disk, waiting, failed, errc, blame, net, book, regs, page, op, pending>>

\* A disabled entry only gets its row.
SkipDisabled(i) ==
    /\ phase = "build" /\ op = Idle /\ i \in todo
    /\ ~file[i].enable
    /\ todo' = todo \ {i}
    /\ UNCHANGED <<disk, phase, waiting, failed, errc, blame, net, book, regs, page, op, pending>>

\* An enabled entry picks its server: the one of its port, or a new one.
OpenEntry(i) ==
    LET port == PortOf(i)
        key  == IF port = 0 THEN -1 - scanCount ELSE port
    IN  /\ phase = "build" /\ op = Idle /\ i \in todo
        /\ file[i].enable
        /\ todo' = todo \ {i}
        /\ rowOn' = [rowOn EXCEPT ![i] = TRUE]
        /\ op' = [Idle EXCEPT !.kind = "build", !.inst = i, !.port = port, !.key = key,
                              !.blocks = DOMAIN file[i].shape]
        /\ \/ /\ HasServer(port)
              /\ UNCHANGED <<net, byPort, used, scanCount>>
           \/ /\ ~HasServer(port)
              /\ NewServer("built", port, IF port = 0 THEN scanCount ELSE 0, "boot")
              /\ byPort' = [byPort EXCEPT ![key] = nsrv + 1]
              /\ used' = [used EXCEPT ![key] = NoNumbers]
              /\ scanCount' = IF port = 0 THEN scanCount + 1 ELSE scanCount
        /\ UNCHANGED <<disk, phase, waiting, failed, errc, blame, byBound, regs, live, fronts, resp, adv,
                       pending>>

NextBlock == op' = [op EXCEPT !.blocks = @ \ {Block}]
Building == phase = "build" /\ op.kind = "build" /\ op.blocks # {}
BuildUnchanged == UNCHANGED <<disk, startup, net, byPort, byBound, scanCount, rowOn, fronts, resp, adv, pending>>

\* registerDevice succeeds: the block has its row.
BuildBlock ==
    /\ Building /\ Assignable
    /\ TakeNumber /\ AddDevice(TRUE) /\ AddRow("none") /\ NextBlock
    /\ BuildUnchanged

\* buildDevice or assign fails: the block is skipped.
BuildBlockRefused ==
    /\ Building
    /\ "build" \in Faults \/ ~Assignable
    /\ NextBlock
    /\ BuildUnchanged /\ UNCHANGED <<used, regs, live>>

\* srv.Register fails: the block is skipped, its number stays taken.
BuildRegisterFails ==
    /\ Building /\ Assignable /\ "register" \in Faults
    /\ TakeNumber /\ NextBlock
    /\ BuildUnchanged /\ UNCHANGED <<regs, live>>

\* attachSetupForm fails: the block is skipped, yet the device is registered.
BuildAttachFails ==
    /\ Building /\ Assignable /\ "attach" \in Faults
    /\ TakeNumber /\ AddDevice(FALSE) /\ NextBlock
    /\ BuildUnchanged /\ UNCHANGED live

CloseEntry ==
    /\ phase = "build" /\ op.kind = "build" /\ op.blocks = {}
    /\ op' = Idle
    /\ UNCHANGED <<disk, startup, net, book, regs, page, pending>>

BuildDone ==
    /\ phase = "build" /\ op = Idle /\ todo = {}
    /\ phase' = "bind"
    /\ UNCHANGED <<disk, todo, waiting, failed, errc, blame, net, book, regs, page, op, pending>>

\* Fixed ports first, then the scanning servers, each in creation order.
Unstarted == {s \in 1..nsrv : srv[s].st = "built"}
FixedUnstarted == {s \in Unstarted : srv[s].want # 0}
\* Seeded bug: servers start in creation order, scanning or not.
InCreationOrder == First(Unstarted)
NextToStart == First(IF FixedUnstarted # {} THEN FixedUnstarted ELSE Unstarted)

\* startOne: Run in a goroutine, then wait for this server alone.
BindStart ==
    /\ phase = "bind" /\ waiting = 0 /\ Unstarted # {}
    /\ waiting' = NextToStart
    /\ srv' = [srv EXCEPT ![NextToStart].st = "starting"]
    /\ UNCHANGED <<disk, phase, todo, failed, errc, blame, busy, nsrv, book, regs, page, op, pending>>

\* waitBound sees the port.
BindOk ==
    /\ phase = "bind" /\ waiting # 0 /\ srv[waiting].port # 0
    /\ waiting' = 0
    /\ UNCHANGED <<disk, phase, todo, failed, errc, blame, net, book, regs, page, op, pending>>

\* startOne ends in an error: that of server ender, or the deadline's if ender is 0;
\* of the errors on the channel, left remain.
BindFails(ender, left) ==
    /\ phase = "bind" /\ waiting # 0
    /\ failed' = failed \union {waiting} /\ waiting' = 0
    /\ errc' = left
    /\ blame' = blame \union {<<waiting, ender>>}
    /\ UNCHANGED <<disk, phase, todo, net, book, regs, page, op, pending>>

\* Seeded bug: the error is looked at but left on the channel.
BindErrUnread == \E e \in errc : BindFails(e, errc)
\* waitBound reads an error: the next on the channel that all servers share,
\* whoever sent it.
BindErr == \E e \in errc : BindFails(e, errc \ {e})

\* Seeded bug: no deadline, only a server that is down ends the wait.
BindNoDeadline == waiting # 0 /\ srv[waiting].st = "dead" /\ BindFails(0, errc)
\* waitBound gives up after 10 s; nothing stops the server.
BindTimeout ==
    /\ "timeout" \in Faults
    /\ waiting # 0 /\ srv[waiting].port = 0
    /\ BindFails(0, errc)

\* persistBoundPorts: each write may fail, and is then only logged.
Persist(bound) ==
    \E I \in SUBSET DOMAIN bound :
        /\ "save" \in Faults \/ I = DOMAIN bound
        /\ saved' = [i \in Instances |-> IF i \in I THEN bound[i] ELSE saved[i]]

\* Under mu: rows of failed servers are no longer in process, the servers are
\* listed by bound port, failed servers leave byPort; then the ports are
\* persisted and the page is served.
SettleRows(served) ==
    /\ phase = "bind" /\ waiting = 0 /\ Unstarted = {}
    /\ phase' = "page"
    /\ live' = served
    /\ byBound' = [p \in Ports |->
          LET here == {s \in Kept : srv[s].port = p}
          IN  IF here = {} THEN byBound[p] ELSE Last(here)]
    /\ byPort' = [k \in Keys |-> IF byPort[k] \in failed THEN 0 ELSE byPort[k]]
    /\ Persist([i \in {r.inst : r \in served} |->
          srv[byPort[(CHOOSE r \in served : r.inst = i).key]].port])
    /\ UNCHANGED <<file, todo, waiting, failed, errc, blame, net, used, scanCount, regs,
                   rowOn, fronts, resp, adv, op, pending>>
\* Seeded bug: rows of failed servers stay in process.
SettleAll == SettleRows(live)
Settle == SettleRows({r \in live : byPort[r.key] \notin failed})

\* The responder starts with the ports bound at start-up, then is published.
PublishResponder ==
    /\ phase = "page" /\ op = Idle
    /\ phase' = "discover"
    /\ resp' = TRUE
    /\ adv' = {srv[s].port : s \in Kept}
    /\ UNCHANGED <<disk, todo, waiting, failed, errc, blame, net, book, regs, live, rowOn, fronts, op, pending>>

FrontEnd(r, by) == [inst |-> r.inst, block |-> r.block, sid |-> byPort[r.key], num |-> r.num, by |-> by]

\* The last loop of serve: a front-end for every row in process.
WireFrontEnds ==
    /\ phase = "discover" /\ op = Idle
    /\ phase' = "serving"
    /\ fronts' = fronts \union {FrontEnd(r, "boot") : r \in live}
    /\ live' = {[r EXCEPT !.stop = "boot"] : r \in live}
    /\ UNCHANGED <<disk, todo, waiting, failed, errc, blame, net, book, regs, rowOn, resp, adv, op, pending>>

\* The final select: any error a start-up server returns is fatal.
Fatal == phase = "serving" /\ errc # {} /\ ProcessGone

\* SIGTERM, or a crash, at any point.
Stop == phase # "down" /\ "stop" \in Faults /\ ProcessGone

-----------------------------------------------------------------------------
(* The goalpaca servers (their Run goroutines) and the other programs.      *)

Outcome(s, st, p) == srv' = [srv EXCEPT ![s].st = st, ![s].port = IF p # 0 THEN p ELSE @]
\* A start-up server reports on errc; one started from the page reports to the
\* enable that waits for it, and to nobody after that.
Report(s) == errc' = IF srv[s].by = "boot" THEN errc \union {s} ELSE errc
EnvUnchanged == UNCHANGED <<disk, phase, todo, waiting, failed, blame, nsrv, book, regs, page, op, pending>>

ServerBinds(s) ==
    /\ srv[s].st = "starting"
    /\ \E p \in Candidates(s) : Outcome(s, "bound", p)
    /\ EnvUnchanged /\ UNCHANGED <<busy, errc>>

ServerFails(s) ==
    /\ srv[s].st = "starting" /\ Candidates(s) = {}
    /\ Outcome(s, "dead", 0) /\ Report(s)
    /\ EnvUnchanged /\ UNCHANGED busy

ServerDies(s) ==
    /\ srv[s].st = "bound" /\ "die" \in Faults
    /\ Outcome(s, "dead", 0) /\ Report(s)
    /\ EnvUnchanged /\ UNCHANGED busy

OthersTake(p) ==
    /\ FreePort(p) /\ busy' = busy \union {p}
    /\ EnvUnchanged /\ UNCHANGED <<srv, errc>>

OthersFree(p) ==
    /\ p \in busy /\ busy' = busy \ {p}
    /\ EnvUnchanged /\ UNCHANGED <<srv, errc>>

-----------------------------------------------------------------------------
(* The page's requests.  mu is free when op = Idle; an enable or a disable  *)
(* holds it from its first step to its last.                                *)

PageServed == phase \in (IF "early" \in Faults THEN {"page", "discover", "serving"} ELSE {"serving"})
Ready == PageServed /\ op = Idle
SetFile(i, on) == file' = [file EXCEPT ![i].enable = on]
\* What the steps of a switch that create no server leave alone.
SwitchUnchanged == UNCHANGED <<startup, net, byPort, byBound, scanCount, resp, adv, pending>>

\* setEnabled(inst, true) up to its loop, for a file that validateDeviceEdit
\* accepts: the switch is written first.  A device already in process ends the
\* request with its rows as they were.
EnableBegin(i) ==
    /\ Ready
    /\ \A b \in DOMAIN file[i].shape : CanAssign({}, file[i].shape[b])
    /\ nsrv + Cardinality(DOMAIN file[i].shape) <= MaxServers
    /\ Cardinality(regs) + Cardinality(DOMAIN file[i].shape) <= MaxRegs
    /\ SetFile(i, TRUE)
    /\ op' = IF RowsOf(i) # {} THEN Idle
             ELSE [Idle EXCEPT !.kind = "enable", !.inst = i, !.port = PortOf(i),
                               !.blocks = DOMAIN file[i].shape]
    /\ UNCHANGED <<saved, startup, net, book, regs, page, pending>>

Enabling == op.kind = "enable" /\ op.blocks # {}

\* startInProcess reuses the server under the spec's port ...
ReuseServer ==
    /\ Enabling /\ op.key = 0 /\ op.srv = 0
    /\ HasServer(op.port)
    /\ op' = [op EXCEPT !.key = op.port]
    /\ UNCHANGED <<disk, startup, net, book, regs, page, pending>>

\* A server of the page is an early one if there is no responder yet to tell of it.
Creator == IF resp THEN "page" ELSE "early"
\* ... or makes one, with the next scan window if the spec has no port.
StartServerAt(window) ==
    /\ Enabling /\ op.key = 0 /\ op.srv = 0
    /\ ~HasServer(op.port)
    /\ NewServer("starting", op.port, IF op.port = 0 THEN window ELSE 0, Creator)
    /\ scanCount' = IF op.port = 0 THEN scanCount + 1 ELSE scanCount
    /\ op' = [op EXCEPT !.srv = nsrv + 1]
    /\ UNCHANGED <<disk, startup, byPort, byBound, used, regs, page, pending>>
\* Seeded bug: every enable scans the first window.
StartServerFirstWindow == StartServerAt(0)
StartServer == StartServerAt(scanCount)

\* The key of the server being started: its port, or -1 less than the scan count
\* it was created at.
NewKey == IF op.port = 0 THEN -scanCount ELSE op.port

\* waitBound returns the port: the server enters every table.
AwaitOkThen(announced) ==
    LET p == srv[op.srv].port
    IN  /\ Enabling /\ op.srv # 0 /\ p # 0
        /\ byPort' = [byPort EXCEPT ![NewKey] = op.srv]
        /\ used' = [used EXCEPT ![NewKey] = NoNumbers]
        /\ byBound' = [byBound EXCEPT ![p] = op.srv]
        /\ adv' = IF announced THEN adv \union {p} ELSE adv
        /\ op' = [op EXCEPT !.key = NewKey, !.srv = 0]
        /\ UNCHANGED <<disk, startup, net, scanCount, regs, live, rowOn, fronts, resp, pending>>
\* Seeded bug: addPort is forgotten.
AwaitOkSilent == AwaitOkThen(FALSE)
AwaitOk == AwaitOkThen(resp)

\* Any failure of a block: the switch is written back; blocks already started
\* stay, and the rows keep the enabled spec.
Abandon ==
    /\ SetFile(op.inst, FALSE)
    /\ rowOn' = [rowOn EXCEPT ![op.inst] = TRUE]
    /\ op' = Idle
    /\ SwitchUnchanged /\ UNCHANGED <<saved, fronts, live>>

\* waitBound returns the server's own error, or gives up after 10 s.
AwaitEndsIf(error) ==
    /\ Enabling /\ op.srv # 0 /\ error
    /\ Abandon /\ UNCHANGED <<used, regs>>
\* Seeded bug: no deadline on the wait.
AwaitFailsNoDeadline == AwaitEndsIf(op.srv # 0 /\ srv[op.srv].st = "dead")
AwaitFails ==
    AwaitEndsIf(\/ op.srv # 0 /\ srv[op.srv].st = "dead"
                \/ op.srv # 0 /\ srv[op.srv].port = 0 /\ "timeout" \in Faults)

\* buildDevice fails, before any server is touched.
EnableBuildFails ==
    /\ Enabling /\ op.key = 0 /\ op.srv = 0 /\ "build" \in Faults
    /\ Abandon /\ UNCHANGED <<used, regs>>

\* assign fails: the number is taken.
EnableNumberTaken ==
    /\ Enabling /\ op.key # 0 /\ ~Assignable
    /\ Abandon /\ UNCHANGED <<used, regs>>

\* srv.Register fails: here the number is released again.
EnableRegisterFails ==
    /\ Enabling /\ op.key # 0 /\ Assignable /\ "register" \in Faults
    /\ Abandon /\ UNCHANGED <<used, regs>>

\* Seeded bug: half a clean-up, the number is released but not the device.
EnableAttachHalfUndone ==
    /\ Enabling /\ op.key # 0 /\ Assignable /\ "attach" \in Faults
    /\ AddDevice(FALSE) /\ UNCHANGED used
    /\ Abandon

\* attachSetupForm fails: the device stays registered, without a row.
EnableAttachFails ==
    /\ Enabling /\ op.key # 0 /\ Assignable /\ "attach" \in Faults
    /\ TakeNumber /\ AddDevice(FALSE)
    /\ Abandon

\* Who started a front-end: the page before or after serve's wiring loop.
Starter == IF phase = "serving" THEN "page" ELSE "early"
\* The block is registered, its front-end started and its port persisted.
EnableBlockSaving(bound) ==
    /\ Enabling /\ op.key # 0 /\ Assignable
    /\ TakeNumber /\ AddDevice(TRUE) /\ AddRow(Starter)
    /\ fronts' = fronts \union {FrontEnd(Row(op.inst, Block, op.key, Number, Starter), Starter)}
    /\ Persist(bound)
    /\ op' = [op EXCEPT !.blocks = @ \ {Block}, !.key = 0]
    /\ SwitchUnchanged /\ UNCHANGED <<file, rowOn>>
\* Seeded bug: the port of a device enabled from the page is not persisted.
EnableBlockUnsaved == EnableBlockSaving(<<>>)
EnableBlock == EnableBlockSaving([i \in {op.inst} |-> srv[Host].port])

EnableDone ==
    /\ op.kind = "enable" /\ op.blocks = {}
    /\ rowOn' = [rowOn EXCEPT ![op.inst] = TRUE]
    /\ op' = Idle
    /\ UNCHANGED <<disk, startup, net, book, regs, live, fronts, resp, adv, pending>>

\* setEnabled(inst, false) up to its loop.
DisableBegin(i) ==
    /\ Ready
    /\ SetFile(i, FALSE)
    /\ op' = [Idle EXCEPT !.kind = "disable", !.inst = i, !.blocks = {r.block : r \in RowsOf(i)}]
    /\ UNCHANGED <<saved, startup, net, book, regs, page, pending>>

Disabling == op.kind = "disable" /\ op.blocks # {}
ThisRow == CHOOSE r \in RowsOf(op.inst) : r.block = Block
\* Seeded bug: the cancel function is dropped without being called.
ForgetFrontEnd(r) ==
    /\ fronts' = fronts
    /\ live' = (live \ {r}) \union {[r EXCEPT !.stop = "none"]}
StopFrontEnd(r) ==
    /\ fronts' = IF r.stop = "none" THEN fronts ELSE fronts \ {FrontEnd(r, r.stop)}
    /\ live' = (live \ {r}) \union {[r EXCEPT !.stop = "none"]}

\* One row: stop its front-end, unregister whatever device is at its address,
\* release the number.
CloseRow(r, closed) ==
    /\ Disabling
    /\ StopFrontEnd(r)
    /\ regs' = regs \ closed
    /\ used' = [used EXCEPT ![r.key][TypeOf[r.inst]] = @ \ {r.num}]
    /\ NextBlock
    /\ SwitchUnchanged /\ UNCHANGED <<disk, rowOn>>
AtRow(r) == {d \in regs : d.sid = byPort[r.key] /\ d.type = TypeOf[r.inst] /\ d.num = r.num}
\* Seeded bug: Unregister is skipped.
DisableBlockKeeps == CloseRow(ThisRow, {})
\* Seeded bug: Unregister goes by the type alone.
DisableBlockByType == CloseRow(ThisRow, {d \in regs : d.sid = byPort[ThisRow.key] /\ d.type = TypeOf[op.inst]})
DisableBlock == CloseRow(ThisRow, AtRow(ThisRow))

\* Unregister fails: the request ends, rows already closed keep inProcess.
UnregisterFails ==
    /\ Disabling /\ "unregister" \in Faults
    /\ StopFrontEnd(ThisRow)
    /\ op' = Idle
    /\ SwitchUnchanged /\ UNCHANGED <<disk, used, regs, rowOn>>

DisableDoneLeaving(rows) ==
    /\ op.kind = "disable" /\ op.blocks = {}
    /\ live' = rows
    /\ rowOn' = [rowOn EXCEPT ![op.inst] = FALSE]
    /\ op' = Idle
    /\ UNCHANGED <<disk, startup, net, book, regs, fronts, resp, adv, pending>>
\* Seeded bug: the rows are not replaced.
DisableDoneKeepsRows == DisableDoneLeaving(live)
DisableDone == DisableDoneLeaving(live \ RowsOf(op.inst))

\* handleEdit saves a draft; it starts and stops nothing.
EditSave(i) ==
    /\ Ready
    /\ \E f \in Drafts \ {file[i]} :
          /\ file' = [file EXCEPT ![i] = f]
          /\ rowOn' = [rowOn EXCEPT ![i] = f.enable]
    /\ UNCHANGED <<saved, startup, net, book, regs, live, fronts, resp, adv, op, pending>>

\* restart under RLock: the addresses of the instance's rows are copied.
RestartRequest(i) ==
    /\ Ready /\ pending = NoRestart
    /\ rowOn[i] /\ RowsOf(i) # {}
    /\ pending' = [inst |-> i, left |-> {[sid |-> byBound[srv[byPort[r.key]].port],
                                          type |-> TypeOf[i], num |-> r.num] : r \in RowsOf(i)}]
    /\ UNCHANGED <<disk, startup, net, book, regs, page, op>>

DevicesAt(t) == {d \in regs : d.sid = t.sid /\ d.type = t.type /\ d.num = t.num}
\* A device without a reloader is not reloaded; reloaderFor accepts a file that is
\* enabled and still has the block.
Reloadable(d) == d.reload /\ file[d.inst].enable /\ (d.block = Flat \/ d.block \in DOMAIN file[d.inst].shape)
Reloaded(D) == (regs \ D) \union {[d EXCEPT !.cfg = file[d.inst].cfg] : d \in D}

\* Without the lock: each copied address is reloaded, whoever is there now.
\* The first error ends the request.
RestartStep(t) ==
    /\ t \in pending.left
    /\ \/ /\ DevicesAt(t) # {} /\ \A d \in DevicesAt(t) : Reloadable(d)
          /\ regs' = Reloaded(DevicesAt(t))
          /\ pending' = IF pending.left = {t} THEN NoRestart ELSE [pending EXCEPT !.left = @ \ {t}]
       \/ /\ DevicesAt(t) = {} \/ "build" \in Faults \/ \E d \in DevicesAt(t) : ~Reloadable(d)
          /\ regs' = regs /\ pending' = NoRestart
    /\ UNCHANGED <<disk, startup, net, book, page, op>>

\* SIGHUP: ReloadAll on the servers of start-up; a device that cannot be
\* reloaded keeps running as it is.
Sighup ==
    LET D == {d \in regs : d.sid \in Kept /\ Reloadable(d)}
    IN  /\ phase \in {"discover", "serving"}
        /\ \E R \in SUBSET D : ("build" \in Faults \/ R = D) /\ regs' = Reloaded(R)
        /\ UNCHANGED <<disk, startup, net, book, page, op, pending>>

-----------------------------------------------------------------------------
Startup ==
    \/ Boot \/ \E i \in Instances : SkipDisabled(i) \/ OpenEntry(i)
    \/ BuildBlock \/ BuildBlockRefused \/ BuildRegisterFails \/ BuildAttachFails
    \/ CloseEntry \/ BuildDone
    \/ BindStart \/ BindOk \/ BindErr \/ BindTimeout
    \/ Settle \/ PublishResponder \/ WireFrontEnds
Servers == \E s \in 1..nsrv : ServerBinds(s) \/ ServerFails(s) \/ ServerDies(s)
Others  == \E p \in Contested : OthersTake(p) \/ OthersFree(p)
SwitchSteps ==
    \/ ReuseServer \/ StartServer \/ AwaitOk \/ AwaitFails
    \/ EnableBuildFails \/ EnableNumberTaken \/ EnableRegisterFails \/ EnableAttachFails
    \/ EnableBlock \/ EnableDone
    \/ DisableBlock \/ UnregisterFails \/ DisableDone
Requests == \E i \in Instances : EnableBegin(i) \/ DisableBegin(i) \/ EditSave(i) \/ RestartRequest(i)

Next ==
    \/ Startup \/ Servers \/ Others \/ SwitchSteps \/ Requests
    \/ \E t \in pending.left : RestartStep(t)
    \/ Sighup \/ Fatal \/ Stop

Spec == Init /\ [][Next]_vars
=============================================================================
