----------------------------- MODULE HerdProps -----------------------------
(***************************************************************************)
(* What Herd is checked for.  A property that some fault of the model       *)
(* defeats names it; the runs choose the faults.                            *)
(***************************************************************************)
EXTENDS Herd

-----------------------------------------------------------------------------
(* Types.                                                                   *)

Starters == {"boot", "page", "early"}
OpType == [kind : {"idle", "build", "enable", "disable"}, inst : Instances \union {Nobody},
           port : Ports \union {0}, key : Keys \union {0}, srv : 0..MaxServers,
           blocks : SUBSET Blocks]
SrvType == [st : {"none", "built", "starting", "bound", "dead"}, want : Ports \union {0},
            win : 0..MaxServers, port : Ports \union {0}, by : Starters]
AddressType == [sid : 0..MaxServers, type : Types, num : Nat]
RegType == [sid : ServerIds, type : Types, num : Nat, inst : Instances,
            block : Blocks, cfg : Settings, reload : BOOLEAN]
RowType == [inst : Instances, block : Blocks, key : Keys, num : Nat,
            stop : {"none"} \union Starters]
FrontType == [inst : Instances, block : Blocks, sid : 0..MaxServers, num : Nat,
              by : Starters]

TypeDisk == /\ file \in [Instances -> FileType]
            /\ saved \in [Instances -> Ports \union {0}]
TypeStartup == /\ phase \in Phases /\ todo \subseteq Instances
               /\ waiting \in 0..MaxServers
               /\ failed \subseteq ServerIds /\ errc \subseteq ServerIds
               /\ blame \subseteq ServerIds \X (0..MaxServers)
TypeNet == /\ busy \subseteq Contested /\ nsrv \in 0..MaxServers
           /\ srv \in [ServerIds -> SrvType]
TypeBook == /\ byPort \in [Keys -> 0..MaxServers] /\ byBound \in [Ports -> 0..MaxServers]
            /\ used \in [Keys -> [Types -> SUBSET Nat]]
            /\ scanCount \in 0..MaxServers
TypeRegs == regs \subseteq RegType
TypePage == /\ live \subseteq RowType /\ rowOn \in [Instances -> BOOLEAN]
            /\ fronts \subseteq FrontType /\ resp \in BOOLEAN /\ adv \subseteq Ports
TypeOp == /\ op \in OpType
          /\ pending \in [inst : Instances \union {Nobody}, left : SUBSET AddressType]

\* Every variable keeps its type: in particular a number taken on a port is never
\* negative, and an address always has a server that was created.
TypeOK == TypeDisk /\ TypeStartup /\ TypeNet /\ TypeBook /\ TypeRegs /\ TypePage /\ TypeOp

-----------------------------------------------------------------------------
(* The devices a client finds.                                              *)

\* No address of a server leads to two devices, whatever fails on the way: start-up
\* (serve, registerDevice) and the page (startInProcess) share deviceNumbers.
UniqueAddress ==
    \A d, e \in regs : d.sid = e.sid /\ d.type = e.type /\ d.num = e.num => d = e

\* Every registration on a server in byPort has its number marked as taken, so
\* assign cannot give it out again (build.go assign / release).
NumbersCoverDevices ==
    \A d \in regs : \A k \in Keys : byPort[k] = d.sid => d.num \in used[k][d.type]

\* The registration table of the servers implements the abstract address book.
Book == INSTANCE AddressBook WITH
    Addresses <- ServerIds \X Types \X Nat,
    Owners    <- Instances,
    held      <- {[at |-> <<d.sid, d.type, d.num>>, by |-> d.inst] : d \in regs}
BookSpec == Book!Spec

\* Every row shown as in process has a device of its own instance at its address
\* (orchRow.inProcess, num, srvKey).  Not with "unregister": a disable that fails
\* halfway leaves rows whose device is gone.
Registered(r) ==
    \E d \in regs : /\ d.sid = byPort[r.key] /\ d.type = TypeOf[r.inst] /\ d.num = r.num
                    /\ d.inst = r.inst /\ d.block = r.block
RowsAreRegistered == op.kind # "disable" => \A r \in live : Registered(r)

\* Once start-up is over, the only devices a client reaches that no row can stop are
\* those whose setup form failed (attachSetupForm, after Register): every other one on
\* a server that is served has its row.
NoOrphanDevice ==
    phase \in {"page", "discover", "serving"} /\ op = Idle =>
        \A d \in regs : d.sid \notin failed /\ d.reload =>
            \E r \in live : /\ byPort[r.key] = d.sid /\ r.num = d.num
                          /\ r.inst = d.inst /\ r.block = d.block

\* A disable closes only devices of its own instance: every other device is still at
\* its address, if perhaps reloaded (SetEnabled, srv.Unregister).  Not with
\* "unregister": the address of a row that outlived its device may be another's.
SameDevice(d, e) == /\ e.sid = d.sid /\ e.type = d.type /\ e.num = d.num
                    /\ e.inst = d.inst /\ e.block = d.block
DisableTouchesOwn ==
    [][op.kind = "disable" /\ phase' # "down" =>
        \A d \in regs : d.inst = op.inst \/ \E e \in regs' : SameDevice(d, e)]_vars

\* When a disable ends with its rows removed, what is left of the instance never had a
\* row to be stopped from: devices whose setup form failed, or on a server that is not
\* served, and front-ends started before serve's wiring loop (README: disabling the
\* device stops the bridge).
DisableStops ==
    [][op.kind = "disable" /\ op.blocks = {} /\ op' = Idle /\ phase' # "down" =>
        /\ \A d \in regs' : d.inst = op.inst => d.sid \in failed \/ ~d.reload
        /\ \A f \in fronts' : f.inst = op.inst => f.by = "early"]_vars

\* Restart changes devices of the instance it was asked for, never others (README:
\* without restarting alpacahurd or other instances).
RestartsOwn ==
    [][pending' # pending /\ pending # NoRestart /\ phase' # "down" =>
        \A d \in regs \ regs' : d.inst = pending.inst]_vars

\* Every cancel function a row holds stops a front-end that runs, and the front-ends
\* no row can stop are exactly of one kind: started from the page before the last loop
\* of serve, which overwrites the cancel function of each device it wires (run.go).
Shown(rows) == {FrontEnd(r, r.stop) : r \in {q \in rows : q.stop # "none"}}
FrontEndsFollowRows ==
    op = Idle =>
        /\ Shown(live) \subseteq fronts
        /\ \A f \in fronts \ Shown(live) : phase = "serving" /\ f.by = "early"

-----------------------------------------------------------------------------
(* Ports.                                                                   *)

RowPort(r) == srv[byPort[r.key]].port

\* The responder announces the port of every device in process, save those on a
\* server the page started before the responder was published: addPort had nobody to
\* tell, and nothing tells it later (startInProcess, run.go).
ServedPortsAdvertised ==
    resp /\ op = Idle =>
        \A r \in live : RowPort(r) \in adv \/ srv[byPort[r.key]].by = "early"

\* The port a device answers on is the one persisted for it, so that it keeps it
\* over a restart (README: saves it).  Not with "save", nor for an entry whose
\* blocks got a server each.
PortRemembered ==
    phase \in {"page", "discover", "serving"} /\ op = Idle =>
        \A r \in live : saved[r.inst] = RowPort(r)

\* serve binds fixed ports before it scans, so as long as it waits for a server with a
\* fixed port, only another program can take that port away.
FixedPortsFirst ==
    [][\A s \in 1..nsrv :
        srv[s].st = "starting" /\ s = waiting /\ srv[s].want # 0 /\ srv'[s].st = "dead"
            => srv[s].want \in busy]_vars

\* Every server the herd starts finds its port free of the herd's own servers.
NoSelfConflict ==
    [][\A s \in 1..nsrv :
        srv[s].st = "starting" /\ srv[s].want # 0 /\ srv'[s].st = "dead"
            => srv[s].want \in busy]_vars

\* Scanning servers never compete for a port: each has its own window.
WindowsApart ==
    \A s, t \in 1..nsrv :
        s # t /\ srv[s].want = 0 /\ srv[t].want = 0 => Window(srv[s].win) \intersect Window(srv[t].win) = {}

\* errc carries the errors of all start-up servers, so a wait may end with the error
\* of another one.  It does so only if that error came late: from a server that died
\* after it was bound, or whose own wait had ended before, by the deadline or by the
\* error of yet another.  No error ends two waits, a server that never got its port is
\* reported as failed, and the error the final select finds is a late one.
LateError(e) == srv[e].port # 0 \/ \E f \in 0..MaxServers : f # e /\ <<e, f>> \in blame
ErrorsAttributed ==
    /\ \A p \in blame : p[2] # 0 =>
          /\ srv[p[2]].st = "dead"
          /\ p[2] = p[1] \/ LateError(p[2])
          /\ \A q \in blame : q[2] = p[2] => q = p
    /\ phase \in {"page", "discover", "serving"} =>
          /\ \A e \in errc : LateError(e)
          /\ \A s \in BootServers : srv[s].st = "dead" /\ srv[s].port = 0 => s \in failed
    /\ failed = {p[1] : p \in blame}

-----------------------------------------------------------------------------
(* The switch.                                                              *)

\* Between requests the switch in the file tells what runs: a device in process is
\* enabled in its file.  For entries with one block, and without drafts.
RunningIsEnabled ==
    phase = "serving" /\ op = Idle => \A r \in live : file[r.inst].enable

-----------------------------------------------------------------------------
(* Liveness: serve and setEnabled run to their end as long as the scheduler  *)
(* runs their goroutine; waitBound's deadline bounds every wait for a server;*)
(* a waiting Lock call is granted when the lock is free often enough.        *)

StartupStep ==
    \/ \E i \in Instances : SkipDisabled(i) \/ OpenEntry(i)
    \/ BuildBlock \/ BuildBlockRefused \/ CloseEntry \/ BuildDone
    \/ BindStart \/ BindOk \/ BindErr \/ BindTimeout \/ Settle
Fairness ==
    /\ WF_vars(SwitchSteps) /\ WF_vars(StartupStep)
    /\ SF_vars(PublishResponder) /\ SF_vars(WireFrontEnds)
FairSpec == Spec /\ Fairness

\* A request for the switch always ends, so the page's lock is released.
SwitchReturns == op.kind \in {"enable", "disable"} ~> op = Idle

\* Start-up always reaches serving, unless the process ends.
StartupCompletes == phase = "build" ~> phase \in {"serving", "down"}
=============================================================================
