------------------------------ MODULE HerdInv ------------------------------
(***************************************************************************)
(* The inductive invariant behind the theorems of HerdProofs.              *)
(***************************************************************************)
EXTENDS HerdProps

PageUp == {"page", "discover", "serving"}

\* Server ids in the tables are those of servers that were created.
Created ==
    /\ scanCount <= nsrv
    /\ \A k \in Keys : byPort[k] <= nsrv
    /\ \A d \in regs : d.sid <= nsrv

\* The operation that holds mu works on an instance, a server and blocks that the
\* tables know; a server that is being started is in no table yet.
OpSane ==
    /\ op.kind = "build" => phase = "build" /\ op.key # 0
    /\ op.kind \in {"enable", "disable"} => phase \in PageUp
    /\ op.kind # "idle" => op.inst \in Instances
    /\ op.kind \in {"build", "enable"} =>
          /\ op.blocks \subseteq DOMAIN file[op.inst].shape
          /\ op.key # 0 => byPort[op.key] # 0
    /\ op.kind = "disable" => op.blocks \subseteq {r.block : r \in RowsOf(op.inst)}
    /\ op.kind = "enable" /\ op.srv # 0 =>
          /\ op.srv <= nsrv
          /\ \A k \in Keys : byPort[k] # op.srv
          /\ \A d \in regs : d.sid # op.srv
          /\ op.port = 0 => scanCount >= 1

FiniteTables == \A k \in Keys, t \in Types : IsFiniteSet(used[k][t])

\* A server is in byPort under one key only.
OneKey == \A k, l \in Keys : byPort[k] = byPort[l] /\ byPort[k] # 0 => k = l

\* A row in process has its server in byPort.
RowsHosted == \A r \in live : byPort[r.key] # 0

\* Once start-up has settled, the servers that are listed have a port.
ServersPorted ==
    /\ phase \notin PageUp =>
          \A s \in 1..nsrv :
             /\ srv[s].by = "boot"
             /\ srv[s].st = "built" \/ s = waiting \/ srv[s].port # 0 \/ s \in failed
    /\ phase \in PageUp =>
          /\ \A s \in Kept : srv[s].port # 0
          /\ \A k \in Keys : byPort[k] # 0 => srv[byPort[k]].port # 0

IInv ==
    /\ TypeOK /\ Created /\ OpSane /\ FiniteTables /\ OneKey /\ RowsHosted /\ ServersPorted
    /\ NumbersCoverDevices /\ UniqueAddress

-----------------------------------------------------------------------------
(* The servers and their ports.                                             *)

ScanServers == {s \in 1..nsrv : srv[s].want = 0}

\* A server that scans got a window that no other server has.
OwnWindows ==
    /\ \A s \in ScanServers : srv[s].win < scanCount
    /\ \A s, t \in ScanServers : srv[s].win = srv[t].win => s = t

\* A server is created built or starting, and gets its port when it is bound.
PortsOfBound ==
    \A s \in 1..nsrv : /\ srv[s].st # "none"
                       /\ srv[s].st \in {"built", "starting"} => srv[s].port = 0
                       /\ srv[s].st = "bound" => srv[s].port # 0

\* Only servers that were created run.
OnlyCreatedRun == \A s \in ServerIds : s <= nsrv \/ srv[s].st = "none"

ServerInv == OwnWindows /\ PortsOfBound /\ OnlyCreatedRun

\* serve goes on only when the wait for a server has ended, so a server that still
\* starts is the one waited for or was given up.  An error on the channel is that of the
\* server waited for or a late one, and one that was read is not there any more.
Attributed ==
    /\ phase # "bind" => waiting = 0
    /\ waiting # 0 => waiting <= nsrv /\ srv[waiting].st # "built"
    /\ phase \in {"down", "build"} => \A s \in 1..nsrv : srv[s].st = "built"
    /\ phase \in PageUp => \A s \in 1..nsrv : srv[s].st # "built"
    /\ failed = {p[1] : p \in blame}
    /\ \A s \in failed : s <= nsrv /\ srv[s].st # "built"
    /\ \A e \in errc : /\ e <= nsrv /\ srv[e].by = "boot" /\ srv[e].st = "dead"
                       /\ e = waiting \/ LateError(e)
    /\ \A s \in BootServers :
          /\ srv[s].st = "starting" => s = waiting \/ s \in failed
          /\ srv[s].st = "dead" /\ srv[s].port = 0 => s \in failed \/ s \in errc
    /\ \A p \in blame : p[2] # 0 =>
          /\ p[2] <= nsrv /\ srv[p[2]].st = "dead" /\ p[2] \notin errc
          /\ p[2] = p[1] \/ LateError(p[2])
          /\ \A q \in blame : q[2] = p[2] => q = p

\* Start-up makes one server per fixed port, and starts those before the ones that
\* scan.
FixedFirst ==
    /\ phase = "down" => nsrv = 0
    /\ \A s \in 1..nsrv : srv[s].st = "bound" /\ srv[s].want # 0 => srv[s].port = srv[s].want
    /\ \A s, t \in BootServers : srv[s].want = srv[t].want /\ srv[s].want # 0 => s = t
    /\ phase = "build" => \A s \in 1..nsrv : srv[s].want # 0 => byPort[srv[s].want] = s
    /\ phase \notin PageUp => \A s \in ScanServers, t \in (1..nsrv) \ ScanServers :
          /\ srv[s].st = "built" \/ srv[t].st # "built"
          /\ t = waiting => srv[s].st = "built"

-----------------------------------------------------------------------------
(* The rows, and what each of them has.                                     *)

\* The keys of servers that scan are used up to scanCount, so a new one is free.
KeysAhead ==
    /\ \A k \in ServerIds : byPort[-k] # 0 => k <= scanCount
    /\ op.kind = "enable" /\ op.srv # 0 => op.key = 0 /\ byPort[NewKey] = 0

\* An instance has one row per block, and none yet for the blocks to come.
OneRow ==
    /\ \A r, q \in live : r.inst = q.inst /\ r.block = q.block => r = q
    /\ phase = "down" => live = {}
    /\ phase = "build" => \A i \in todo : RowsOf(i) = {}
    /\ op.kind = "build" => op.inst \notin todo
    /\ op.kind \in {"build", "enable"} => \A r \in RowsOf(op.inst) : r.block \notin op.blocks

RowInv == KeysAhead /\ OneRow

\* Without "unregister": a row lacks its device only while a disable has closed it.
RowsRegistered ==
    \A r \in live : \/ Registered(r)
                    \/ op.kind = "disable" /\ r.inst = op.inst /\ r.block \notin op.blocks

\* A device on a server that is served has its row, unless its setup form failed, and a
\* disable has yet to close it.
RowOf(r, d) == /\ d.sid = byPort[r.key] /\ d.type = TypeOf[r.inst] /\ d.num = r.num
               /\ d.inst = r.inst /\ d.block = r.block
HasRow(d) == \E r \in live : RowOf(r, d)
DevicesRowed ==
    \A d \in regs : d.sid \notin failed /\ d.reload =>
        /\ HasRow(d)
        /\ op.kind = "disable" /\ d.inst = op.inst => d.block \in op.blocks

\* Before serve wires the front-ends, only a row that was enabled early can stop one.
StopsEarly ==
    /\ phase \notin PageUp => \A r \in live : r.stop = "none"
    /\ phase # "serving" => \A r \in live : r.stop \in {"none", "early"}

\* Front-ends run for the rows that can stop one; the wiring leaves early ones behind.
FrontsRun ==
    /\ Shown(live) \subseteq fronts
    /\ \A f \in fronts \ Shown(live) : phase = "serving" /\ f.by = "early"

\* A disable stops the front-ends of the rows it has closed.
ClosedStopped ==
    op.kind = "disable" => \A r \in RowsOf(op.inst) : r.block \in op.blocks \/ r.stop = "none"

FrontEnds == StopsEarly /\ FrontsRun /\ ClosedStopped

\* What byPort lists is announced, or an early server.  A server that is started while
\* there is no responder is an early one, and no server that start-up waited for.
Announced ==
    /\ resp <=> phase \in {"discover", "serving"}
    /\ ~resp => \A k \in Keys : byPort[k] # 0 =>
          byPort[k] \in BootServers \/ srv[byPort[k]].by = "early"
    /\ phase = "page" /\ op.kind = "enable" /\ op.srv # 0 =>
          srv[op.srv].by = "early" /\ op.srv \notin failed
    /\ phase = "page" => \A k \in Keys : byPort[k] \notin failed
    /\ resp => \A k \in Keys : byPort[k] # 0 =>
          srv[byPort[k]].port \in adv \/ srv[byPort[k]].by = "early"

\* An entry gets one server: it has a port, or one block at most.
OneBlock(f) == \A b, c \in DOMAIN f.shape : b = c
OneServer(f) == f.port # 0 \/ OneBlock(f)
OneServerEach == \A f \in Drafts \union {g[i] : g \in InitFiles, i \in Instances} : OneServer(f)

\* The rows of an instance are on one server ...
OneHost ==
    /\ \A i \in Instances : OneServer(file[i])
    /\ \A r, q \in live : r.inst = q.inst => r.key = q.key
    /\ op.kind = "build" => \A r \in RowsOf(op.inst) : r.key = op.key
    /\ op.kind = "enable" /\ op.port # 0 =>
          /\ op.key \in {0, op.port}
          /\ \A r \in RowsOf(op.inst) : r.key = op.port
    /\ op.kind = "enable" /\ op.port = 0 =>
          /\ \A b, c \in op.blocks : b = c
          /\ op.blocks = {} \/ RowsOf(op.inst) = {}

\* ... and, without "save", its port is the one persisted.
Remembered == phase \in PageUp => \A r \in live : saved[r.inst] = RowPort(r)

\* An entry has one block, and no draft disables its device.
OneBlockEach ==
    /\ \A f \in Drafts : OneBlock(f) /\ f.enable
    /\ \A g \in InitFiles, i \in Instances : OneBlock(g[i])

\* Without "unregister", one block per entry: what has a row is enabled in its file.
Enabled ==
    /\ \A i \in Instances : OneBlock(file[i])
    /\ \A r \in live : file[r.inst].enable \/ (op.kind = "disable" /\ r.inst = op.inst)
    /\ op.kind \in {"build", "enable"} =>
          /\ file[op.inst].enable
          /\ \A b, c \in op.blocks : b = c
          /\ op.blocks = {} \/ RowsOf(op.inst) = {}
=============================================================================
