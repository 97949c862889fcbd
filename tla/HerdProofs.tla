----------------------------- MODULE HerdProofs -----------------------------
(***************************************************************************)
(* Theorems about Herd, for every value of its constants.                  *)
(***************************************************************************)
EXTENDS HerdInv, DeviceNumbersProofs

-----------------------------------------------------------------------------
(* Least elements.                                                         *)

\* First finds a least element, also among blocks (Flat is below every index).
LEMMA FirstIsLeast ==
    ASSUME NEW S \in SUBSET (Nat \union {Flat}), S # {}
    PROVE  First(S) \in S /\ \A c \in S : First(S) <= c
<1>1. \E b \in S : \A c \in S : b <= c
    <2>1. CASE Flat \in S
        BY <2>1 DEF Flat
    <2>2. CASE Flat \notin S
        BY <2>2, LeastNat
    <2> QED
        BY <2>1, <2>2
<1> QED
    BY <1>1 DEF First

\* Last finds a greatest element of a bounded set.
LEMMA LastIsIn ==
    ASSUME NEW n \in Nat, NEW S \in SUBSET (1..n), S # {}
    PROVE  Last(S) \in S
<1> DEFINE T == {n - s : s \in S}
<1>1. T \in SUBSET Nat /\ T # {}
    <2>1. \A s \in S : n - s \in Nat
        OBVIOUS
    <2>2. PICK s \in S : TRUE
        OBVIOUS
    <2>3. n - s \in T
        BY <2>2
    <2> QED
        BY <2>1, <2>3
<1>2. PICK t \in T : \A u \in T : t <= u
    BY <1>1, LeastNat
<1>3. PICK s \in S : t = n - s
    BY <1>2
<1>4. \A c \in S : s >= c
    BY <1>2, <1>3
<1> QED
    BY <1>3, <1>4 DEF Last

-----------------------------------------------------------------------------
(* What the invariant says of the operation under way.                      *)

USE InstancesFinite, TypeOfAssumption, PortsAssumption, BoundsAssumption

\* The block an entry or a request works on, and its pin.
LEMMA BlockFacts ==
    ASSUME IInv, op.kind \in {"build", "enable"}, op.blocks # {}
    PROVE  /\ op.inst \in Instances /\ file[op.inst] \in FileType
           /\ Block \in op.blocks /\ Block \in DOMAIN file[op.inst].shape
           /\ Block \in Blocks /\ Pin \in Int
<1>1. /\ op.inst \in Instances
      /\ op.blocks \subseteq DOMAIN file[op.inst].shape
    BY DEF IInv, OpSane
<1>2. file[op.inst] \in FileType /\ file[op.inst].shape \in Shapes
    BY <1>1 DEF IInv, TypeOK, TypeDisk, FileType
<1>3. op.blocks \in SUBSET (Nat \union {Flat})
    BY <1>1, <1>2, ShapesAssumption
<1>4. Block \in op.blocks
    BY <1>3, FirstIsLeast DEF Block
<1> QED
    BY <1>1, <1>2, <1>4, ShapesAssumption DEF Blocks, Pin

\* Who starts servers and front-ends from the page.
LEMMA PageStarters ==
    /\ Creator \in Starters /\ Creator # "boot"
    /\ Starter \in Starters /\ Starter \notin {"boot", "none"} /\ "boot" \in Starters
BY DEF Creator, Starter, Starters

\* What TakeNumber, AddDevice and AddRow put into the tables.
LEMMA ClaimFacts ==
    ASSUME IInv, op.kind \in {"build", "enable"}, op.blocks # {}, op.key # 0, Assignable
    PROVE  /\ op.key \in Keys /\ Host \in ServerIds /\ Host <= nsrv
           /\ TypeOf[op.inst] \in Types
           /\ Number \in Nat /\ Number \notin used[op.key][TypeOf[op.inst]]
           /\ \A re \in BOOLEAN : Registration(Host, op.inst, Block, Number, re) \in RegType
           /\ \A stop \in {"none"} \union Starters :
                 Row(op.inst, Block, op.key, Number, stop) \in RowType
<1>1. /\ op.inst \in Instances /\ file[op.inst] \in FileType
      /\ Block \in Blocks /\ Pin \in Int
    BY BlockFacts
<1>2. op.key \in Keys
    BY DEF IInv, TypeOK, TypeOp, OpType
<1>3. Host \in ServerIds /\ Host <= nsrv
    <2>1. byPort[op.key] # 0
        BY DEF IInv, OpSane
    <2>2. byPort[op.key] \in 0..MaxServers
        BY <1>2 DEF IInv, TypeOK, TypeBook
    <2>3. byPort[op.key] <= nsrv
        BY <1>2 DEF IInv, Created
    <2> QED
        BY <2>1, <2>2, <2>3 DEF Host, ServerIds
<1>4. TypeOf[op.inst] \in Types
    BY <1>1
<1>5. Here \in SUBSET Nat /\ IsFiniteSet(Here)
    BY <1>2, <1>4 DEF Here, IInv, TypeOK, TypeBook, FiniteTables
<1>6. Number \in Nat /\ Number \notin Here
    BY <1>1, <1>5, NumberIsFree DEF Number, Assignable
<1>7. \A re \in BOOLEAN : Registration(Host, op.inst, Block, Number, re) \in RegType
    BY <1>1, <1>3, <1>4, <1>6 DEF Registration, RegType, FileType
<1>8. ASSUME NEW stop \in {"none"} \union Starters
      PROVE  Row(op.inst, Block, op.key, Number, stop) \in RowType
    BY <1>1, <1>2, <1>6 DEF Row, RowType, Starters
<1> QED
    BY <1>2, <1>3, <1>4, <1>6, <1>7, <1>8 DEF Here

\* The row a disable closes next.
LEMMA RowFacts ==
    ASSUME IInv, Disabling
    PROVE  /\ op.inst \in Instances /\ Block \in op.blocks
           /\ ThisRow \in live /\ ThisRow \in RowType
           /\ ThisRow.inst = op.inst /\ ThisRow.block = Block
           /\ byPort[ThisRow.key] \in ServerIds
<1>1. /\ op.inst \in Instances
      /\ op.blocks \subseteq {r.block : r \in RowsOf(op.inst)}
    BY DEF Disabling, IInv, OpSane
<1>2. op.blocks \in SUBSET (Nat \union {Flat})
    <2>1. Blocks \subseteq Nat \union {Flat}
        BY ShapesAssumption DEF Blocks
    <2>2. op.blocks \subseteq Blocks
        BY DEF IInv, TypeOK, TypeOp, OpType
    <2> QED
        BY <2>1, <2>2
<1>3. Block \in op.blocks
    BY <1>2, FirstIsLeast DEF Block, Disabling
<1>4. \E r \in RowsOf(op.inst) : r.block = Block
    BY <1>1, <1>3
<1>5. ThisRow \in RowsOf(op.inst) /\ ThisRow.block = Block
    BY <1>4 DEF ThisRow
<1>6. ThisRow \in live /\ ThisRow.inst = op.inst
    BY <1>5 DEF RowsOf
<1>7. ThisRow \in RowType /\ ThisRow.key \in Keys
    BY <1>6 DEF IInv, TypeOK, TypePage, RowType
<1>8. byPort[ThisRow.key] \in ServerIds
    BY <1>6, <1>7 DEF IInv, TypeOK, TypeBook, RowsHosted, ServerIds
<1> QED
    BY <1>1, <1>3, <1>5, <1>6, <1>7, <1>8

\* startOne is given a server that was built and not started yet.
LEMMA NextToStartFacts ==
    ASSUME IInv, Unstarted # {}
    PROVE  NextToStart \in Unstarted
<1>1. Unstarted \in SUBSET (Nat \union {Flat}) /\ FixedUnstarted \in SUBSET Unstarted
    BY DEF Unstarted, FixedUnstarted, IInv, TypeOK, TypeNet
<1>2. CASE FixedUnstarted # {}
    <2>1. FixedUnstarted \in SUBSET (Nat \union {Flat})
        BY <1>1
    <2>2. First(FixedUnstarted) \in FixedUnstarted
        BY <1>2, <2>1, FirstIsLeast
    <2> QED
        BY <1>1, <1>2, <2>2 DEF NextToStart
<1>3. CASE FixedUnstarted = {}
    <2>1. First(Unstarted) \in Unstarted
        BY <1>1, FirstIsLeast
    <2> QED
        BY <1>3, <2>1 DEF NextToStart
<1> QED
    BY <1>2, <1>3

\* The server a row is registered on has a type-correct port.
LEMMA RowServer ==
    ASSUME IInv, NEW r \in live
    PROVE  /\ r.key \in Keys /\ r.inst \in Instances /\ r.num \in Nat
           /\ byPort[r.key] \in ServerIds /\ srv[byPort[r.key]].port \in Ports \union {0}
<1>1. r.key \in Keys /\ r.inst \in Instances /\ r.num \in Nat
    BY DEF IInv, TypeOK, TypePage, RowType
<1>2. byPort[r.key] \in ServerIds
    BY <1>1 DEF IInv, TypeOK, TypeBook, RowsHosted, ServerIds
<1>3. srv[byPort[r.key]] \in SrvType
    BY <1>2 DEF IInv, TypeOK, TypeNet
<1> QED
    BY <1>1, <1>2, <1>3 DEF SrvType

\* The key serve gives an enabled entry.
EntryKey(i) == IF PortOf(i) = 0 THEN -1 - scanCount ELSE PortOf(i)
LEMMA EntryKeyType ==
    ASSUME IInv, NEW i \in Instances, OpenEntry(i)
    PROVE  PortOf(i) \in Ports \union {0} /\ EntryKey(i) \in Keys
<1>1. PortOf(i) \in Ports \union {0}
    BY DEF IInv, TypeOK, TypeDisk, FileType, PortOf
<1>2. CASE PortOf(i) = 0
    <2>1. ~HasServer(PortOf(i))
        BY <1>2 DEF HasServer
    <2>2. nsrv < MaxServers
        BY <2>1 DEF OpenEntry, NewServer
    <2>3. scanCount + 1 \in ServerIds /\ -1 - scanCount = -(scanCount + 1)
        BY <2>2 DEF IInv, TypeOK, TypeBook, TypeNet, ServerIds, Created
    <2> QED
        BY <1>1, <1>2, <2>3 DEF EntryKey, Keys
<1> QED
    BY <1>1, <1>2 DEF EntryKey, Keys

\* The key and the server that enter the tables when an enable has its port.
LEMMA AwaitFacts ==
    ASSUME IInv, AwaitOk
    PROVE  /\ NewKey \in Keys /\ op.srv \in ServerIds /\ op.srv <= nsrv
           /\ srv[op.srv].port \in Ports
           /\ \A k \in Keys : byPort[k] # op.srv
           /\ \A d \in regs : d.sid # op.srv
<1>1. /\ op.srv \in ServerIds /\ op.srv <= nsrv
      /\ \A k \in Keys : byPort[k] # op.srv
      /\ \A d \in regs : d.sid # op.srv
      /\ op.port = 0 => scanCount >= 1
    BY DEF AwaitOk, AwaitOkThen, Enabling, IInv, OpSane, TypeOK, TypeOp, OpType, ServerIds
<1>2. srv[op.srv].port \in Ports
    BY <1>1 DEF AwaitOk, AwaitOkThen, IInv, TypeOK, TypeNet, SrvType
<1>3. CASE op.port = 0
    <2>1. scanCount \in ServerIds
        BY <1>1, <1>3 DEF IInv, TypeOK, TypeBook, ServerIds
    <2> QED
        BY <1>1, <1>2, <1>3, <2>1 DEF NewKey, Keys
<1>4. CASE op.port # 0
    BY <1>1, <1>2, <1>4 DEF NewKey, Keys, IInv, TypeOK, TypeOp, OpType
<1> QED
    BY <1>3, <1>4

\* A reload replaces the settings of a device and nothing else of it.
LEMMA ReloadedFacts ==
    ASSUME TypeRegs, NEW D \in SUBSET regs, NEW d \in Reloaded(D)
    PROVE  \E e \in regs : /\ d.sid = e.sid /\ d.type = e.type /\ d.num = e.num
                           /\ d.inst = e.inst /\ d.block = e.block
                           /\ d = IF e \in D THEN [e EXCEPT !.cfg = file[e.inst].cfg] ELSE e
BY DEF Reloaded, TypeRegs, RegType

-----------------------------------------------------------------------------
(* Types.  One lemma per group of variables; a step that leaves the group   *)
(* alone is its first case.                                                 *)

\* persistBoundPorts writes ports.
LEMMA PersistType ==
    ASSUME TypeDisk, NEW bound, \A i \in DOMAIN bound : bound[i] \in Ports \union {0},
           Persist(bound)
    PROVE  saved' \in [Instances -> Ports \union {0}]
BY DEF TypeDisk, Persist

LEMMA TypeDiskStep == ASSUME IInv, Next PROVE TypeDisk'
<1>0. TypeDisk
    BY DEF IInv, TypeOK
<1>1. CASE UNCHANGED disk
    BY <1>0, <1>1 DEF disk, TypeDisk
<1>2. ASSUME NEW i \in Instances, NEW on \in BOOLEAN, SetFile(i, on), saved' = saved PROVE TypeDisk'
    <2>1. file[i] \in FileType
        BY <1>0 DEF TypeDisk
    <2> QED
        BY <1>0, <1>2, <2>1 DEF SetFile, FileType, TypeDisk
<1>3. CASE Settle
    <2> DEFINE served == {r \in live : byPort[r.key] \notin failed}
               bound == [i \in {r.inst : r \in served} |->
                            srv[byPort[(CHOOSE r \in served : r.inst = i).key]].port]
    <2>1. file' = file /\ Persist(bound)
        BY <1>3 DEF Settle, SettleRows
    <2>2. ASSUME NEW i \in DOMAIN bound PROVE bound[i] \in Ports \union {0}
        <3>1. \E r \in served : r.inst = i
            OBVIOUS
        <3>2. (CHOOSE r \in served : r.inst = i) \in served
            BY <3>1
        <3> QED
            BY <3>2, RowServer
    <2> HIDE DEF bound
    <2>3. saved' \in [Instances -> Ports \union {0}]
        BY <1>0, <2>1, <2>2, PersistType
    <2> QED
        BY <1>0, <2>1, <2>3 DEF TypeDisk
<1>4. CASE EnableBlock
    <2>1. srv[Host].port \in Ports \union {0}
        <3>1. Host \in ServerIds
            BY <1>4, ClaimFacts DEF EnableBlock, EnableBlockSaving, Enabling
        <3>2. srv[Host] \in SrvType
            BY <3>1 DEF IInv, TypeOK, TypeNet
        <3> QED
            BY <3>2 DEF SrvType
    <2> DEFINE bound == [i \in {op.inst} |-> srv[Host].port]
    <2>2. file' = file /\ Persist(bound)
        BY <1>4 DEF EnableBlock, EnableBlockSaving
    <2>3. \A i \in DOMAIN bound : bound[i] \in Ports \union {0}
        BY <2>1
    <2> HIDE DEF bound
    <2>4. saved' \in [Instances -> Ports \union {0}]
        BY <1>0, <2>2, <2>3, PersistType
    <2> QED
        BY <1>0, <2>2, <2>4 DEF TypeDisk
<1>5. ASSUME Enabling, Abandon PROVE TypeDisk'
    <2>1. op.inst \in Instances
        BY <1>5, BlockFacts DEF Enabling
    <2> QED
        BY <1>2, <1>5, <2>1 DEF Abandon
<1>6. ASSUME NEW i \in Instances, EditSave(i) PROVE TypeDisk'
    BY <1>0, <1>6, FilesAssumption DEF EditSave, TypeDisk
<1>7. ASSUME NEW i \in Instances, EnableBegin(i) \/ DisableBegin(i) PROVE TypeDisk'
    BY <1>2, <1>7 DEF EnableBegin, DisableBegin
<1>8. CASE Requests
    BY <1>1, <1>6, <1>7, <1>8 DEF Requests, RestartRequest
<1>9. CASE Startup
    BY <1>1, <1>3, <1>9 DEF Startup, Boot, SkipDisabled, OpenEntry, BuildBlock, BuildBlockRefused,
       BuildRegisterFails, BuildAttachFails, BuildUnchanged, CloseEntry, BuildDone,
       BindStart, BindOk, BindErr, BindTimeout, BindFails, PublishResponder, WireFrontEnds
<1>10. CASE Servers \/ Others
    BY <1>1, <1>10 DEF Servers, Others, ServerBinds, ServerFails, ServerDies, OthersTake, OthersFree,
       EnvUnchanged
<1>11. CASE SwitchSteps
    BY <1>1, <1>4, <1>5, <1>11 DEF SwitchSteps, ReuseServer, StartServer, StartServerAt,
       AwaitOk, AwaitOkThen, AwaitFails, AwaitEndsIf, EnableBuildFails, EnableNumberTaken,
       EnableRegisterFails, EnableAttachFails, EnableDone, DisableBlock, CloseRow,
       UnregisterFails, DisableDone, DisableDoneLeaving
<1>12. CASE \/ \E t \in pending.left : RestartStep(t)
            \/ Sighup \/ Fatal \/ Stop
    BY <1>1, <1>12 DEF RestartStep, Sighup, Fatal, Stop, ProcessGone
<1> QED
    BY <1>8, <1>9, <1>10, <1>11, <1>12 DEF Next

\* What Settle leaves alone, and what it does to byPort.
LEMMA SettleFacts ==
    ASSUME Settle
    PROVE  /\ phase = "bind" /\ phase' = "page"
           /\ UNCHANGED <<todo, waiting, failed, errc, blame, net, scanCount, regs, op>>
           /\ byPort' = [k \in Keys |-> IF byPort[k] \in failed THEN 0 ELSE byPort[k]]
<1>1. phase = "bind" /\ phase' = "page"
    BY DEF Settle, SettleRows
<1>2. UNCHANGED <<todo, waiting, failed, errc, blame, net, scanCount, regs, op>>
    BY DEF Settle, SettleRows
<1>3. byPort' = [k \in Keys |-> IF byPort[k] \in failed THEN 0 ELSE byPort[k]]
    BY DEF Settle, SettleRows
<1> QED
    BY <1>1, <1>2, <1>3

LEMMA TypeStartupStep == ASSUME IInv, Next PROVE TypeStartup'
<1>0. TypeStartup /\ TypeNet
    BY DEF IInv, TypeOK
<1>1. CASE UNCHANGED startup
    BY <1>0, <1>1 DEF startup, TypeStartup
<1>2. CASE ProcessGone
    BY <1>2 DEF ProcessGone, TypeStartup, Phases
<1>3. CASE BindStart
    <2>1. NextToStart \in 1..nsrv
        BY <1>3, NextToStartFacts DEF BindStart, Unstarted
    <2> QED
        BY <1>0, <1>3, <2>1 DEF BindStart, TypeStartup, TypeNet
<1>4. ASSUME NEW e \in 0..MaxServers, NEW left \in SUBSET ServerIds, BindFails(e, left) PROVE TypeStartup'
    <2>1. waiting \in ServerIds /\ <<waiting, e>> \in ServerIds \X (0..MaxServers)
        BY <1>0, <1>4 DEF BindFails, TypeStartup, ServerIds
    <2> QED
        BY <1>0, <1>4, <2>1 DEF BindFails, TypeStartup
<1>5. ASSUME NEW s \in 1..nsrv, Report(s), UNCHANGED <<phase, todo, waiting, failed, blame>> PROVE TypeStartup'
    BY <1>0, <1>5 DEF Report, TypeStartup, TypeNet, ServerIds
<1>6. CASE Startup
    <2>1. CASE Boot \/ BuildDone \/ BindOk \/ Settle \/ PublishResponder \/ WireFrontEnds
        <3>1. CASE Settle
            BY <1>0, <3>1, SettleFacts DEF TypeStartup, Phases
        <3>2. CASE WireFrontEnds
            BY <1>0, <3>2 DEF WireFrontEnds, TypeStartup, Phases
        <3>3. CASE Boot \/ BuildDone \/ BindOk \/ PublishResponder
            BY <1>0, <3>3 DEF Boot, BuildDone, BindOk, PublishResponder, TypeStartup, Phases
        <3> QED
            BY <2>1, <3>1, <3>2, <3>3
    <2>2. ASSUME NEW i \in Instances, SkipDisabled(i) \/ OpenEntry(i) PROVE TypeStartup'
        BY <1>0, <2>2 DEF SkipDisabled, OpenEntry, TypeStartup
    <2>3. CASE BindErr \/ BindTimeout
        <3>1. CASE BindErr
            <4>1. PICK e \in errc : BindFails(e, errc \ {e})
                BY <3>1 DEF BindErr
            <4>2. errc \ {e} \in SUBSET ServerIds /\ e \in 0..MaxServers
                BY <1>0 DEF TypeStartup, ServerIds
            <4> QED
                BY <4>1, <4>2, <1>4
        <3>2. CASE BindTimeout
            <4>1. BindFails(0, errc) /\ errc \in SUBSET ServerIds /\ 0 \in 0..MaxServers
                BY <1>0, <3>2 DEF BindTimeout, TypeStartup
            <4> QED
                BY <1>4, <4>1
        <3> QED
            BY <2>3, <3>1, <3>2
    <2> QED
        BY <1>1, <1>3, <1>6, <2>1, <2>2, <2>3 DEF Startup, BuildBlock, BuildBlockRefused,
           BuildRegisterFails, BuildAttachFails, BuildUnchanged, CloseEntry
<1>7. CASE Servers \/ Others
    <2>1. ASSUME NEW s \in 1..nsrv, ServerFails(s) \/ ServerDies(s) PROVE TypeStartup'
        BY <1>5, <2>1 DEF ServerFails, ServerDies, EnvUnchanged
    <2>2. ASSUME NEW s \in 1..nsrv, ServerBinds(s) PROVE TypeStartup'
        BY <1>1, <2>2 DEF ServerBinds, EnvUnchanged, startup
    <2>3. CASE Others
        BY <1>1, <2>3 DEF Others, OthersTake, OthersFree, EnvUnchanged, startup
    <2> QED
        BY <1>7, <2>1, <2>2, <2>3 DEF Servers
<1>8. CASE SwitchSteps
    BY <1>1, <1>8 DEF SwitchSteps, ReuseServer, StartServer, StartServerAt, AwaitOk, AwaitOkThen,
       AwaitFails, AwaitEndsIf, EnableBuildFails, EnableNumberTaken, EnableRegisterFails,
       EnableAttachFails, Abandon, SwitchUnchanged, EnableBlock, EnableBlockSaving, EnableDone,
       DisableBlock, CloseRow, UnregisterFails, DisableDone, DisableDoneLeaving
<1>9. CASE Requests
    BY <1>1, <1>9 DEF Requests, EnableBegin, DisableBegin, EditSave, RestartRequest
<1>10. CASE \/ \E t \in pending.left : RestartStep(t)
            \/ Sighup \/ Fatal \/ Stop
    BY <1>1, <1>2, <1>10 DEF RestartStep, Sighup, Fatal, Stop
<1> QED
    BY <1>6, <1>7, <1>8, <1>9, <1>10 DEF Next

LEMMA TypeNetStep == ASSUME IInv, Next PROVE TypeNet'
<1>0. TypeNet
    BY DEF IInv, TypeOK
<1>1. CASE UNCHANGED net
    BY <1>0, <1>1 DEF net, TypeNet
<1>2. CASE ProcessGone
    BY <1>0, <1>2 DEF ProcessGone, TypeNet, NoServer, SrvType, Starters
<1>3. ASSUME NEW st \in {"built", "starting"}, NEW want \in Ports \union {0}, NEW win \in 0..MaxServers,
             NEW by \in Starters, NewServer(st, want, win, by)
      PROVE  TypeNet'
    <2>1. [st |-> st, want |-> want, win |-> win, port |-> 0, by |-> by] \in SrvType
        BY <1>3 DEF SrvType
    <2>2. nsrv + 1 \in ServerIds /\ nsrv + 1 \in 0..MaxServers
        BY <1>0, <1>3 DEF NewServer, TypeNet, ServerIds
    <2> QED
        BY <1>0, <1>3, <2>1, <2>2 DEF NewServer, TypeNet
<1>4. ASSUME NEW s \in 1..nsrv, NEW st \in {"bound", "dead"}, NEW p \in Ports \union {0},
             Outcome(s, st, p), UNCHANGED <<busy, nsrv>>
      PROVE  TypeNet'
    <2>1. srv[s] \in SrvType
        BY <1>0 DEF TypeNet, ServerIds
    <2> QED
        BY <1>0, <1>4, <2>1 DEF Outcome, TypeNet, SrvType
<1>5. /\ \A i \in Instances : PortOf(i) \in Ports \union {0}
      /\ op.port \in Ports \union {0} /\ scanCount \in 0..MaxServers
    BY DEF IInv, TypeOK, TypeDisk, TypeOp, TypeBook, FileType, OpType, PortOf
<1>6. CASE Startup
    <2>1. CASE BindStart
        BY <1>0, <2>1, ZenonT(60) DEF BindStart, TypeNet, SrvType
    <2>2. ASSUME NEW i \in Instances, OpenEntry(i) PROVE TypeNet'
        <3>1. CASE UNCHANGED net
            BY <1>1, <3>1
        <3>2. CASE NewServer("built", PortOf(i), IF PortOf(i) = 0 THEN scanCount ELSE 0, "boot")
            <4>1. /\ "built" \in {"built", "starting"} /\ "boot" \in Starters
                  /\ PortOf(i) \in Ports \union {0}
                  /\ (IF PortOf(i) = 0 THEN scanCount ELSE 0) \in 0..MaxServers
                BY <1>5, PageStarters
            <4> QED
                BY <1>3, <3>2, <4>1
        <3> QED
            BY <2>2, <3>1, <3>2 DEF OpenEntry
    <2> QED
        BY <1>1, <1>6, <2>1, <2>2 DEF Startup, Boot, SkipDisabled, BuildBlock, BuildBlockRefused,
           BuildRegisterFails, BuildAttachFails, BuildUnchanged, CloseEntry, BuildDone, BindOk,
           BindErr, BindTimeout, BindFails, Settle, SettleRows, PublishResponder, WireFrontEnds
<1>7. CASE Servers
    <2>1. ASSUME NEW s \in 1..nsrv, ServerFails(s) \/ ServerDies(s) PROVE TypeNet'
        BY <1>4, <2>1 DEF ServerFails, ServerDies, EnvUnchanged
    <2>2. ASSUME NEW s \in 1..nsrv, ServerBinds(s) PROVE TypeNet'
        <3>1. Candidates(s) \subseteq Ports
            <4>1. srv[s] \in SrvType
                BY <1>0 DEF TypeNet, ServerIds
            <4> QED
                BY <4>1 DEF Candidates, Window, SrvType
        <3> QED
            BY <1>4, <2>2, <3>1 DEF ServerBinds, EnvUnchanged
    <2> QED
        BY <1>7, <2>1, <2>2 DEF Servers
<1>8. CASE Others
    BY <1>0, <1>8 DEF Others, OthersTake, OthersFree, EnvUnchanged, TypeNet
<1>9. CASE SwitchSteps
    <2>1. CASE StartServer
        BY <1>3, <1>5, <2>1, PageStarters DEF StartServer, StartServerAt
    <2> QED
        BY <1>1, <1>9, <2>1 DEF SwitchSteps, ReuseServer, AwaitOk, AwaitOkThen,
           AwaitFails, AwaitEndsIf, EnableBuildFails, EnableNumberTaken, EnableRegisterFails,
           EnableAttachFails, Abandon, SwitchUnchanged, EnableBlock, EnableBlockSaving, EnableDone,
           DisableBlock, CloseRow, UnregisterFails, DisableDone, DisableDoneLeaving
<1>10. CASE Requests
    BY <1>1, <1>10 DEF Requests, EnableBegin, DisableBegin, EditSave, RestartRequest
<1>11. CASE \/ \E t \in pending.left : RestartStep(t)
            \/ Sighup \/ Fatal \/ Stop
    BY <1>1, <1>2, <1>11 DEF RestartStep, Sighup, Fatal, Stop
<1> QED
    BY <1>6, <1>7, <1>8, <1>9, <1>10, <1>11 DEF Next

\* TakeNumber, and the new table of a server, keep the tables of numbers typed.
LEMMA TypeBookStep == ASSUME IInv, Next PROVE TypeBook'
<1>0. TypeBook /\ TypeNet /\ scanCount <= nsrv
    BY DEF IInv, TypeOK, Created
<1>1. CASE UNCHANGED book
    BY <1>0, <1>1 DEF book, TypeBook
<1>2. CASE ProcessGone
    BY <1>2 DEF ProcessGone, TypeBook, NoNumbers
<1>3. ASSUME op.kind \in {"build", "enable"}, op.blocks # {}, op.key # 0, Assignable, TakeNumber,
             UNCHANGED <<byPort, byBound, scanCount>>
      PROVE  TypeBook'
    <2>1. op.key \in Keys /\ TypeOf[op.inst] \in Types /\ Number \in Nat
        BY <1>3, ClaimFacts
    <2> QED
        BY <1>0, <1>3, <2>1 DEF TakeNumber, TypeBook
<1>4. NoNumbers \in [Types -> SUBSET Nat]
    BY DEF NoNumbers
<1>5. CASE Building /\ BuildUnchanged /\ (used' = used \/ (Assignable /\ TakeNumber))
    <2>1. op.key # 0 /\ op.kind = "build" /\ op.blocks # {}
        BY <1>5 DEF Building, IInv, OpSane
    <2>2. CASE used' = used
        BY <1>1, <1>5, <2>2 DEF BuildUnchanged, book
    <2>3. CASE Assignable /\ TakeNumber
        BY <1>3, <1>5, <2>1, <2>3 DEF BuildUnchanged
    <2> QED
        BY <1>5, <2>2, <2>3
<1>6. ASSUME NEW i \in Instances, OpenEntry(i) PROVE TypeBook'
    <2>1. PortOf(i) \in Ports \union {0}
        BY DEF IInv, TypeOK, TypeDisk, FileType, PortOf
    <2>2. CASE UNCHANGED <<byPort, used, scanCount>>
        BY <1>1, <1>6, <2>2 DEF OpenEntry, book
    <2>3. CASE nsrv < MaxServers
        <3>1. nsrv + 1 \in 0..MaxServers /\ scanCount + 1 \in 1..MaxServers
            BY <1>0, <2>3 DEF TypeBook, TypeNet
        <3> DEFINE key == IF PortOf(i) = 0 THEN -1 - scanCount ELSE PortOf(i)
        <3>2. key \in Keys
            <4>1. CASE PortOf(i) = 0
                <5>1. -1 - scanCount = -(scanCount + 1)
                    BY <1>0 DEF TypeBook
                <5> QED
                    BY <3>1, <4>1, <5>1 DEF Keys, ServerIds
            <4> QED
                BY <2>1, <4>1 DEF Keys
        <3>3. CASE /\ byPort' = [byPort EXCEPT ![key] = nsrv + 1]
                   /\ used' = [used EXCEPT ![key] = NoNumbers]
                   /\ scanCount' = (IF PortOf(i) = 0 THEN scanCount + 1 ELSE scanCount)
                   /\ byBound' = byBound
            <4> HIDE DEF key
            <4> QED
                BY <1>0, <1>4, <3>1, <3>2, <3>3 DEF TypeBook
        <3> QED
            BY <1>6, <2>2, <3>3 DEF OpenEntry
    <2> QED
        BY <1>6, <2>2, <2>3 DEF OpenEntry, NewServer
<1>7. CASE Settle
    <2>1. ASSUME NEW p \in Ports
          PROVE  (LET here == {s \in Kept : srv[s].port = p}
                  IN  IF here = {} THEN byBound[p] ELSE Last(here)) \in 0..MaxServers
        <3> DEFINE here == {s \in Kept : srv[s].port = p}
        <3>1. here \in SUBSET (1..nsrv) /\ nsrv \in Nat
            BY <1>0 DEF Kept, BootServers, TypeNet
        <3>2. CASE here # {}
            <4>1. Last(here) \in 1..nsrv
                BY <3>1, <3>2, LastIsIn
            <4> QED
                BY <1>0, <3>2, <4>1 DEF TypeNet
        <3> QED
            BY <1>0, <3>2 DEF TypeBook
    <2>2. \A k \in Keys : (IF byPort[k] \in failed THEN 0 ELSE byPort[k]) \in 0..MaxServers
        BY <1>0 DEF TypeBook
    <2> QED
        BY <1>0, <1>7, <2>1, <2>2 DEF Settle, SettleRows, TypeBook
<1>8. CASE Startup
    BY <1>1, <1>5, <1>6, <1>7, <1>8 DEF Startup, Boot, SkipDisabled, BuildBlock, BuildBlockRefused,
       BuildRegisterFails, BuildAttachFails, CloseEntry, BuildDone, BindStart, BindOk,
       BindErr, BindTimeout, BindFails, PublishResponder, WireFrontEnds
<1>9. CASE AwaitOk
    <2>1. op.srv \in 0..MaxServers /\ NewKey \in Keys
        <3>1. op.srv \in 0..MaxServers /\ op.port \in Ports \union {0}
            BY DEF IInv, TypeOK, TypeOp, OpType
        <3>2. CASE op.port = 0
            <4>1. scanCount \in ServerIds
                BY <1>0, <1>9, <3>2 DEF AwaitOk, AwaitOkThen, Enabling, IInv, OpSane, TypeBook, ServerIds
            <4> QED
                BY <3>1, <3>2, <4>1 DEF NewKey, Keys
        <3> QED
            BY <3>1, <3>2 DEF NewKey, Keys
    <2> QED
        BY <1>0, <1>4, <1>9, <2>1 DEF AwaitOk, AwaitOkThen, TypeBook
<1>10. CASE StartServer
    <2>1. scanCount + 1 \in 0..MaxServers
        BY <1>0, <1>10 DEF StartServer, StartServerAt, NewServer, TypeBook, TypeNet
    <2> QED
        BY <1>0, <1>10, <2>1 DEF StartServer, StartServerAt, TypeBook
<1>11. CASE DisableBlock
    <2>1. ThisRow.key \in Keys /\ TypeOf[ThisRow.inst] \in Types
        BY <1>11, RowFacts DEF DisableBlock, CloseRow, RowType
    <2> QED
        BY <1>0, <1>11, <2>1 DEF DisableBlock, CloseRow, SwitchUnchanged, TypeBook
<1>12. CASE EnableAttachFails \/ EnableBlock
    BY <1>3, <1>12 DEF EnableAttachFails, EnableBlock, EnableBlockSaving, Enabling, Abandon, SwitchUnchanged
<1>13. CASE SwitchSteps
    BY <1>1, <1>9, <1>10, <1>11, <1>12, <1>13 DEF SwitchSteps, ReuseServer,
       AwaitFails, AwaitEndsIf, EnableBuildFails, EnableNumberTaken, EnableRegisterFails,
       Abandon, SwitchUnchanged, EnableDone, UnregisterFails, DisableDone, DisableDoneLeaving, book
<1>14. CASE Servers \/ Others \/ Requests
    BY <1>1, <1>14 DEF Servers, Others, Requests, ServerBinds, ServerFails, ServerDies, OthersTake,
       OthersFree, EnvUnchanged, EnableBegin, DisableBegin, EditSave, RestartRequest
<1>15. CASE \/ \E t \in pending.left : RestartStep(t)
            \/ Sighup \/ Fatal \/ Stop
    BY <1>1, <1>2, <1>15 DEF RestartStep, Sighup, Fatal, Stop
<1> QED
    BY <1>8, <1>13, <1>14, <1>15 DEF Next

\* Every registered device was given a natural number on a server that exists.
LEMMA TypeRegsStep == ASSUME IInv, Next PROVE TypeRegs'
<1>0. TypeRegs /\ file \in [Instances -> FileType]
    BY DEF IInv, TypeOK, TypeDisk
<1>1. CASE regs' \subseteq regs
    BY <1>0, <1>1 DEF TypeRegs, RegType
<1>2. ASSUME op.kind \in {"build", "enable"}, op.blocks # {}, op.key # 0, Assignable,
             NEW re \in BOOLEAN, AddDevice(re)
      PROVE  TypeRegs'
    BY <1>0, <1>2, ClaimFacts DEF AddDevice, TypeRegs, RegType
<1>3. ASSUME NEW D \in SUBSET regs, regs' = Reloaded(D) PROVE TypeRegs'
    BY <1>0, <1>3 DEF Reloaded, TypeRegs, RegType, FileType
<1>4. CASE Startup
    <2>1. ASSUME NEW re \in BOOLEAN, Building, Assignable, AddDevice(re) PROVE TypeRegs'
        BY <1>2, <2>1 DEF Building, IInv, OpSane
    <2> QED
        BY <1>1, <1>4, <2>1 DEF Startup, Boot, SkipDisabled, OpenEntry, BuildBlock, BuildBlockRefused,
           BuildRegisterFails, BuildAttachFails, CloseEntry, BuildDone, BindStart, BindOk,
           BindErr, BindTimeout, BindFails, Settle, SettleRows, PublishResponder, WireFrontEnds
<1>5. CASE SwitchSteps
    <2>1. CASE EnableAttachFails \/ EnableBlock
        BY <1>2, <2>1 DEF EnableAttachFails, EnableBlock, EnableBlockSaving, Enabling
    <2> QED
        BY <1>1, <1>5, <2>1 DEF SwitchSteps, ReuseServer, StartServer, StartServerAt, AwaitOk, AwaitOkThen,
           AwaitFails, AwaitEndsIf, EnableBuildFails, EnableNumberTaken, EnableRegisterFails,
           EnableDone, DisableBlock, CloseRow, UnregisterFails, DisableDone, DisableDoneLeaving
<1>6. CASE Servers \/ Others \/ Requests
    BY <1>1, <1>6 DEF Servers, Others, Requests, ServerBinds, ServerFails, ServerDies, OthersTake,
       OthersFree, EnvUnchanged, EnableBegin, DisableBegin, EditSave, RestartRequest
<1>7. ASSUME NEW t \in pending.left, RestartStep(t) PROVE TypeRegs'
    <2>1. DevicesAt(t) \in SUBSET regs
        BY DEF DevicesAt
    <2> QED
        BY <1>1, <1>3, <1>7, <2>1 DEF RestartStep
<1>8. CASE Sighup
    <2>1. PICK R \in SUBSET regs : regs' = Reloaded(R)
        BY <1>8 DEF Sighup
    <2> QED
        BY <1>3, <2>1
<1>9. CASE Fatal \/ Stop
    BY <1>1, <1>9 DEF Fatal, Stop, ProcessGone
<1> QED
    BY <1>4, <1>5, <1>6, <1>7, <1>8, <1>9 DEF Next

\* The front-end of a row is typed, whoever starts it.
LEMMA FrontEndType ==
    ASSUME IInv, NEW r \in RowType, NEW by \in Starters
    PROVE  FrontEnd(r, by) \in FrontType
BY DEF FrontEnd, FrontType, RowType, IInv, TypeOK, TypeBook

LEMMA TypePageStep == ASSUME IInv, Next PROVE TypePage'
<1>0. TypePage /\ TypeNet
    BY DEF IInv, TypeOK
<1>1. CASE UNCHANGED page
    BY <1>0, <1>1 DEF page, TypePage
<1>2. CASE ProcessGone
    BY <1>2 DEF ProcessGone, TypePage
<1>3. ASSUME op.kind \in {"build", "enable"}, op.blocks # {}, op.key # 0, Assignable,
             NEW stop \in {"none"} \union Starters, AddRow(stop)
      PROVE  live' \subseteq RowType
    BY <1>0, <1>3, ClaimFacts DEF AddRow, TypePage
<1>4. CASE Startup
    <2>1. ASSUME Building, Assignable, AddRow("none"), BuildUnchanged PROVE TypePage'
        <3>1. live' \subseteq RowType
            BY <1>3, <2>1 DEF Building, IInv, OpSane
        <3> QED
            BY <1>0, <2>1, <3>1 DEF BuildUnchanged, TypePage
    <2>2. ASSUME NEW i \in Instances, OpenEntry(i) PROVE TypePage'
        BY <1>0, <2>2 DEF OpenEntry, TypePage
    <2>3. CASE Settle
        BY <1>0, <2>3 DEF Settle, SettleRows, TypePage
    <2>4. CASE PublishResponder
        <3>1. \A s \in Kept : srv[s].port \in Ports
            <4>1. \A s \in Kept : srv[s] \in SrvType
                BY <1>0 DEF Kept, BootServers, TypeNet, ServerIds
            <4>2. \A s \in Kept : srv[s].port # 0
                BY <2>4 DEF PublishResponder, IInv, ServersPorted, PageUp
            <4> QED
                BY <4>1, <4>2 DEF SrvType
        <3> QED
            BY <1>0, <2>4, <3>1 DEF PublishResponder, TypePage
    <2>5. CASE WireFrontEnds
        <3>1. \A r \in live : FrontEnd(r, "boot") \in FrontType
            BY <1>0, FrontEndType, PageStarters DEF TypePage
        <3>2. \A r \in live : [r EXCEPT !.stop = "boot"] \in RowType
            BY <1>0 DEF TypePage, RowType, Starters
        <3> QED
            BY <1>0, <2>5, <3>1, <3>2 DEF WireFrontEnds, TypePage
    <2>6. CASE BuildBlockRefused \/ BuildRegisterFails \/ BuildAttachFails
        BY <1>0, <2>6 DEF BuildBlockRefused, BuildRegisterFails, BuildAttachFails, BuildUnchanged, TypePage
    <2> QED
        BY <1>1, <1>4, <2>1, <2>2, <2>3, <2>4, <2>5, <2>6 DEF Startup, Boot, SkipDisabled, BuildBlock,
           CloseEntry, BuildDone, BindStart, BindOk, BindErr, BindTimeout, BindFails
<1>5. CASE EnableBlock
    <2>1. live' \subseteq RowType
        BY <1>3, <1>5, PageStarters DEF EnableBlock, EnableBlockSaving, Enabling
    <2>2. Row(op.inst, Block, op.key, Number, Starter) \in RowType
        BY <1>5, ClaimFacts, PageStarters DEF EnableBlock, EnableBlockSaving, Enabling
    <2>3. FrontEnd(Row(op.inst, Block, op.key, Number, Starter), Starter) \in FrontType
        BY <2>2, FrontEndType, PageStarters
    <2> QED
        BY <1>0, <1>5, <2>1, <2>3 DEF EnableBlock, EnableBlockSaving, SwitchUnchanged, TypePage
<1>6. ASSUME Disabling, StopFrontEnd(ThisRow), SwitchUnchanged, UNCHANGED rowOn PROVE TypePage'
    <2>1. ThisRow \in RowType
        BY <1>6, RowFacts
    <2>2. [ThisRow EXCEPT !.stop = "none"] \in RowType
        BY <2>1 DEF RowType
    <2>3. fronts' \subseteq fronts /\ live' = (live \ {ThisRow}) \union {[ThisRow EXCEPT !.stop = "none"]}
        BY <1>6 DEF StopFrontEnd
    <2> QED
        BY <1>0, <1>6, <2>2, <2>3 DEF SwitchUnchanged, TypePage
<1>7. CASE AwaitOk
    <2>1. srv[op.srv].port \in Ports
        <3>1. op.srv \in ServerIds
            BY <1>7 DEF AwaitOk, AwaitOkThen, IInv, TypeOK, TypeOp, OpType, ServerIds
        <3> QED
            BY <1>0, <1>7, <3>1 DEF AwaitOk, AwaitOkThen, TypeNet, SrvType
    <2> QED
        BY <1>0, <1>7, <2>1 DEF AwaitOk, AwaitOkThen, TypePage
<1>8. CASE Enabling /\ Abandon
    BY <1>0, <1>8 DEF Abandon, SwitchUnchanged, TypePage
<1>9. CASE EnableDone \/ DisableDone
    BY <1>0, <1>9 DEF EnableDone, DisableDone, DisableDoneLeaving, TypePage
<1>10. CASE SwitchSteps
    BY <1>1, <1>5, <1>6, <1>7, <1>8, <1>9, <1>10 DEF SwitchSteps, ReuseServer, StartServer, StartServerAt,
       AwaitFails, AwaitEndsIf, EnableBuildFails, EnableNumberTaken, EnableRegisterFails,
       EnableAttachFails, DisableBlock, CloseRow, UnregisterFails
<1>11. ASSUME NEW i \in Instances, EditSave(i) PROVE TypePage'
    BY <1>0, <1>11, FilesAssumption DEF EditSave, TypePage, FileType
<1>12. CASE Servers \/ Others \/ Requests
    BY <1>1, <1>11, <1>12 DEF Servers, Others, Requests, ServerBinds, ServerFails, ServerDies, OthersTake,
       OthersFree, EnvUnchanged, EnableBegin, DisableBegin, RestartRequest
<1>13. CASE \/ \E t \in pending.left : RestartStep(t)
            \/ Sighup \/ Fatal \/ Stop
    BY <1>1, <1>2, <1>13 DEF RestartStep, Sighup, Fatal, Stop
<1> QED
    BY <1>4, <1>10, <1>12, <1>13 DEF Next

LEMMA TypeOpStep == ASSUME IInv, Next PROVE TypeOp'
<1>0. TypeOp /\ TypeDisk /\ TypeNet /\ TypeBook
    BY DEF IInv, TypeOK
<1>1. CASE UNCHANGED <<op, pending>>
    BY <1>0, <1>1 DEF TypeOp
<1>2. CASE ProcessGone
    BY <1>2 DEF ProcessGone, TypeOp, Idle, NoRestart, OpType
<1>3. Idle \in OpType /\ NoRestart \in [inst : Instances \union {Nobody}, left : SUBSET AddressType]
    BY DEF Idle, NoRestart, OpType
<1>4. CASE op' = Idle /\ pending' = pending
    BY <1>0, <1>3, <1>4 DEF TypeOp
<1>5. CASE NextBlock /\ pending' = pending
    BY <1>0, <1>5 DEF NextBlock, TypeOp, OpType
<1>6. \A i \in Instances : /\ PortOf(i) \in Ports \union {0}
                           /\ DOMAIN file[i].shape \subseteq Blocks
    BY <1>0 DEF TypeDisk, FileType, PortOf, Blocks
<1>7. ASSUME NEW i \in Instances, OpenEntry(i) PROVE TypeOp'
    <2>1. PICK key \in Keys :
              op' = [Idle EXCEPT !.kind = "build", !.inst = i, !.port = PortOf(i), !.key = key,
                                 !.blocks = DOMAIN file[i].shape]
        BY <1>7, EntryKeyType DEF OpenEntry, EntryKey
    <2>2. pending' = pending
        BY <1>7 DEF OpenEntry
    <2> QED
        BY <1>0, <1>3, <1>6, <2>1, <2>2 DEF TypeOp, OpType
<1>8. CASE Startup
    BY <1>1, <1>4, <1>5, <1>7, <1>8 DEF Startup, Boot, SkipDisabled, BuildBlock, BuildBlockRefused,
       BuildRegisterFails, BuildAttachFails, BuildUnchanged, CloseEntry, BuildDone, BindStart, BindOk,
       BindErr, BindTimeout, BindFails, Settle, SettleRows, PublishResponder, WireFrontEnds
<1>9. CASE SwitchSteps
    <2>1. CASE ReuseServer
        BY <1>0, <2>1 DEF ReuseServer, HasServer, TypeOp, OpType, Keys
    <2>2. CASE StartServer
        <3>1. nsrv + 1 \in 0..MaxServers
            BY <1>0, <2>2 DEF StartServer, StartServerAt, NewServer, TypeNet
        <3> QED
            BY <1>0, <2>2, <3>1 DEF StartServer, StartServerAt, TypeOp, OpType
    <2>3. CASE AwaitOk
        <3>1. NewKey \in Keys
            BY <2>3, AwaitFacts
        <3>2. PICK key \in Keys \union {0} : op' = [op EXCEPT !.key = key, !.srv = 0]
            BY <2>3, <3>1 DEF AwaitOk, AwaitOkThen
        <3>3. 0 \in 0..MaxServers
            OBVIOUS
        <3>4. op' \in OpType
            <4>1. /\ op \in OpType /\ DOMAIN op' = DOMAIN op
                  /\ op'.kind = op.kind /\ op'.inst = op.inst /\ op'.port = op.port
                  /\ op'.key = key /\ op'.srv = 0 /\ op'.blocks = op.blocks
                BY <1>0, <3>2 DEF TypeOp, OpType
            <4> QED
                BY <1>0, <3>2, <3>3, <4>1 DEF TypeOp, OpType
        <3> QED
            BY <1>0, <2>3, <3>4 DEF AwaitOk, AwaitOkThen, TypeOp
    <2>4. CASE EnableBlock
        BY <1>0, <2>4 DEF EnableBlock, EnableBlockSaving, SwitchUnchanged, TypeOp, OpType
    <2> QED
        BY <1>4, <1>5, <1>9, <2>1, <2>2, <2>3, <2>4 DEF SwitchSteps, AwaitFails, AwaitEndsIf,
           EnableBuildFails, EnableNumberTaken, EnableRegisterFails, EnableAttachFails, Abandon,
           SwitchUnchanged, EnableDone, DisableBlock, CloseRow, UnregisterFails, DisableDone,
           DisableDoneLeaving
<1>10. ASSUME NEW i \in Instances, EnableBegin(i) PROVE TypeOp'
    BY <1>0, <1>3, <1>6, <1>10 DEF EnableBegin, TypeOp, OpType
<1>11. ASSUME NEW i \in Instances, DisableBegin(i) PROVE TypeOp'
    <2>1. {r.block : r \in RowsOf(i)} \subseteq Blocks
        BY DEF RowsOf, IInv, TypeOK, TypePage, RowType
    <2> QED
        BY <1>0, <1>3, <1>11, <2>1 DEF DisableBegin, TypeOp, OpType
<1>12. ASSUME NEW i \in Instances, RestartRequest(i) PROVE TypeOp'
    <2>1. ASSUME NEW r \in RowsOf(i)
          PROVE  [sid |-> byBound[srv[byPort[r.key]].port], type |-> TypeOf[i], num |-> r.num] \in AddressType
        <3>1. r \in live
            BY DEF RowsOf
        <3>2. srv[byPort[r.key]].port \in Ports
            <4>1. r.key \in Keys /\ byPort[r.key] # 0
                BY <3>1, RowServer DEF ServerIds
            <4>2. phase \in PageUp
                BY <1>12 DEF RestartRequest, Ready, PageServed, PageUp
            <4> QED
                BY <3>1, <4>1, <4>2, RowServer DEF IInv, ServersPorted
        <3> QED
            BY <1>0, <3>1, <3>2, RowServer DEF TypeBook, AddressType
    <2> DEFINE left == {[sid |-> byBound[srv[byPort[r.key]].port],
                         type |-> TypeOf[i], num |-> r.num] : r \in RowsOf(i)}
    <2>2. left \in SUBSET AddressType
        BY <2>1
    <2>3. pending' = [inst |-> i, left |-> left] /\ op' = op
        BY <1>12 DEF RestartRequest
    <2> HIDE DEF left
    <2> QED
        BY <1>0, <2>2, <2>3 DEF TypeOp
<1>13. CASE Servers \/ Others \/ Requests
    BY <1>1, <1>10, <1>11, <1>12, <1>13 DEF Servers, Others, Requests, ServerBinds, ServerFails,
       ServerDies, OthersTake, OthersFree, EnvUnchanged, EditSave
<1>14. ASSUME NEW t \in pending.left, RestartStep(t) PROVE TypeOp'
    BY <1>0, <1>3, <1>14 DEF RestartStep, TypeOp
<1>15. CASE Sighup \/ Fatal \/ Stop
    BY <1>1, <1>2, <1>15 DEF Sighup, Fatal, Stop
<1> QED
    BY <1>8, <1>9, <1>13, <1>14, <1>15 DEF Next

-----------------------------------------------------------------------------
(* The rest of the invariant.                                               *)

LEMMA CreatedStep == ASSUME IInv, Next PROVE Created'
<1>0. /\ Created /\ TypeNet /\ TypeBook /\ TypeRegs
      /\ op \in OpType /\ file \in [Instances -> FileType]
    BY DEF IInv, TypeOK, TypeOp, TypeDisk
<1>1. CASE UNCHANGED <<nsrv, scanCount, byPort>> /\ regs' \subseteq regs
    BY <1>0, <1>1 DEF Created
<1>2. CASE ProcessGone
    BY <1>2 DEF ProcessGone, Created
<1>3. ASSUME op.kind \in {"build", "enable"}, op.blocks # {}, op.key # 0, Assignable,
             NEW re \in BOOLEAN, AddDevice(re),
             UNCHANGED <<nsrv, scanCount, byPort>>
      PROVE  Created'
    BY <1>0, <1>3, ClaimFacts DEF AddDevice, Registration, Created
<1>4. ASSUME NEW D \in SUBSET regs, regs' = Reloaded(D), UNCHANGED <<nsrv, scanCount, byPort>> PROVE Created'
    <2>1. \A d \in regs' : \E e \in regs : d.sid = e.sid
        BY <1>0, <1>4 DEF Reloaded, TypeRegs, RegType
    <2> QED
        BY <1>0, <1>4, <2>1 DEF Created
<1>5. CASE Startup
    <2>1. ASSUME NEW re \in BOOLEAN, Building, Assignable, AddDevice(re), BuildUnchanged PROVE Created'
        BY <1>3, <2>1 DEF Building, BuildUnchanged, net, IInv, OpSane
    <2>2. ASSUME NEW i \in Instances, OpenEntry(i) PROVE Created'
        <3>1. CASE UNCHANGED <<net, byPort, used, scanCount>>
            BY <1>1, <2>2, <3>1 DEF OpenEntry, net
        <3>2. ASSUME NEW key, NewServer("built", PortOf(i), IF PortOf(i) = 0 THEN scanCount ELSE 0, "boot"),
                     byPort' = [byPort EXCEPT ![key] = nsrv + 1], regs' = regs,
                     scanCount' = scanCount \/ scanCount' = scanCount + 1
              PROVE  Created'
            <4>1. nsrv' = nsrv + 1
                BY <3>2 DEF NewServer
            <4>2. \A k \in Keys : byPort'[k] <= nsrv'
                BY <1>0, <3>2, <4>1 DEF TypeBook, TypeNet, Created
            <4>3. \A d \in regs' : d.sid <= nsrv'
                BY <1>0, <3>2, <4>1 DEF TypeRegs, RegType, ServerIds, TypeNet, Created
            <4> QED
                BY <1>0, <3>2, <4>1, <4>2, <4>3 DEF TypeBook, TypeNet, Created
        <3> QED
            BY <2>2, <3>1, <3>2 DEF OpenEntry
    <2>3. CASE Settle
        BY <1>0, <2>3, SettleFacts DEF net, Created, TypeNet
    <2> QED
        BY <1>1, <1>5, <2>1, <2>2, <2>3 DEF Startup, Boot, SkipDisabled, BuildBlock, BuildBlockRefused,
           BuildRegisterFails, BuildAttachFails, BuildUnchanged, CloseEntry, BuildDone, BindStart, BindOk,
           BindErr, BindTimeout, BindFails, PublishResponder, WireFrontEnds, net, book
<1>6. CASE SwitchSteps
    <2>1. CASE StartServer
        BY <1>0, <2>1 DEF StartServer, StartServerAt, NewServer, Created, TypeNet, TypeBook, TypeRegs, RegType,
           ServerIds
    <2>2. CASE AwaitOk
        <3>1. op.srv <= nsrv
            BY <2>2 DEF AwaitOk, AwaitOkThen, Enabling, IInv, OpSane
        <3> QED
            BY <1>0, <2>2, <3>1 DEF AwaitOk, AwaitOkThen, net, Created, TypeBook
    <2>3. CASE EnableAttachFails \/ EnableBlock
        BY <1>3, <2>3 DEF EnableAttachFails, EnableBlock, EnableBlockSaving, Enabling, Abandon,
           SwitchUnchanged, net
    <2> QED
        BY <1>1, <1>6, <2>1, <2>2, <2>3 DEF SwitchSteps, ReuseServer, AwaitFails, AwaitEndsIf,
           EnableBuildFails, EnableNumberTaken, EnableRegisterFails, Abandon, SwitchUnchanged, EnableDone,
           DisableBlock, CloseRow, UnregisterFails, DisableDone, DisableDoneLeaving, net, book
<1>7. CASE Servers \/ Others \/ Requests
    BY <1>1, <1>7 DEF Servers, Others, Requests, ServerBinds, ServerFails, ServerDies, OthersTake,
       OthersFree, EnvUnchanged, EnableBegin, DisableBegin, EditSave, RestartRequest, net, book
<1>8. ASSUME NEW t \in pending.left, RestartStep(t) PROVE Created'
    BY <1>1, <1>4, <1>8 DEF RestartStep, DevicesAt, net, book
<1>9. CASE Sighup
    <2>1. PICK R \in SUBSET regs : regs' = Reloaded(R)
        BY <1>9 DEF Sighup
    <2> QED
        BY <1>4, <1>9, <2>1 DEF Sighup, net, book
<1>10. CASE Fatal \/ Stop
    BY <1>2, <1>10 DEF Fatal, Stop
<1> QED
    BY <1>5, <1>6, <1>7, <1>8, <1>9, <1>10 DEF Next

\* assign claims one number at a time, so the tables stay finite.
LEMMA FiniteTablesStep == ASSUME IInv, Next PROVE FiniteTables'
<1>0. FiniteTables /\ TypeBook
    BY DEF IInv, TypeOK
<1>1. CASE used' = used
    BY <1>0, <1>1 DEF FiniteTables
<1>2. ASSUME \A k \in Keys, t \in Types :
                \/ used'[k][t] = used[k][t]
                \/ used'[k][t] = {}
                \/ \E n \in Nat : used'[k][t] = used[k][t] \union {n} \/ used'[k][t] = used[k][t] \ {n}
      PROVE  FiniteTables'
    <2> SUFFICES ASSUME NEW k \in Keys, NEW t \in Types PROVE IsFiniteSet(used'[k][t])
        BY DEF FiniteTables
    <2>1. IsFiniteSet(used[k][t])
        BY <1>0 DEF FiniteTables
    <2>2. \A n \in Nat : IsFiniteSet(used[k][t] \union {n}) /\ IsFiniteSet(used[k][t] \ {n})
        BY <2>1, FS_AddElement, FS_RemoveElement
    <2>3. IsFiniteSet({})
        BY FS_EmptySet
    <2>4. CASE used'[k][t] = used[k][t]
        BY <2>1, <2>4
    <2>5. CASE used'[k][t] = {}
        BY <2>3, <2>5
    <2>6. ASSUME NEW n \in Nat, used'[k][t] = used[k][t] \union {n} \/ used'[k][t] = used[k][t] \ {n}
          PROVE  IsFiniteSet(used'[k][t])
        BY <2>2, <2>6
    <2> QED
        BY <1>2, <2>4, <2>5, <2>6
<1>3. ASSUME op.kind \in {"build", "enable"}, op.blocks # {}, op.key # 0, Assignable, TakeNumber
      PROVE  FiniteTables'
    <2>1. op.key \in Keys /\ TypeOf[op.inst] \in Types /\ Number \in Nat
        BY <1>3, ClaimFacts
    <2> QED
        BY <1>0, <1>2, <1>3, <2>1 DEF TakeNumber, TypeBook
<1>4. ASSUME NEW key, used' = [used EXCEPT ![key] = NoNumbers] PROVE FiniteTables'
    BY <1>0, <1>2, <1>4 DEF NoNumbers, TypeBook
<1>5. CASE ProcessGone
    BY <1>2, <1>5 DEF ProcessGone, NoNumbers
<1>6. CASE Startup
    <2>1. CASE Building /\ Assignable /\ TakeNumber
        BY <1>3, <2>1 DEF Building, IInv, OpSane
    <2>2. ASSUME NEW i \in Instances, OpenEntry(i) PROVE FiniteTables'
        BY <1>1, <1>4, <2>2 DEF OpenEntry
    <2> QED
        BY <1>1, <1>6, <2>1, <2>2 DEF Startup, Boot, SkipDisabled, BuildBlock, BuildBlockRefused,
           BuildRegisterFails, BuildAttachFails, CloseEntry, BuildDone, BindStart, BindOk,
           BindErr, BindTimeout, BindFails, Settle, SettleRows, PublishResponder, WireFrontEnds, book
<1>7. CASE SwitchSteps
    <2>1. CASE EnableAttachFails \/ EnableBlock
        BY <1>3, <2>1 DEF EnableAttachFails, EnableBlock, EnableBlockSaving, Enabling
    <2>2. CASE AwaitOk
        BY <1>4, <2>2 DEF AwaitOk, AwaitOkThen
    <2>3. CASE DisableBlock
        <3>1. ThisRow.key \in Keys /\ TypeOf[ThisRow.inst] \in Types /\ ThisRow.num \in Nat
            BY <2>3, RowFacts DEF DisableBlock, CloseRow, RowType
        <3> QED
            BY <1>0, <1>2, <2>3, <3>1 DEF DisableBlock, CloseRow, TypeBook
    <2> QED
        BY <1>1, <1>7, <2>1, <2>2, <2>3 DEF SwitchSteps, ReuseServer, StartServer, StartServerAt,
           AwaitFails, AwaitEndsIf, EnableBuildFails, EnableNumberTaken, EnableRegisterFails,
           EnableDone, UnregisterFails, DisableDone, DisableDoneLeaving, book
<1>8. CASE Servers \/ Others \/ Requests
    BY <1>1, <1>8 DEF Servers, Others, Requests, ServerBinds, ServerFails, ServerDies, OthersTake,
       OthersFree, EnvUnchanged, EnableBegin, DisableBegin, EditSave, RestartRequest, book
<1>9. ASSUME NEW x \in pending.left, RestartStep(x) PROVE FiniteTables'
    BY <1>1, <1>9 DEF RestartStep, book
<1>10. CASE Sighup \/ Fatal \/ Stop
    BY <1>1, <1>5, <1>10 DEF Sighup, Fatal, Stop, book
<1> QED
    BY <1>6, <1>7, <1>8, <1>9, <1>10 DEF Next

\* An operation keeps to an instance, a server and blocks that the tables know.
LEMMA OpSaneStep == ASSUME IInv, Next PROVE OpSane'
<1>0. /\ OpSane /\ Created /\ op \in OpType /\ file \in [Instances -> FileType]
      /\ TypeBook /\ TypeNet /\ TypeRegs /\ phase \in Phases
    BY DEF IInv, TypeOK, TypeOp, TypeDisk, TypeStartup
<1>1. CASE op'.kind = "idle"
    BY <1>1 DEF OpSane
<1>2. CASE op' = Idle
    BY <1>1, <1>2 DEF Idle
<1>3. ASSUME UNCHANGED <<op, phase, file, byPort, nsrv, scanCount, live>>,
             \A d \in regs' : \E e \in regs : d.sid = e.sid
      PROVE  OpSane'
    BY <1>0, <1>3 DEF OpSane, RowsOf
<1>4. CASE UNCHANGED <<op, phase, file, byPort, nsrv, scanCount, live, regs>>
    BY <1>3, <1>4
<1>5. CASE UNCHANGED op /\ op = Idle
    BY <1>2, <1>5
<1>6. ASSUME op.kind = "build", op'.kind = "build", op'.inst = op.inst, op'.key = op.key,
             op'.blocks \subseteq op.blocks, UNCHANGED <<phase, file, byPort>>
      PROVE  OpSane'
    BY <1>0, <1>6 DEF OpSane
<1>7. CASE op.kind = "build" /\ NextBlock /\ UNCHANGED <<phase, file, byPort>>
    BY <1>0, <1>6, <1>7 DEF NextBlock, OpType
<1>8. ASSUME NEW i \in Instances, OpenEntry(i) PROVE OpSane'
    <2>1. EntryKey(i) \in Keys
        BY <1>8, EntryKeyType
    <2>2. op' = [Idle EXCEPT !.kind = "build", !.inst = i, !.port = PortOf(i), !.key = EntryKey(i),
                             !.blocks = DOMAIN file[i].shape]
        BY <1>8 DEF OpenEntry, EntryKey
    <2>3. op'.kind = "build" /\ op'.inst = i /\ op'.key = EntryKey(i) /\ op'.blocks = DOMAIN file[i].shape
        BY <2>2 DEF Idle
    <2>4. byPort'[EntryKey(i)] # 0
        <3>1. CASE HasServer(PortOf(i))
            BY <1>8, <3>1 DEF OpenEntry, HasServer, EntryKey
        <3>2. CASE ~HasServer(PortOf(i))
            <4>1. byPort' = [byPort EXCEPT ![EntryKey(i)] = nsrv + 1]
                BY <1>8, <3>2 DEF OpenEntry, EntryKey
            <4> QED
                BY <1>0, <2>1, <4>1 DEF TypeBook, TypeNet
        <3> QED
            BY <3>1, <3>2
    <2>5. EntryKey(i) # 0
        BY <1>0, <2>1 DEF Keys, ServerIds
    <2>6. phase' = "build" /\ file' = file
        BY <1>8 DEF OpenEntry, disk
    <2> QED
        BY <2>3, <2>4, <2>5, <2>6 DEF OpSane
<1>9. CASE Startup
    <2>1. CASE Boot
        <3>1. op.kind = "idle"
            BY <1>0, <2>1 DEF Boot, OpSane, OpType, PageUp
        <3> QED
            BY <1>1, <2>1, <3>1 DEF Boot
    <2>2. CASE Settle
        <3>1. op.kind = "idle"
            BY <1>0, <2>2 DEF Settle, SettleRows, OpSane, OpType, PageUp
        <3> QED
            BY <1>1, <2>2, <3>1 DEF Settle, SettleRows
    <2>3. CASE BuildBlock \/ BuildBlockRefused \/ BuildRegisterFails \/ BuildAttachFails
        BY <1>7, <2>3 DEF BuildBlock, BuildBlockRefused, BuildRegisterFails, BuildAttachFails, Building,
           BuildUnchanged, disk, startup
    <2>4. ASSUME NEW i \in Instances, SkipDisabled(i) PROVE OpSane'
        BY <1>5, <2>4 DEF SkipDisabled
    <2>5. CASE BuildDone \/ PublishResponder \/ WireFrontEnds
        BY <1>5, <2>5 DEF BuildDone, PublishResponder, WireFrontEnds
    <2>6. CASE BindStart \/ BindOk \/ BindErr \/ BindTimeout
        BY <1>4, <2>6 DEF BindStart, BindOk, BindErr, BindTimeout, BindFails, disk, book, page, net
    <2> QED
        BY <1>2, <1>8, <1>9, <2>1, <2>2, <2>3, <2>4, <2>5, <2>6 DEF Startup, CloseEntry
<1>10. CASE Servers \/ Others
    BY <1>4, <1>10 DEF Servers, Others, ServerBinds, ServerFails, ServerDies, OthersTake, OthersFree,
       EnvUnchanged, disk, book, page
<1>11. ASSUME NEW i \in Instances, EnableBegin(i) PROVE OpSane'
    <2>1. file[i] \in FileType /\ file'[i].shape = file[i].shape
        BY <1>0, <1>11 DEF EnableBegin, SetFile, FileType
    <2>2. CASE RowsOf(i) # {}
        BY <1>2, <1>11, <2>2 DEF EnableBegin
    <2>3. CASE RowsOf(i) = {}
        <3>1. op' = [Idle EXCEPT !.kind = "enable", !.inst = i, !.port = PortOf(i),
                                 !.blocks = DOMAIN file[i].shape]
            BY <1>11, <2>3 DEF EnableBegin
        <3>2. op'.kind = "enable" /\ op'.inst = i /\ op'.key = 0 /\ op'.srv = 0
              /\ op'.blocks = DOMAIN file[i].shape
            BY <3>1 DEF Idle
        <3>3. phase' \in PageUp
            BY <1>11 DEF EnableBegin, Ready, PageServed, PageUp, startup
        <3> QED
            BY <2>1, <3>2, <3>3 DEF OpSane
    <2> QED
        BY <2>2, <2>3
<1>12. ASSUME NEW i \in Instances, DisableBegin(i) PROVE OpSane'
    <2>1. op' = [Idle EXCEPT !.kind = "disable", !.inst = i, !.blocks = {r.block : r \in RowsOf(i)}]
        BY <1>12 DEF DisableBegin
    <2>2. op'.kind = "disable" /\ op'.inst = i /\ op'.blocks = {r.block : r \in RowsOf(i)}
        BY <2>1 DEF Idle
    <2>3. phase' \in PageUp /\ live' = live
        BY <1>12 DEF DisableBegin, Ready, PageServed, PageUp, startup, page
    <2> QED
        BY <2>2, <2>3 DEF OpSane, RowsOf
<1>13. CASE Requests
    BY <1>4, <1>5, <1>11, <1>12, <1>13 DEF Requests, EditSave, RestartRequest, Ready, disk, startup, net,
       book, page
<1>14. CASE SwitchSteps
    <2>1. CASE ReuseServer
        <3>1. op'.kind = "enable" /\ op'.inst = op.inst /\ op'.key = op.port /\ op'.srv = 0
              /\ op'.blocks = op.blocks
            BY <1>0, <2>1 DEF ReuseServer, Enabling, OpType
        <3> QED
            BY <1>0, <2>1, <3>1 DEF ReuseServer, Enabling, HasServer, OpSane, disk, startup, book
    <2>2. CASE StartServer
        <3>1. op'.kind = "enable" /\ op'.inst = op.inst /\ op'.key = 0 /\ op'.srv = nsrv + 1
              /\ op'.port = op.port /\ op'.blocks = op.blocks
            BY <1>0, <2>2 DEF StartServer, StartServerAt, Enabling, OpType
        <3>2. /\ nsrv' = nsrv + 1 /\ UNCHANGED <<phase, file, byPort, regs>>
              /\ op.port = 0 => scanCount' = scanCount + 1
            BY <2>2 DEF StartServer, StartServerAt, NewServer, disk, startup
        <3>3. /\ \A k \in Keys : byPort[k] # nsrv + 1
              /\ \A d \in regs : d.sid # nsrv + 1
            BY <1>0 DEF Created, TypeBook, TypeNet, TypeRegs, RegType, ServerIds
        <3>4. op.port = 0 => scanCount' >= 1
            BY <1>0, <3>2 DEF TypeBook
        <3>5. phase \in PageUp /\ op.inst \in Instances /\ op.blocks \subseteq DOMAIN file[op.inst].shape
            BY <1>0, <2>2 DEF StartServer, StartServerAt, Enabling, OpSane
        <3>6. nsrv' <= nsrv'
            BY <1>0, <3>2 DEF TypeNet
        <3> QED
            BY <3>1, <3>2, <3>3, <3>4, <3>5, <3>6 DEF OpSane
    <2>3. CASE AwaitOk
        <3>1. NewKey \in Keys /\ op.srv \in ServerIds
            BY <2>3, AwaitFacts
        <3>2. op' = [op EXCEPT !.key = NewKey, !.srv = 0] /\ byPort' = [byPort EXCEPT ![NewKey] = op.srv]
              /\ op.kind = "enable" /\ UNCHANGED <<phase, file>>
            BY <2>3 DEF AwaitOk, AwaitOkThen, Enabling, disk, startup
        <3>3. op'.kind = "enable" /\ op'.inst = op.inst /\ op'.key = NewKey /\ op'.srv = 0
              /\ op'.blocks = op.blocks
            BY <1>0, <3>2 DEF OpType
        <3>4. byPort'[NewKey] # 0
            BY <1>0, <3>1, <3>2 DEF TypeBook, ServerIds
        <3> QED
            BY <1>0, <3>2, <3>3, <3>4 DEF OpSane
    <2>4. CASE EnableBlock
        <3>1. op'.kind = "enable" /\ op'.inst = op.inst /\ op'.key = 0 /\ op'.srv = op.srv
              /\ op'.port = op.port /\ op'.blocks \subseteq op.blocks
            BY <1>0, <2>4 DEF EnableBlock, EnableBlockSaving, Enabling, OpType
        <3>2. UNCHANGED <<phase, file, byPort, nsrv, scanCount>>
            BY <2>4 DEF EnableBlock, EnableBlockSaving, SwitchUnchanged, startup, net
        <3>3. \A d \in regs' : d \in regs \/ d.sid = byPort[op.key]
            BY <2>4 DEF EnableBlock, EnableBlockSaving, AddDevice, Registration, Host
        <3>4. op.kind = "enable" /\ op.key \in Keys
            BY <1>0, <2>4 DEF EnableBlock, EnableBlockSaving, Enabling, OpType
        <3> QED
            BY <1>0, <3>1, <3>2, <3>3, <3>4 DEF OpSane
    <2>5. ASSUME op.kind = "disable", op'.kind = "disable", op'.inst = op.inst,
                 op'.blocks \subseteq op.blocks, UNCHANGED phase,
                 {r.block : r \in RowsOf(op.inst)} \subseteq {r.block : r \in RowsOf(op.inst)'}
          PROVE  OpSane'
        BY <1>0, <2>5 DEF OpSane, RowsOf
    <2>6. CASE DisableBlock
        <3>1. op'.kind = "disable" /\ op'.inst = op.inst /\ op'.blocks \subseteq op.blocks
            BY <1>0, <2>6 DEF DisableBlock, CloseRow, Disabling, NextBlock, OpType
        <3>2. /\ live' = (live \ {ThisRow}) \union {[ThisRow EXCEPT !.stop = "none"]}
              /\ ThisRow \in RowType /\ ThisRow.inst = op.inst
            BY <2>6, RowFacts DEF DisableBlock, CloseRow, StopFrontEnd
        <3>3. PICK r1 : r1 = [ThisRow EXCEPT !.stop = "none"]
            OBVIOUS
        <3>4. r1.inst = op.inst /\ r1.block = ThisRow.block /\ r1 \in live'
            BY <3>2, <3>3 DEF RowType
        <3>5. ASSUME NEW r \in RowsOf(op.inst)
              PROVE  \E q \in RowsOf(op.inst)' : q.block = r.block
            BY <3>1, <3>2, <3>4, <3>5 DEF RowsOf
        <3>6. {r.block : r \in RowsOf(op.inst)} \subseteq {r.block : r \in RowsOf(op.inst)'}
            BY <3>5
        <3> QED
            BY <2>5, <2>6, <3>1, <3>6 DEF DisableBlock, CloseRow, Disabling, SwitchUnchanged, startup
    <2> QED
        BY <1>2, <1>14, <2>1, <2>2, <2>3, <2>4, <2>6 DEF SwitchSteps, AwaitFails, AwaitEndsIf,
           EnableBuildFails, EnableNumberTaken, EnableRegisterFails, EnableAttachFails, Abandon,
           EnableDone, UnregisterFails, DisableDone, DisableDoneLeaving
<1>15. ASSUME NEW D \in SUBSET regs, regs' = Reloaded(D),
              UNCHANGED <<op, phase, file, byPort, nsrv, scanCount, live>>
       PROVE  OpSane'
    BY <1>0, <1>3, <1>15, ReloadedFacts
<1>16. ASSUME NEW x \in pending.left, RestartStep(x) PROVE OpSane'
    BY <1>4, <1>15, <1>16 DEF RestartStep, DevicesAt, disk, startup, net, book, page
<1>17. CASE Sighup
    <2>1. PICK R \in SUBSET regs : regs' = Reloaded(R)
        BY <1>17 DEF Sighup
    <2> QED
        BY <1>15, <1>17, <2>1 DEF Sighup, disk, startup, net, book, page
<1>18. CASE Fatal \/ Stop
    BY <1>2, <1>18 DEF Fatal, Stop, ProcessGone
<1> QED
    BY <1>9, <1>10, <1>13, <1>14, <1>16, <1>17, <1>18 DEF Next

\* How a step changes byPort: an entry is added for a server that is in no entry
\* yet, entries are dropped, or all of them are (the process ends).
LEMMA ByPortStep ==
    ASSUME IInv, Next
    PROVE  \/ byPort' = byPort
           \/ \E k \in Keys, s \in ServerIds :
                 /\ byPort' = [byPort EXCEPT ![k] = s]
                 /\ \A l \in Keys : byPort[l] # s
                 /\ \A d \in regs : d.sid # s
                 /\ used' = [used EXCEPT ![k] = NoNumbers]
                 /\ regs' = regs /\ live' = live
           \/ Settle
           \/ ProcessGone
<1>0. Created /\ TypeBook /\ TypeNet /\ TypeRegs
    BY DEF IInv, TypeOK
<1> DEFINE Goal ==
           \/ byPort' = byPort
           \/ \E k \in Keys, s \in ServerIds :
                 /\ byPort' = [byPort EXCEPT ![k] = s]
                 /\ \A l \in Keys : byPort[l] # s
                 /\ \A d \in regs : d.sid # s
                 /\ used' = [used EXCEPT ![k] = NoNumbers]
                 /\ regs' = regs /\ live' = live
           \/ Settle
           \/ ProcessGone
<1>1. ASSUME NEW i \in Instances, OpenEntry(i) PROVE Goal
    <2>1. CASE UNCHANGED byPort
        BY <2>1
    <2>2. CASE ~UNCHANGED byPort
        <3>1. byPort' = [byPort EXCEPT ![EntryKey(i)] = nsrv + 1]
              /\ used' = [used EXCEPT ![EntryKey(i)] = NoNumbers]
              /\ nsrv < MaxServers /\ regs' = regs /\ live' = live
            BY <1>1, <2>2 DEF OpenEntry, EntryKey, NewServer
        <3>2. /\ nsrv + 1 \in ServerIds /\ EntryKey(i) \in Keys
              /\ \A l \in Keys : byPort[l] # nsrv + 1
              /\ \A d \in regs : d.sid # nsrv + 1
            BY <1>0, <1>1, <3>1, EntryKeyType DEF Created, TypeBook, TypeNet, TypeRegs, RegType, ServerIds
        <3> QED
            BY <3>1, <3>2
    <2> QED
        BY <2>1, <2>2
<1>2. CASE AwaitOk
    <2>1. byPort' = [byPort EXCEPT ![NewKey] = op.srv] /\ used' = [used EXCEPT ![NewKey] = NoNumbers]
          /\ regs' = regs /\ live' = live
        BY <1>2 DEF AwaitOk, AwaitOkThen
    <2> QED
        BY <1>2, <2>1, AwaitFacts
<1>3. CASE Startup
    BY <1>1, <1>3 DEF Startup, Boot, SkipDisabled, BuildBlock, BuildBlockRefused,
       BuildRegisterFails, BuildAttachFails, BuildUnchanged, CloseEntry, BuildDone, BindStart, BindOk,
       BindErr, BindTimeout, BindFails, PublishResponder, WireFrontEnds, book
<1>4. CASE SwitchSteps
    BY <1>2, <1>4 DEF SwitchSteps, ReuseServer, StartServer, StartServerAt, AwaitFails, AwaitEndsIf,
       EnableBuildFails, EnableNumberTaken, EnableRegisterFails, EnableAttachFails, Abandon,
       SwitchUnchanged, EnableBlock, EnableBlockSaving, EnableDone, DisableBlock, CloseRow,
       UnregisterFails, DisableDone, DisableDoneLeaving, book
<1>5. CASE Servers \/ Others \/ Requests
    BY <1>5 DEF Servers, Others, Requests, ServerBinds, ServerFails, ServerDies, OthersTake,
       OthersFree, EnvUnchanged, EnableBegin, DisableBegin, EditSave, RestartRequest, book
<1>6. ASSUME NEW x \in pending.left, RestartStep(x) PROVE Goal
    BY <1>6 DEF RestartStep, book
<1>7. CASE Sighup \/ Fatal \/ Stop
    BY <1>7 DEF Sighup, Fatal, Stop, book
<1> QED
    BY <1>3, <1>4, <1>5, <1>6, <1>7 DEF Next

\* No server gets a second key.
LEMMA OneKeyStep == ASSUME IInv, Next PROVE OneKey'
<1>0. OneKey /\ TypeBook
    BY DEF IInv, TypeOK
<1>1. CASE byPort' = byPort
    BY <1>0, <1>1 DEF OneKey
<1>2. CASE \E k \in Keys, s \in ServerIds :
              byPort' = [byPort EXCEPT ![k] = s] /\ \A l \in Keys : byPort[l] # s
    BY <1>0, <1>2 DEF OneKey, TypeBook
<1>3. CASE Settle \/ ProcessGone
    BY <1>0, <1>3 DEF OneKey, Settle, SettleRows, ProcessGone
<1> QED
    BY <1>1, <1>2, <1>3, ByPortStep

\* How a step changes the rows in process: some go, some get another cancel
\* function, or one is added on the server of the operation.
LEMMA LiveStep ==
    ASSUME IInv, Next, ~Settle
    PROVE  \A r \in live' : \/ r.key = op.key /\ op.key \in Keys /\ byPort[op.key] # 0
                            \/ \E q \in live : r.key = q.key
<1>0. live \subseteq RowType /\ op \in OpType
    BY DEF IInv, TypeOK, TypePage, TypeOp
<1> DEFINE Goal == \A r \in live' : \/ r.key = op.key /\ op.key \in Keys /\ byPort[op.key] # 0
                                    \/ \E q \in live : r.key = q.key
<1>1. CASE live' \subseteq live
    BY <1>1
<1>2. ASSUME NEW stop, AddRow(stop), op.kind \in {"build", "enable"}, op.key # 0 PROVE Goal
    <2>1. op.key \in Keys /\ byPort[op.key] # 0
        BY <1>0, <1>2 DEF OpType, IInv, OpSane
    <2> QED
        BY <1>2, <2>1 DEF AddRow, Row
<1>3. CASE Startup
    <2>1. CASE BuildBlock
        BY <1>2, <2>1 DEF BuildBlock, Building, IInv, OpSane
    <2>2. CASE WireFrontEnds
        BY <1>0, <2>2 DEF WireFrontEnds, RowType
    <2> QED
        BY <1>1, <1>3, <2>1, <2>2 DEF Startup, Boot, SkipDisabled, OpenEntry, BuildBlockRefused,
           BuildRegisterFails, BuildAttachFails, BuildUnchanged, CloseEntry, BuildDone, BindStart, BindOk,
           BindErr, BindTimeout, BindFails, PublishResponder, page
<1>4. CASE SwitchSteps
    <2>1. CASE EnableBlock
        BY <1>2, <2>1 DEF EnableBlock, EnableBlockSaving, Enabling
    <2>2. ASSUME Disabling, StopFrontEnd(ThisRow) PROVE Goal
        BY <1>0, <2>2, RowFacts DEF StopFrontEnd, RowType
    <2> QED
        BY <1>1, <1>4, <2>1, <2>2 DEF SwitchSteps, ReuseServer, StartServer, StartServerAt, AwaitOk,
           AwaitOkThen, AwaitFails, AwaitEndsIf, EnableBuildFails, EnableNumberTaken,
           EnableRegisterFails, EnableAttachFails, Abandon, EnableDone, DisableBlock, CloseRow,
           UnregisterFails, DisableDone, DisableDoneLeaving, page
<1>5. CASE Servers \/ Others \/ Requests
    BY <1>1, <1>5 DEF Servers, Others, Requests, ServerBinds, ServerFails, ServerDies, OthersTake,
       OthersFree, EnvUnchanged, EnableBegin, DisableBegin, EditSave, RestartRequest, page
<1>6. ASSUME NEW x \in pending.left, RestartStep(x) PROVE Goal
    BY <1>1, <1>6 DEF RestartStep, page
<1>7. CASE Sighup \/ Fatal \/ Stop
    BY <1>1, <1>7 DEF Sighup, Fatal, Stop, ProcessGone, page
<1> QED
    BY <1>3, <1>4, <1>5, <1>6, <1>7 DEF Next

\* A row in process never loses its server: start-up drops the two together.
LEMMA RowsHostedStep == ASSUME IInv, Next PROVE RowsHosted'
<1>0. RowsHosted /\ TypeBook /\ live \subseteq RowType
    BY DEF IInv, TypeOK, TypePage
<1>1. CASE Settle
    BY <1>0, <1>1 DEF Settle, SettleRows, RowsHosted, RowType
<1>2. CASE ProcessGone
    BY <1>2 DEF ProcessGone, RowsHosted
<1>3. CASE ~Settle /\ ~ProcessGone
    <2>1. \A k \in Keys : byPort[k] # 0 => byPort'[k] # 0
        BY <1>0, <1>3, ByPortStep DEF TypeBook, ServerIds
    <2>2. ASSUME NEW r \in live' PROVE r.key \in Keys /\ byPort[r.key] # 0
        BY <1>0, <1>3, LiveStep DEF RowsHosted, RowType
    <2> QED
        BY <2>1, <2>2 DEF RowsHosted
<1> QED
    BY <1>1, <1>2, <1>3

\* The server that each row, device and front-end is on has a port once start-up
\* has settled: serve waits for each server or gives it up.
LEMMA ServersPortedStep == ASSUME IInv, Next PROVE ServersPorted'
<1>0. /\ ServersPorted /\ Created /\ OpSane /\ TypeBook /\ TypeNet /\ phase \in Phases
      /\ op \in OpType /\ waiting \in 0..MaxServers
    BY DEF IInv, TypeOK, TypeStartup, TypeOp
<1>1. ASSUME UNCHANGED <<nsrv, byPort, phase, waiting, failed>>,
             \A s \in 1..nsrv : /\ srv'[s].by = srv[s].by
                                /\ srv[s].st = "built" => srv'[s].st = "built"
                                /\ srv[s].port # 0 => srv'[s].port # 0
      PROVE  ServersPorted'
    <2>1. \A k \in Keys : byPort[k] # 0 => byPort[k] \in 1..nsrv
        BY <1>0 DEF Created, TypeBook, TypeNet
    <2>2. Kept' = Kept
        BY <1>1 DEF Kept, BootServers
    <2>3. Kept \subseteq 1..nsrv
        BY DEF Kept, BootServers
    <2> QED
        BY <1>0, <1>1, <2>1, <2>2, <2>3 DEF ServersPorted
<1>2. CASE UNCHANGED <<nsrv, srv, byPort, phase, waiting, failed>>
    BY <1>1, <1>2
<1>3. CASE ProcessGone
    BY <1>3 DEF ProcessGone, ServersPorted, PageUp
<1>4. ASSUME NEW s \in 1..nsrv, NEW st \in {"bound", "dead"}, NEW p \in Ports \union {0},
             Outcome(s, st, p), srv[s].st \in {"starting", "bound"},
             UNCHANGED <<nsrv, byPort, phase, waiting, failed>>
      PROVE  ServersPorted'
    BY <1>0, <1>1, <1>4 DEF Outcome, TypeNet, SrvType, ServerIds
<1>5. CASE Servers
    <2>1. ASSUME NEW s \in 1..nsrv, NEW p \in Candidates(s) PROVE p \in Ports \union {0}
        BY <1>0, <2>1 DEF Candidates, Window, TypeNet, SrvType, ServerIds
    <2>2. ASSUME NEW s \in 1..nsrv, ServerBinds(s) PROVE ServersPorted'
        BY <1>4, <2>1, <2>2 DEF ServerBinds, EnvUnchanged, book
    <2>3. ASSUME NEW s \in 1..nsrv, ServerFails(s) \/ ServerDies(s) PROVE ServersPorted'
        BY <1>4, <2>3 DEF ServerFails, ServerDies, EnvUnchanged, book
    <2> QED
        BY <1>5, <2>2, <2>3 DEF Servers
<1>6. CASE Startup
    <2>1. CASE Boot \/ BuildDone
        BY <1>0, <2>1 DEF Boot, BuildDone, net, book, ServersPorted, PageUp
    <2>2. ASSUME NEW i \in Instances, OpenEntry(i), ~UNCHANGED <<nsrv, srv, byPort, phase, waiting, failed>>
          PROVE  ServersPorted'
        <3>1. PICK want, win : NewServer("built", want, win, "boot")
            BY <2>2 DEF OpenEntry, net
        <3>2. /\ nsrv' = nsrv + 1 /\ nsrv + 1 \in ServerIds
              /\ srv' = [srv EXCEPT ![nsrv + 1] =
                            [st |-> "built", want |-> want, win |-> win, port |-> 0, by |-> "boot"]]
            BY <1>0, <3>1 DEF NewServer, TypeNet, ServerIds
        <3>3. phase' = "build" /\ UNCHANGED <<phase, waiting, failed>>
            BY <2>2 DEF OpenEntry
        <3>4. \A s \in 1..nsrv : srv'[s] = srv[s]
            BY <1>0, <3>2 DEF TypeNet
        <3>5. ASSUME NEW s \in 1..nsrv', s \notin 1..nsrv PROVE srv'[s].st = "built" /\ srv'[s].by = "boot"
            <4>1. s = nsrv + 1
                BY <1>0, <3>2, <3>5 DEF TypeNet
            <4> QED
                BY <1>0, <3>2, <4>1 DEF TypeNet
        <3> QED
            BY <1>0, <3>3, <3>4, <3>5 DEF ServersPorted, PageUp
    <2>3. CASE BindStart
        <3>1. waiting = 0 /\ phase = "bind" /\ NextToStart \in 1..nsrv
              /\ srv[NextToStart].st = "built"
            BY <2>3, NextToStartFacts DEF BindStart, Unstarted
        <3>2. waiting' = NextToStart /\ srv' = [srv EXCEPT ![NextToStart].st = "starting"]
              /\ UNCHANGED <<nsrv, phase, failed>>
            BY <2>3 DEF BindStart
        <3>3. ASSUME NEW s \in 1..nsrv PROVE srv'[s].by = srv[s].by /\ srv'[s].port = srv[s].port
                                          /\ (s # NextToStart => srv'[s].st = srv[s].st)
            BY <1>0, <3>1, <3>2 DEF TypeNet, SrvType, ServerIds
        <3>4. nsrv' = nsrv /\ \A s \in 1..nsrv : s # 0
            BY <3>2
        <3> QED
            BY <1>0, <3>1, <3>2, <3>3, <3>4 DEF ServersPorted, PageUp
    <2>4. CASE BindOk \/ BindErr \/ BindTimeout
        BY <1>0, <2>4 DEF BindOk, BindErr, BindTimeout, BindFails, net, book, ServersPorted, PageUp
    <2>5. CASE Settle
        <3>0. phase = "bind" /\ waiting = 0 /\ Unstarted = {}
            BY <2>5 DEF Settle, SettleRows
        <3>1. ASSUME NEW s \in 1..nsrv, s \notin failed PROVE srv[s].port # 0
            <4>1. srv[s].st # "built" /\ s # waiting
                BY <3>0, <3>1 DEF Unstarted
            <4> QED
                BY <1>0, <3>0, <3>1, <4>1 DEF ServersPorted, PageUp
        <3>2. ASSUME NEW k \in Keys, byPort'[k] # 0
              PROVE  byPort'[k] = byPort[k] /\ byPort[k] \notin failed /\ byPort[k] \in 1..nsrv
            <4>1. byPort'[k] = IF byPort[k] \in failed THEN 0 ELSE byPort[k]
                BY <2>5 DEF Settle, SettleRows
            <4>2. byPort'[k] = byPort[k] /\ byPort[k] \notin failed
                BY <3>2, <4>1
            <4> QED
                BY <1>0, <3>2, <4>2 DEF TypeBook, Created, TypeNet
        <3>3. phase' = "page" /\ Kept' = Kept /\ Kept \subseteq (1..nsrv) \ failed /\ srv' = srv
            BY <2>5 DEF Settle, SettleRows, Kept, BootServers, net
        <3> QED
            BY <3>1, <3>2, <3>3 DEF ServersPorted, PageUp
    <2>6. CASE PublishResponder \/ WireFrontEnds
        BY <1>0, <2>6 DEF PublishResponder, WireFrontEnds, net, book, ServersPorted, PageUp, Kept, BootServers
    <2> QED
        BY <1>2, <1>6, <2>1, <2>2, <2>3, <2>4, <2>5, <2>6 DEF Startup, SkipDisabled, BuildBlock,
           BuildBlockRefused, BuildRegisterFails, BuildAttachFails, BuildUnchanged, CloseEntry,
           startup, net, book
<1>7. CASE SwitchSteps
    <2>1. CASE StartServer
        <3>1. PICK want, win : NewServer("starting", want, win, Creator)
            BY <2>1 DEF StartServer, StartServerAt
        <3>2. /\ nsrv' = nsrv + 1 /\ nsrv + 1 \in ServerIds
              /\ srv' = [srv EXCEPT ![nsrv + 1] =
                            [st |-> "starting", want |-> want, win |-> win, port |-> 0, by |-> Creator]]
            BY <1>0, <3>1 DEF NewServer, TypeNet, ServerIds
        <3>3. phase \in PageUp /\ UNCHANGED <<phase, waiting, failed, byPort>>
            BY <1>0, <2>1 DEF StartServer, StartServerAt, Enabling, OpSane, startup
        <3>4. \A s \in 1..nsrv : srv'[s] = srv[s]
            BY <1>0, <3>2 DEF TypeNet
        <3>5. srv'[nsrv + 1].by # "boot"
            BY <1>0, <3>2, PageStarters DEF TypeNet
        <3>6. Kept' \subseteq Kept
            BY <1>0, <3>2, <3>3, <3>4, <3>5 DEF Kept, BootServers, TypeNet
        <3>7. \A k \in Keys : byPort[k] # 0 => byPort[k] \in 1..nsrv
            BY <1>0 DEF Created, TypeBook, TypeNet
        <3>8. Kept \subseteq 1..nsrv
            BY DEF Kept, BootServers
        <3> QED
            BY <1>0, <3>3, <3>4, <3>6, <3>7, <3>8 DEF ServersPorted
    <2>2. CASE AwaitOk
        <3>1. NewKey \in Keys /\ srv[op.srv].port # 0
            BY <2>2, AwaitFacts
        <3>2. byPort' = [byPort EXCEPT ![NewKey] = op.srv] /\ phase \in PageUp
              /\ UNCHANGED <<phase, waiting, failed, nsrv, srv>>
            BY <1>0, <2>2 DEF AwaitOk, AwaitOkThen, Enabling, OpSane, startup, net
        <3>3. Kept' = Kept
            BY <3>2 DEF Kept, BootServers
        <3> QED
            BY <1>0, <3>1, <3>2, <3>3 DEF ServersPorted, TypeBook
    <2> QED
        BY <1>2, <1>7, <2>1, <2>2 DEF SwitchSteps, ReuseServer, AwaitFails, AwaitEndsIf, EnableBuildFails,
           EnableNumberTaken, EnableRegisterFails, EnableAttachFails, Abandon, SwitchUnchanged,
           EnableBlock, EnableBlockSaving, EnableDone, DisableBlock, CloseRow, UnregisterFails,
           DisableDone, DisableDoneLeaving, startup, net, book
<1>8. CASE Others \/ Requests
    BY <1>2, <1>8 DEF Others, Requests, OthersTake, OthersFree, EnvUnchanged, EnableBegin,
       DisableBegin, EditSave, RestartRequest, startup, net, book
<1>9. ASSUME NEW x \in pending.left, RestartStep(x) PROVE ServersPorted'
    BY <1>2, <1>9 DEF RestartStep, startup, net, book
<1>10. CASE Sighup \/ Fatal \/ Stop
    BY <1>2, <1>3, <1>10 DEF Sighup, Fatal, Stop, startup, net, book
<1> QED
    BY <1>5, <1>6, <1>7, <1>8, <1>9, <1>10 DEF Next

-----------------------------------------------------------------------------
(* Addresses.                                                               *)

\* How a step changes the devices: one is registered under a free number of the
\* port of the operation and the number is taken; a row is closed; devices are
\* reloaded; the process ends; or the devices stay, and no number of theirs is
\* released.
Registers(d) ==
    /\ d \in RegType /\ op.key \in Keys /\ d.sid = byPort[op.key]
    /\ d.num \notin used[op.key][d.type]
    /\ regs' = regs \union {d}
    /\ used' = [used EXCEPT ![op.key][d.type] = @ \union {d.num}]
    /\ byPort' = byPort
Reloads(D) == regs' = Reloaded(D) /\ UNCHANGED <<byPort, used>>
KeepsNumbers == regs' = regs /\ \A k \in Keys, t \in Types : used[k][t] \subseteq used'[k][t]
NewHost == regs' = regs /\ \E k \in Keys, s \in ServerIds :
                 /\ byPort' = [byPort EXCEPT ![k] = s]
                 /\ \A d \in regs : d.sid # s
                 /\ used' = [used EXCEPT ![k] = NoNumbers]

LEMMA RegsStep ==
    ASSUME IInv, Next
    PROVE  \/ \E d \in RegType : Registers(d)
           \/ DisableBlock
           \/ \E D \in SUBSET regs : Reloads(D)
           \/ ProcessGone
           \/ NewHost
           \/ KeepsNumbers /\ (byPort' = byPort \/ Settle)
<1>0. TypeBook
    BY DEF IInv, TypeOK
<1> DEFINE Goal ==
           \/ \E d \in RegType : Registers(d)
           \/ DisableBlock
           \/ \E D \in SUBSET regs : Reloads(D)
           \/ ProcessGone
           \/ NewHost
           \/ KeepsNumbers /\ (byPort' = byPort \/ Settle)
<1>1. CASE UNCHANGED <<byPort, used, regs>>
    BY <1>1 DEF KeepsNumbers
<1>2. ASSUME op.kind \in {"build", "enable"}, op.blocks # {}, op.key # 0, Assignable
      PROVE  /\ \A re \in BOOLEAN : AddDevice(re) /\ TakeNumber /\ byPort' = byPort => Goal
             /\ UNCHANGED regs /\ TakeNumber /\ byPort' = byPort => Goal
    <2>1. /\ op.key \in Keys /\ TypeOf[op.inst] \in Types /\ Number \in Nat
          /\ Number \notin used[op.key][TypeOf[op.inst]]
        BY <1>2, ClaimFacts
    <2>2. ASSUME NEW re \in BOOLEAN, AddDevice(re), TakeNumber, byPort' = byPort PROVE Goal
        <3>1. PICK d \in RegType : d = Registration(Host, op.inst, Block, Number, re)
            BY <1>2, ClaimFacts
        <3>2. d.sid = byPort[op.key] /\ d.num = Number /\ d.type = TypeOf[op.inst]
            BY <3>1 DEF Registration, Host
        <3>3. Registers(d)
            BY <2>1, <2>2, <3>1, <3>2 DEF AddDevice, TakeNumber, Registers
        <3> QED
            BY <3>3
    <2>5. UNCHANGED regs /\ TakeNumber /\ byPort' = byPort => KeepsNumbers
        BY <1>0, <2>1 DEF TakeNumber, KeepsNumbers, TypeBook
    <2> QED
        BY <2>2, <2>5
<1>3. CASE Startup
    <2>1. CASE BuildBlock \/ BuildRegisterFails \/ BuildAttachFails
        BY <1>2, <2>1 DEF BuildBlock, BuildRegisterFails, BuildAttachFails, Building, BuildUnchanged,
           IInv, OpSane
    <2>2. ASSUME NEW i \in Instances, OpenEntry(i) PROVE Goal
        <3>1. CASE UNCHANGED <<byPort, used>>
            BY <1>1, <2>2, <3>1 DEF OpenEntry
        <3>2. CASE ~UNCHANGED <<byPort, used>>
            <4>1. byPort' = [byPort EXCEPT ![EntryKey(i)] = nsrv + 1]
                  /\ used' = [used EXCEPT ![EntryKey(i)] = NoNumbers]
                  /\ nsrv < MaxServers /\ regs' = regs
                BY <2>2, <3>2 DEF OpenEntry, EntryKey, NewServer
            <4>2. /\ nsrv + 1 \in ServerIds /\ EntryKey(i) \in Keys
                  /\ \A d \in regs : d.sid # nsrv + 1
                BY <2>2, <4>1, EntryKeyType DEF IInv, TypeOK, Created, TypeNet, TypeRegs, RegType, ServerIds
            <4>3. NewHost
                BY <4>1, <4>2 DEF NewHost
            <4> QED
                BY <4>3
        <3> QED
            BY <3>1, <3>2
    <2>3. CASE Settle
        BY <2>3 DEF Settle, SettleRows, KeepsNumbers
    <2> QED
        BY <1>1, <1>3, <2>1, <2>2, <2>3 DEF Startup, Boot, SkipDisabled, BuildBlockRefused,
           BuildUnchanged, CloseEntry, BuildDone, BindStart, BindOk, BindErr, BindTimeout, BindFails,
           PublishResponder, WireFrontEnds, book
<1>4. CASE SwitchSteps
    <2>1. CASE EnableAttachFails \/ EnableBlock
        BY <1>2, <2>1 DEF EnableAttachFails, EnableBlock, EnableBlockSaving, Enabling, Abandon,
           SwitchUnchanged
    <2>2. CASE AwaitOk
        <3>1. byPort' = [byPort EXCEPT ![NewKey] = op.srv] /\ used' = [used EXCEPT ![NewKey] = NoNumbers]
              /\ regs' = regs
            BY <2>2 DEF AwaitOk, AwaitOkThen
        <3>2. NewHost
            BY <2>2, <3>1, AwaitFacts DEF NewHost
        <3> QED
            BY <3>2
    <2> QED
        BY <1>1, <1>4, <2>1, <2>2 DEF SwitchSteps, ReuseServer, StartServer, StartServerAt, AwaitFails,
           AwaitEndsIf, EnableBuildFails, EnableNumberTaken, EnableRegisterFails, Abandon,
           SwitchUnchanged, EnableDone, UnregisterFails, DisableDone, DisableDoneLeaving, book
<1>5. CASE Servers \/ Others \/ Requests
    BY <1>1, <1>5 DEF Servers, Others, Requests, ServerBinds, ServerFails, ServerDies, OthersTake,
       OthersFree, EnvUnchanged, EnableBegin, DisableBegin, EditSave, RestartRequest, book
<1>6. ASSUME NEW x \in pending.left, RestartStep(x) PROVE Goal
    <2>1. CASE regs' = regs
        BY <1>1, <1>6, <2>1 DEF RestartStep, book
    <2>2. CASE regs' = Reloaded(DevicesAt(x))
        <3>1. DevicesAt(x) \in SUBSET regs
            BY DEF DevicesAt
        <3>2. Reloads(DevicesAt(x))
            BY <1>6, <2>2 DEF RestartStep, Reloads, book
        <3> QED
            BY <3>1, <3>2
    <2> QED
        BY <1>6, <2>1, <2>2 DEF RestartStep
<1>7. CASE Sighup
    <2>1. PICK R \in SUBSET regs : regs' = Reloaded(R)
        BY <1>7 DEF Sighup
    <2>2. Reloads(R)
        BY <1>7, <2>1 DEF Sighup, Reloads, book
    <2> QED
        BY <2>2
<1>8. CASE Fatal \/ Stop
    BY <1>8 DEF Fatal, Stop
<1> QED
    BY <1>3, <1>4, <1>5, <1>6, <1>7, <1>8 DEF Next

\* The devices at the address of the row a disable closes.
LEMMA ClosedFacts ==
    ASSUME IInv, DisableBlock
    PROVE  /\ ThisRow.key \in Keys /\ TypeOf[ThisRow.inst] \in Types /\ byPort' = byPort
           /\ regs' = regs \ AtRow(ThisRow)
           /\ used' = [used EXCEPT ![ThisRow.key][TypeOf[ThisRow.inst]] = @ \ {ThisRow.num}]
BY RowFacts DEF DisableBlock, CloseRow, SwitchUnchanged, RowType

LEMMA NumbersCoverStep == ASSUME IInv, Next PROVE NumbersCoverDevices'
<1>0. NumbersCoverDevices /\ OneKey /\ TypeBook /\ TypeRegs
    BY DEF IInv, TypeOK
<1>1. ASSUME NEW d \in RegType, Registers(d) PROVE NumbersCoverDevices'
    <2> SUFFICES ASSUME NEW e \in regs', NEW k \in Keys, byPort[k] = e.sid
                 PROVE  e.num \in used'[k][e.type]
        BY <1>1 DEF Registers, NumbersCoverDevices
    <2>1. e.type \in Types /\ d.type \in Types /\ e.sid # 0
        BY <1>0, <1>1 DEF Registers, TypeRegs, RegType, ServerIds
    <2>2. used[k][e.type] \subseteq used'[k][e.type]
        BY <1>0, <1>1, <2>1 DEF Registers, TypeBook
    <2>3. CASE e \in regs
        BY <1>0, <2>2, <2>3 DEF NumbersCoverDevices
    <2>4. CASE e = d
        <3>1. k = op.key
            BY <1>0, <1>1, <2>1, <2>4 DEF Registers, OneKey
        <3> QED
            BY <1>0, <1>1, <2>1, <2>4, <3>1 DEF Registers, TypeBook
    <2> QED
        BY <1>1, <2>3, <2>4 DEF Registers
<1>2. CASE DisableBlock
    <2> SUFFICES ASSUME NEW e \in regs', NEW k \in Keys, byPort[k] = e.sid
                 PROVE  e.num \in used'[k][e.type]
        BY <1>2, ClosedFacts DEF NumbersCoverDevices
    <2>1. e \in regs /\ e \notin AtRow(ThisRow) /\ e.type \in Types
        BY <1>0, <1>2, ClosedFacts DEF TypeRegs, RegType
    <2>2. e.num \in used[k][e.type]
        BY <1>0, <2>1 DEF NumbersCoverDevices
    <2>3. ~(k = ThisRow.key /\ e.type = TypeOf[ThisRow.inst] /\ e.num = ThisRow.num)
        BY <2>1 DEF AtRow
    <2> QED
        BY <1>0, <1>2, <2>1, <2>2, <2>3, ClosedFacts DEF TypeBook
<1>3. ASSUME NEW D \in SUBSET regs, Reloads(D) PROVE NumbersCoverDevices'
    BY <1>0, <1>3, ReloadedFacts DEF Reloads, NumbersCoverDevices
<1>4. CASE NewHost
    BY <1>0, <1>4 DEF NewHost, NumbersCoverDevices, TypeBook
<1>5. CASE KeepsNumbers /\ (byPort' = byPort \/ Settle)
    <2>1. \A k \in Keys : byPort'[k] = byPort[k] \/ byPort'[k] = 0
        BY <1>5 DEF Settle, SettleRows
    <2>2. \A d \in regs : d.sid # 0 /\ d.type \in Types
        BY <1>0 DEF TypeRegs, RegType, ServerIds
    <2> QED
        BY <1>0, <1>5, <2>1, <2>2 DEF KeepsNumbers, NumbersCoverDevices
<1>6. CASE ProcessGone
    BY <1>6 DEF ProcessGone, NumbersCoverDevices
<1> QED
    BY <1>1, <1>2, <1>3, <1>4, <1>5, <1>6, RegsStep

\* The device that registers is alone at its address.
LEMMA RegistersFresh ==
    ASSUME IInv, NEW d \in RegType, Registers(d), NEW e \in regs
    PROVE  ~(e.sid = d.sid /\ e.type = d.type /\ e.num = d.num)
BY DEF IInv, NumbersCoverDevices, Registers

LEMMA UniqueStep == ASSUME IInv, Next PROVE UniqueAddress'
<1>0. UniqueAddress /\ TypeRegs
    BY DEF IInv, TypeOK
<1>1. CASE regs' \subseteq regs
    BY <1>0, <1>1 DEF UniqueAddress
<1>2. ASSUME NEW d \in RegType, Registers(d) PROVE UniqueAddress'
    <2>1. regs' = regs \union {d}
        BY <1>2 DEF Registers
    <2>2. \A e \in regs : ~(e.sid = d.sid /\ e.type = d.type /\ e.num = d.num)
        BY <1>2, RegistersFresh
    <2> QED
        BY <1>0, <2>1, <2>2 DEF UniqueAddress
<1>3. ASSUME NEW D \in SUBSET regs, Reloads(D) PROVE UniqueAddress'
    <2> SUFFICES ASSUME NEW d \in Reloaded(D), NEW e \in Reloaded(D),
                        d.sid = e.sid, d.type = e.type, d.num = e.num
                 PROVE  d = e
        BY <1>3 DEF Reloads, UniqueAddress
    <2>1. PICK f \in regs : /\ d.sid = f.sid /\ d.type = f.type /\ d.num = f.num
                            /\ d = IF f \in D THEN [f EXCEPT !.cfg = file[f.inst].cfg] ELSE f
        BY <1>0, ReloadedFacts
    <2>2. PICK g \in regs : /\ e.sid = g.sid /\ e.type = g.type /\ e.num = g.num
                            /\ e = IF g \in D THEN [g EXCEPT !.cfg = file[g.inst].cfg] ELSE g
        BY <1>0, ReloadedFacts
    <2>3. f = g
        BY <1>0, <2>1, <2>2 DEF UniqueAddress
    <2> QED
        BY <2>1, <2>2, <2>3
<1>4. CASE DisableBlock \/ NewHost \/ KeepsNumbers \/ ProcessGone
    BY <1>1, <1>4, ClosedFacts DEF NewHost, KeepsNumbers, ProcessGone
<1> QED
    BY <1>2, <1>3, <1>4, RegsStep

-----------------------------------------------------------------------------
(* The invariant holds.                                                     *)

LEMMA InitIInv == Init => IInv
<1> SUFFICES ASSUME Init PROVE IInv
    OBVIOUS
<1>1. TypeDisk /\ TypeStartup /\ TypeRegs
    BY FilesAssumption DEF Init, TypeDisk, TypeStartup, TypeRegs, Phases
<1>2. TypeNet
    <2>1. NoServer \in SrvType
        BY DEF NoServer, SrvType, Starters
    <2> QED
        BY <2>1 DEF Init, TypeNet
<1>3. TypeBook
    BY DEF Init, TypeBook, NoNumbers
<1>4. TypePage
    BY DEF Init, TypePage
<1>5. TypeOp
    BY DEF Init, TypeOp, Idle, NoRestart, OpType
<1>6. Created /\ RowsHosted /\ OneKey /\ NumbersCoverDevices /\ UniqueAddress
    BY DEF Init, Created, RowsHosted, OneKey, NumbersCoverDevices, UniqueAddress
<1>7. OpSane /\ ServersPorted
    BY DEF Init, OpSane, ServersPorted, Idle, PageUp
<1>8. FiniteTables
    BY FS_EmptySet DEF Init, FiniteTables, NoNumbers
<1> QED
    BY <1>1, <1>2, <1>3, <1>4, <1>5, <1>6, <1>7, <1>8 DEF IInv, TypeOK

LEMMA StepIInv == IInv /\ [Next]_vars => IInv'
<1>1. ASSUME IInv, Next PROVE IInv'
    BY <1>1, TypeDiskStep, TypeStartupStep, TypeNetStep, TypeBookStep, TypeRegsStep, TypePageStep,
       TypeOpStep, CreatedStep, OpSaneStep, FiniteTablesStep, OneKeyStep, RowsHostedStep,
       ServersPortedStep, NumbersCoverStep, UniqueStep DEF IInv, TypeOK
<1>2. ASSUME IInv, UNCHANGED vars PROVE IInv'
    <2>1. UNCHANGED <<disk, startup, net, book, regs, page, op, pending>>
        BY <1>2 DEF vars
    <2>2. TypeOK'
        BY <1>2, <2>1 DEF IInv, disk, startup, net, book, page, TypeOK, TypeDisk, TypeStartup, TypeNet,
           TypeBook, TypeRegs, TypePage, TypeOp
    <2>3. Created' /\ OpSane' /\ FiniteTables' /\ OneKey' /\ RowsHosted' /\ ServersPorted'
        BY <1>2, <2>1 DEF IInv, disk, startup, net, book, page, Created, OpSane, FiniteTables, OneKey,
           RowsHosted, ServersPorted, RowsOf, Kept, BootServers
    <2>4. NumbersCoverDevices' /\ UniqueAddress'
        BY <1>2, <2>1 DEF IInv, book, NumbersCoverDevices, UniqueAddress
    <2> QED
        BY <2>2, <2>3, <2>4 DEF IInv
<1> QED
    BY <1>1, <1>2

\* IInv is an invariant of the orchestrator.
LEMMA Inductive == Spec => []IInv
    BY InitIInv, StepIInv, PTL DEF Spec

\* Every variable keeps its type over start-up, every request of the page and every
\* failure: numbers are natural, table entries name servers that exist (serve,
\* setEnabled).
THEOREM TypeCorrect == Spec => []TypeOK
<1>1. IInv => TypeOK
    BY DEF IInv
<1> QED
    BY <1>1, Inductive, PTL

\* No two devices of the herd ever share an address, whatever pins the files have
\* and whatever fails: deviceNumbers.assign is asked before every Register.
THEOREM AddressesUnique == Spec => []UniqueAddress
<1>1. IInv => UniqueAddress
    BY DEF IInv
<1> QED
    BY <1>1, Inductive, PTL

\* A registered device's number is never free in the table of its port, so that
\* release, called by a disable, never gives away a number in use.
THEOREM NumbersCover == Spec => []NumbersCoverDevices
<1>1. IInv => NumbersCoverDevices
    BY DEF IInv
<1> QED
    BY <1>1, Inductive, PTL

-----------------------------------------------------------------------------
(* The registration tables implement the address book.                      *)

Held(d) == [at |-> <<d.sid, d.type, d.num>>, by |-> d.inst]
Holding == {[at |-> <<d.sid, d.type, d.num>>, by |-> d.inst] : d \in regs}

LEMMA BookStep == IInv /\ [Next]_vars => [Book!Next]_Holding
<1> SUFFICES ASSUME IInv, [Next]_vars PROVE Book!Next \/ Holding' = Holding
    BY DEF Holding
<1>0. TypeRegs /\ UniqueAddress
    BY DEF IInv, TypeOK
<1>1. CASE regs' = regs
    BY <1>1 DEF Holding
<1>2. ASSUME NEW d \in RegType, Registers(d) PROVE Book!Next \/ Holding' = Holding
    <2>1. Holding' = Holding \union {Held(d)}
        BY <1>2 DEF Registers, Holding, Held
    <2>2. Held(d) \in Book!Holdings
        BY <1>2 DEF Held, RegType, Book!Holdings
    <2>3. \A g \in Holding : g.at # Held(d).at
        BY <1>2, RegistersFresh DEF Holding, Held
    <2>4. Held(d) \notin Holding
        BY <2>3
    <2>5. Book!Claim
        BY <2>1, <2>2, <2>3, <2>4 DEF Book!Claim, Holding
    <2> QED
        BY <2>5 DEF Book!Next
<1>3. CASE DisableBlock
    <2>1. regs' = regs \ AtRow(ThisRow)
        BY <1>3, ClosedFacts
    <2>2. CASE AtRow(ThisRow) = {}
        BY <1>1, <2>1, <2>2
    <2>3. ASSUME NEW d \in AtRow(ThisRow) PROVE Book!Next
        <3>1. d \in regs /\ \A e \in regs : e \in AtRow(ThisRow) <=> e = d
            BY <1>0, <2>3 DEF AtRow, UniqueAddress
        <3>2. regs' = regs \ {d}
            BY <2>1, <3>1 DEF AtRow
        <3>3. \A e \in regs : e # d => Held(e) # Held(d)
            BY <1>0, <3>1 DEF UniqueAddress, Held
        <3>4. Held(d) \in Holding /\ Holding' = Holding \ {Held(d)}
            BY <3>1, <3>2, <3>3 DEF Holding, Held
        <3>5. Book!GiveUp
            BY <3>4 DEF Book!GiveUp, Holding
        <3> QED
            BY <3>5 DEF Book!Next
    <2> QED
        BY <2>2, <2>3
<1>4. ASSUME NEW D \in SUBSET regs, Reloads(D) PROVE Holding' = Holding
    <2>1. \A d \in regs' : \E e \in regs : Held(d) = Held(e)
        <3> TAKE d \in regs'
        <3>1. d \in Reloaded(D)
            BY <1>4 DEF Reloads
        <3>2. PICK e \in regs : d.sid = e.sid /\ d.type = e.type /\ d.num = e.num /\ d.inst = e.inst
            BY <1>0, <3>1, ReloadedFacts
        <3> QED
            BY <3>2 DEF Held
    <2>2. \A e \in regs : \E d \in regs' : Held(d) = Held(e)
        <3> TAKE e \in regs
        <3>1. CASE e \in D
            <4>1. [e EXCEPT !.cfg = file[e.inst].cfg] \in regs'
                BY <1>4, <3>1 DEF Reloads, Reloaded
            <4> QED
                BY <1>0, <4>1 DEF Held, TypeRegs, RegType
        <3>2. CASE e \notin D
            BY <1>4, <3>2 DEF Reloads, Reloaded
        <3> QED
            BY <3>1, <3>2
    <2>3. Holding = {Held(d) : d \in regs} /\ Holding' = {Held(d) : d \in regs'}
        BY DEF Holding, Held
    <2>4. {Held(d) : d \in regs} = {Held(d) : d \in regs'}
        BY <2>1, <2>2
    <2> QED
        BY <2>3, <2>4
<1>5. CASE ProcessGone
    <2>1. Holding' = {}
        BY <1>5 DEF ProcessGone, Holding
    <2>2. Book!Reset
        BY <2>1 DEF Book!Reset, Holding
    <2> QED
        BY <2>2 DEF Book!Next
<1>6. CASE UNCHANGED vars
    BY <1>1, <1>6 DEF vars
<1>7. CASE Next
    BY <1>1, <1>2, <1>3, <1>4, <1>5, <1>7, RegsStep DEF NewHost, KeepsNumbers
<1> QED
    BY <1>6, <1>7

\* The devices of the herd behave as the abstract address book: an address is
\* taken only while free, given up by the row that owns it, and kept by a reload
\* (registerDevice, startInProcess, setEnabled, Reload).
THEOREM ImplementsBook == Spec => BookSpec
<1>1. Init => Book!Init
    BY DEF Init, Book!Init
<1>2. IInv /\ [Next]_vars => [Book!Next]_Holding
    BY BookStep
<1> QED
    BY <1>1, <1>2, Inductive, PTL DEF Spec, BookSpec, Book!Spec, Holding
=============================================================================
