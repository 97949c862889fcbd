------------------------------ MODULE Catalogue ------------------------------
(***************************************************************************)
(* The device files and what the page does to them: Add, Edit, Delete, the *)
(* enable switch, Start, Stop and Restart (hurd/orchestrator_page.go,      *)
(* hurd/toggle.go, hurd/delete.go, hurd/editor_validation.go), with the    *)
(* service manager that runs the drivers which are binaries of their own   *)
(* and the `alpacahurd -launch` it runs them through (hurd/launch.go).     *)
(*                                                                         *)
(* Clients are requests of the page that run at the same time.  Some hold  *)
(* orchestrator.mu over calls to the service manager, others read under    *)
(* it, work for seconds without it, and write afterwards.  A driver that   *)
(* is compiled in only has a row that says whether it runs: module Herd    *)
(* is about those.                                                         *)
(***************************************************************************)
EXTENDS Naturals, Sequences, FiniteSets

CONSTANTS
    Instances,    \* stems of device files
    Clients,      \* concurrent requests
    Nobody,       \* the holder of a free lock, the instance of no request
    Bodies,       \* what a device file says besides its enable switch
    Drivers,      \* driver names, with their executables
    DriverOf,     \* the driver a body names
    KindOf,       \* how resolveDriver resolves a driver
    Passing,      \* bodies that pass their driver's check
    Templates,    \* bodies that newDeviceTemplate returns
    Absent,       \* no file
    Torn,         \* a file that a write has truncated and not filled yet
    InitDisk,     \* directories the process may be started with
    Faults        \* the failures a run lets happen

Text == [on : BOOLEAN, body : Bodies]
Row  == [text : Text, inProcess : BOOLEAN]
Kinds == {"compiledIn", "installedBinary", "unresolved"}
FaultKinds == {"write", "supervisor", "build", "crash", "admin", "overlap", "driver"}

ASSUME NobodyAssumption == Nobody \notin Clients /\ Nobody \notin Instances
ASSUME DriversAssumption == DriverOf \in [Bodies -> Drivers] /\ KindOf \in [Drivers -> Kinds]
ASSUME BodiesAssumption == Passing \subseteq Bodies /\ Templates \subseteq Bodies
ASSUME NoTextAssumption == Absent \notin Text /\ Torn \notin Text /\ Absent # Torn
ASSUME DiskAssumption == InitDisk \subseteq [Instances -> Text \union {Absent}]
ASSUME FaultsKnown == Faults \subseteq FaultKinds

VARIABLES
    disk,     \* devices.d: the text of each file, Absent or Torn
    state,    \* instances with a file in the state directory
    hurd,     \* "down", "up", or "refused": LoadConfig failed
    toStart,  \* serve's separate: entries it has still to install and start
    rows,     \* orchestrator.rows, by instance
    cfg,      \* orchestrator.cfg.Devices, by instance
    lock,     \* the client that holds orchestrator.mu
    req,      \* the request of each client
    proc,     \* the service manager's process of each instance
    boot,     \* instances the service manager starts at boot
    shown     \* what the switch last answered, while the file is as it wrote it

tables  == <<rows, cfg>>
manager == <<proc, boot>>
vars == <<disk, state, hurd, toStart, rows, cfg, lock, req, proc, boot, shown>>

Idle == [op |-> "none", at |-> "idle", inst |-> Nobody, text |-> Absent, ok |-> TRUE]
Ops  == {"none", "add", "edit", "enable", "disable", "delete", "start", "stop", "restart"}
Points == {"idle", "write", "fill", "load", "list", "save", "switch", "install", "boot",
           "run", "halt", "unboot", "remove"}

TypeOK ==
    /\ disk \in [Instances -> Text \union {Absent, Torn}]
    /\ state \subseteq Instances /\ toStart \subseteq Instances /\ boot \subseteq Instances
    /\ hurd \in {"down", "up", "refused"}
    /\ rows \in [Instances -> Seq(Row)] /\ cfg \in [Instances -> Seq(Text)]
    /\ lock \in Clients \union {Nobody}
    /\ req \in [Clients -> [op : Ops, at : Points, inst : Instances \union {Nobody},
                            text : Text \union {Absent}, ok : BOOLEAN]]
    /\ proc \in [Instances -> {"off", "loading", "up", "waiting"}]
    /\ shown \in [Instances -> {"nothing", "enabled", "disabled"}]

Kind(body) == KindOf[DriverOf[body]]
Switched(text, b) == [text EXCEPT !.on = b]
RowOf(text) == [text |-> text, inProcess |-> FALSE]

\* validateDeviceEdit returns no error for t; it returns a warning, too, when the
\* body does not pass.  A binary is only run to check a text that keeps it.
\* Seeded bug: Checkable, where a failed check is a warning for every text.
Checkable(original, t) ==
    \/ Kind(t.body) = "compiledIn"
    \/ /\ Kind(t.body) = "installedBinary"
       /\ DriverOf[t.body] = DriverOf[original.text.body]
Accepted(original, t) == Checkable(original, t) /\ (t.on => t.body \in Passing)

\* LoadConfig takes every file there is, and fails on one that cannot be parsed.
\* Seeded bug: PresentFiles, where it takes what it cannot parse.
PresentFiles == {i \in Instances : disk[i] # Absent}
ParsedFiles == {i \in Instances : disk[i] \in Text}
Loadable == PresentFiles \subseteq ParsedFiles

\* A process starts with `alpacahurd -launch`, which loads the files first.
Started(i) == [proc EXCEPT ![i] = IF @ \in {"off", "waiting"} THEN "loading" ELSE @]

Init ==
    /\ disk \in InitDisk
    /\ state = {} /\ toStart = {} /\ boot = {}
    /\ hurd = "down"
    /\ rows = [i \in Instances |-> <<>>]
    /\ cfg  = [i \in Instances |-> <<>>]
    /\ lock = Nobody
    /\ req  = [c \in Clients |-> Idle]
    /\ proc = [i \in Instances |-> "off"]
    /\ shown = [i \in Instances |-> "nothing"]

-----------------------------------------------------------------------------
\* Requests.

Serving  == hurd = "up" /\ toStart = {}
Arrives(c) == Serving /\ req[c] = Idle
Unlocked == lock = Nobody          \* what RLock and Lock wait for
Listed(i) == rows[i] # <<>>
RunsHere(i) == \E k \in DOMAIN rows[i] : rows[i][k].inProcess

At(c, op, point) == req[c].op = op /\ req[c].at = point
Goes(c, point) == req' = [req EXCEPT ![c].at = point]
Ends(c) == req' = [req EXCEPT ![c] = Idle]
Begins(c, op, point, i, t) ==
    req' = [req EXCEPT ![c] = [op |-> op, at |-> point, inst |-> i, text |-> t, ok |-> TRUE]]

\* File i is written; an earlier answer of the switch no longer stands.
Writes(i, t) ==
    /\ disk' = [disk EXCEPT ![i] = t]
    /\ shown' = [shown EXCEPT ![i] = "nothing"]
Shows(i, answer) == shown' = [shown EXCEPT ![i] = answer]

\* Seeded bug: saved state is not looked for.
NoFile(i) == disk[i] = Absent
NoTrace(i) == NoFile(i) /\ i \notin state

\* handleAdd looks for both files, then obtains the template from the driver.
\* Nothing keeps two requests from adding one instance, or an edit of a deleted
\* one from waiting meanwhile; "overlap" lets that happen.
AddChecks(c, i) ==
    /\ Arrives(c)
    /\ NoTrace(i)
    /\ "overlap" \in Faults \/ \A d \in Clients : req[d].inst # i
    /\ \E b \in Templates : Begins(c, "add", "write", i, [on |-> FALSE, body |-> b])
    /\ UNCHANGED <<disk, state, hurd, toStart, tables, lock, manager, shown>>

\* os.WriteFile truncates what is there and writes the text afterwards.
AddTruncates(c) ==
    /\ At(c, "add", "write")
    /\ Writes(req[c].inst, Torn)
    /\ Goes(c, "fill")
    /\ UNCHANGED <<state, hurd, toStart, tables, lock, manager>>

AddFills(c) ==
    /\ At(c, "add", "fill")
    /\ \/ /\ Writes(req[c].inst, req[c].text)
          /\ Goes(c, "load")
       \/ /\ "write" \in Faults
          /\ Ends(c)
          /\ UNCHANGED <<disk, shown>>
    /\ UNCHANGED <<state, hurd, toStart, tables, lock, manager>>

\* loadDeviceFile, before the lock is taken.
AddLoads(c) ==
    /\ At(c, "add", "load")
    /\ IF disk[req[c].inst] \in Text
       THEN req' = [req EXCEPT ![c].at = "list", ![c].text = disk[req[c].inst]]
       ELSE Ends(c)
    /\ UNCHANGED <<disk, state, hurd, toStart, tables, lock, manager, shown>>

AddLists(c) ==
    /\ At(c, "add", "list") /\ Unlocked
    /\ LET i == req[c].inst IN
       /\ rows' = [rows EXCEPT ![i] = Append(@, RowOf(req[c].text))]
       /\ cfg'  = [cfg EXCEPT ![i] = Append(@, req[c].text)]
    /\ Ends(c)
    /\ UNCHANGED <<disk, state, hurd, toStart, lock, manager, shown>>

\* handleEdit: editableSpec under the lock, validateDeviceEdit without it.  An edit
\* may name another driver that is compiled in; "driver" lets operators do so.
EditChecks(c, i) ==
    /\ Arrives(c) /\ Unlocked /\ Listed(i)
    /\ \E t \in Text : /\ Accepted(rows[i][1], t)
                       /\ "driver" \in Faults \/ DriverOf[t.body] = DriverOf[rows[i][1].text.body]
                       /\ Begins(c, "edit", "save", i, t)
    /\ UNCHANGED <<disk, state, hurd, toStart, tables, lock, manager, shown>>

\* Seeded bug: the row is not looked up again.
Anything(i) == TRUE
StillListed(i) == Listed(i)

EditSaves(c) ==
    /\ At(c, "edit", "save") /\ Unlocked
    /\ LET i == req[c].inst
           t == req[c].text IN
       \/ /\ StillListed(i)
          /\ Writes(i, t)
          /\ rows' = [rows EXCEPT ![i][1].text = t]
          /\ cfg'  = [cfg EXCEPT ![i] = [k \in DOMAIN @ |-> t]]
       \/ /\ ~ StillListed(i) \/ "write" \in Faults
          /\ UNCHANGED <<disk, shown, tables>>
    /\ Ends(c)
    /\ UNCHANGED <<state, hurd, toStart, lock, manager>>

\* setEnabled(true) checks the text it is about to write, with the lock that
\* it keeps until it answers.
EnableChecks(c, i) ==
    /\ Arrives(c) /\ Unlocked /\ Listed(i)
    /\ disk[i] \in Text /\ Accepted(rows[i][1], Switched(disk[i], TRUE))
    /\ lock' = c
    /\ Begins(c, "enable", "switch", i, Absent)
    /\ UNCHANGED <<disk, state, hurd, toStart, tables, manager, shown>>

Answers(c) == lock' = Nobody /\ Ends(c)

\* writeDeviceEnable reads the file again and may fail; then the file is loaded and the
\* row replaced.  startInProcess may fail, which switches the file off again, and
\* nobody looks at whether that write succeeds.
EnableSwitches(c) ==
    /\ At(c, "enable", "switch")
    /\ LET i   == req[c].inst
           cur == Switched(disk[i], TRUE) IN
       \/ /\ disk[i] \notin Text \/ "write" \in Faults
          /\ Answers(c)
          /\ UNCHANGED <<disk, shown, rows>>
       \/ /\ disk[i] \in Text /\ Kind(cur.body) = "installedBinary" /\ ~ RunsHere(i)
          /\ Writes(i, cur)
          /\ rows' = [rows EXCEPT ![i] = <<RowOf(cur)>>]
          /\ Goes(c, "install")
          /\ UNCHANGED lock
       \/ /\ disk[i] \in Text /\ RunsHere(i)
          /\ disk' = [disk EXCEPT ![i] = cur]
          /\ Shows(i, "enabled")
          /\ Answers(c)
          /\ UNCHANGED rows
       \/ /\ disk[i] \in Text /\ Kind(cur.body) = "compiledIn" /\ ~ RunsHere(i)
          /\ \/ /\ disk' = [disk EXCEPT ![i] = cur]
                /\ Shows(i, "enabled")
                /\ rows' = [rows EXCEPT ![i] = <<[RowOf(cur) EXCEPT !.inProcess = TRUE]>>]
             \/ /\ "build" \in Faults
                /\ Writes(i, Switched(cur, FALSE)) \/ ("write" \in Faults /\ Writes(i, cur))
                /\ rows' = [rows EXCEPT ![i] = <<RowOf(cur)>>]
          /\ Answers(c)
    /\ UNCHANGED <<state, hurd, toStart, cfg, manager>>

\* A call to the service manager fails or runs into its deadline, and the
\* switch answers with the error.
GivesUpLeaving(c, holder) ==
    /\ req[c].op = "enable" /\ req[c].at \in {"install", "boot", "run"}
    /\ "supervisor" \in Faults
    /\ lock' = holder /\ Ends(c)
    /\ UNCHANGED <<disk, state, hurd, toStart, tables, manager, shown>>
\* Seeded bug: the handler returns with the lock.
EnableGivesUpLocked(c) == GivesUpLeaving(c, c)
EnableGivesUp(c) == GivesUpLeaving(c, Nobody)

EnableInstalls(c) ==
    /\ At(c, "enable", "install")
    /\ Goes(c, "boot")
    /\ UNCHANGED <<disk, state, hurd, toStart, tables, lock, manager, shown>>

EnableBoots(c) ==
    /\ At(c, "enable", "boot")
    /\ boot' = boot \union {req[c].inst}
    /\ Goes(c, "run")
    /\ UNCHANGED <<disk, state, hurd, toStart, tables, lock, proc, shown>>

EnableStarts(c) ==
    /\ At(c, "enable", "run")
    /\ proc' = Started(req[c].inst)
    /\ Shows(req[c].inst, "enabled")
    /\ Answers(c)
    /\ UNCHANGED <<disk, state, hurd, toStart, tables, boot>>

\* setEnabled(false): the file first, then what runs.
DisableSwitches(c, i) ==
    /\ Arrives(c) /\ Unlocked /\ Listed(i) /\ disk[i] \in Text
    /\ LET cur == Switched(disk[i], FALSE) IN
       /\ rows' = [rows EXCEPT ![i] = <<RowOf(cur)>>]
       /\ disk' = [disk EXCEPT ![i] = cur]
       /\ IF Kind(cur.body) = "installedBinary" /\ ~ RunsHere(i)
          THEN /\ Shows(i, "nothing")
               /\ Begins(c, "disable", "halt", i, Absent)
               /\ lock' = c
          ELSE /\ Shows(i, "disabled")
               /\ UNCHANGED <<req, lock>>
    /\ UNCHANGED <<state, hurd, toStart, cfg, manager>>

\* Both calls are made, whatever the first one returns.
DisableStops(c) ==
    /\ At(c, "disable", "halt")
    /\ \/ /\ proc' = [proc EXCEPT ![req[c].inst] = "off"]
          /\ Goes(c, "unboot")
       \/ /\ "supervisor" \in Faults
          /\ req' = [req EXCEPT ![c].at = "unboot", ![c].ok = FALSE]
          /\ UNCHANGED proc
    /\ UNCHANGED <<disk, state, hurd, toStart, tables, lock, boot, shown>>

DisableUnboots(c) ==
    /\ At(c, "disable", "unboot")
    /\ LET i == req[c].inst IN
       \/ /\ boot' = boot \ {i}
          /\ IF req[c].ok /\ disk[i] = rows[i][1].text THEN Shows(i, "disabled") ELSE UNCHANGED shown
       \/ /\ "supervisor" \in Faults
          /\ UNCHANGED <<boot, shown>>
    /\ Answers(c)
    /\ UNCHANGED <<disk, state, hurd, toStart, tables, proc>>

\* deleteDevice holds the lock.  It asks the service manager for the status
\* of a driver with a binary of its own.
DeleteChecks(c, i) ==
    /\ Arrives(c) /\ Unlocked /\ Listed(i)
    /\ \A k \in DOMAIN rows[i] : ~ rows[i][k].text.on /\ ~ rows[i][k].inProcess
    /\ Kind(rows[i][1].text.body) = "installedBinary" => proc[i] \notin {"loading", "up"}
    /\ lock' = c
    /\ Begins(c, "delete", "remove", i, Absent)
    /\ UNCHANGED <<disk, state, hurd, toStart, tables, manager, shown>>

\* The file is loaded again, so that an enable from outside is not discarded.
\* Seeded bug: the file only has to be readable.
Parsed(i) == disk[i] \in Text
StillDisabled(i) == Parsed(i) /\ ~ disk[i].on
DeleteRemoves(c) ==
    /\ At(c, "delete", "remove")
    /\ LET i == req[c].inst IN
       \/ /\ StillDisabled(i)
          /\ Writes(i, Absent)
          /\ rows' = [rows EXCEPT ![i] = <<>>]
          /\ cfg'  = [cfg EXCEPT ![i] = <<>>]
       \/ /\ ~ StillDisabled(i)
          /\ UNCHANGED <<disk, shown, tables>>
    /\ Answers(c)
    /\ UNCHANGED <<state, hurd, toStart, manager>>

\* Start, Stop and Restart decide by the row and act without the lock.  Start
\* checks the file as an edit that changes nothing; Restart of a device that
\* runs in process is a step of Herd.
Asks(c, i) ==
    /\ Arrives(c) /\ Unlocked /\ Listed(i)
    /\ LET row == rows[i][1] IN
       /\ Kind(row.text.body) = "installedBinary" /\ ~ row.inProcess
       /\ \/ /\ disk[i] \in Text /\ disk[i].on /\ Accepted(row, disk[i])
             /\ Begins(c, "start", "run", i, Absent)
          \/ Begins(c, "stop", "halt", i, Absent)
          \/ row.text.on /\ Begins(c, "restart", "run", i, Absent)
    /\ UNCHANGED <<disk, state, hurd, toStart, tables, lock, manager, shown>>

Starts(c) ==
    /\ At(c, "start", "run")
    /\ proc' = Started(req[c].inst)
    /\ Ends(c)
    /\ UNCHANGED <<disk, state, hurd, toStart, tables, lock, boot, shown>>

Stops(c) ==
    /\ At(c, "stop", "halt")
    /\ proc' = [proc EXCEPT ![req[c].inst] = "off"]
    /\ Ends(c)
    /\ UNCHANGED <<disk, state, hurd, toStart, tables, lock, boot, shown>>

Restarts(c) ==
    /\ At(c, "restart", "run")
    /\ proc' = [proc EXCEPT ![req[c].inst] = "loading"]
    /\ Ends(c)
    /\ UNCHANGED <<disk, state, hurd, toStart, tables, lock, boot, shown>>

-----------------------------------------------------------------------------
\* The service manager and its processes.

\* launchArgv refuses an instance that is absent, disabled or without a binary.
\* Seeded bug: HasBinary, without the switch.
HasBinary(i) == disk[i] \in Text /\ Kind(disk[i].body) = "installedBinary"
Launchable(i) == HasBinary(i) /\ disk[i].on

\* `alpacahurd -launch` loads the files: the unit retries when that fails, and not
\* when launchArgv refuses (exit 78); otherwise the process becomes the driver.
Launches(i) ==
    /\ proc[i] = "loading"
    /\ proc' = [proc EXCEPT ![i] =
           IF ~ Loadable THEN "waiting"
           ELSE IF Launchable(i) THEN "up"
           ELSE "off"]
    /\ UNCHANGED <<disk, state, hurd, toStart, tables, lock, req, boot, shown>>

\* A driver exits; one that failed is started again after RestartSec.
Exits(i) ==
    /\ proc[i] = "up"
    /\ \E p \in {"off", "waiting"} : proc' = [proc EXCEPT ![i] = p]
    /\ UNCHANGED <<disk, state, hurd, toStart, tables, lock, req, boot, shown>>

Retries(i) ==
    /\ proc[i] = "waiting"
    /\ proc' = [proc EXCEPT ![i] = "loading"]
    /\ UNCHANGED <<disk, state, hurd, toStart, tables, lock, req, boot, shown>>

\* `systemctl start` by hand, or the machine boots.
ManagerStarts(i) ==
    /\ proc[i] = "off"
    /\ proc' = [proc EXCEPT ![i] = "loading"]
    /\ UNCHANGED <<disk, state, hurd, toStart, tables, lock, req, boot, shown>>

\* A running driver saves settings.
SavesState(i) ==
    /\ proc[i] = "up" /\ i \notin state
    /\ state' = state \union {i}
    /\ UNCHANGED <<disk, hurd, toStart, tables, lock, req, manager, shown>>

\* An operator enables a device in its file, once it is configured.
AdminEnables(i) ==
    /\ "admin" \in Faults
    /\ disk[i] \in Text /\ ~ disk[i].on /\ disk[i].body \in Passing
    /\ Writes(i, Switched(disk[i], TRUE))
    /\ UNCHANGED <<state, hurd, toStart, tables, lock, req, manager>>

-----------------------------------------------------------------------------
\* The orchestrator's life.  A compiled-in driver that is enabled runs in
\* process after start-up, or has failed (module Herd).

Boots ==
    /\ hurd \in {"down", "refused"}
    /\ hurd' = IF Loadable THEN "up" ELSE "refused"
    /\ IF Loadable
       THEN LET on(kind) == {i \in ParsedFiles : /\ disk[i] \in Text /\ disk[i].on
                                                 /\ Kind(disk[i].body) = kind} IN
            \E running \in SUBSET on("compiledIn") :
                /\ running = on("compiledIn") \/ "build" \in Faults
                /\ rows' = [i \in Instances |->
                       IF i \in ParsedFiles THEN <<[text |-> disk[i], inProcess |-> i \in running]>> ELSE <<>>]
                /\ cfg' = [i \in Instances |-> IF i \in ParsedFiles THEN <<disk[i]>> ELSE <<>>]
                /\ toStart' = on("installedBinary")
       ELSE UNCHANGED <<tables, toStart>>
    /\ UNCHANGED <<disk, state, lock, req, manager, shown>>

\* serve installs and starts the entries the service manager runs, then serves
\* the page.
StartsSeparate(i) ==
    /\ hurd = "up" /\ i \in toStart
    /\ toStart' = toStart \ {i}
    /\ \/ proc' = Started(i)
       \/ "supervisor" \in Faults /\ UNCHANGED proc
    /\ UNCHANGED <<disk, state, hurd, tables, lock, req, boot, shown>>

\* The process ends between any two steps, and its requests with it; under
\* systemd a stop takes the device units along (PartOf).
Dies ==
    /\ "crash" \in Faults
    /\ hurd = "up"
    /\ hurd' = "down" /\ toStart' = {}
    /\ rows' = [i \in Instances |-> <<>>] /\ cfg' = [i \in Instances |-> <<>>]
    /\ lock' = Nobody /\ req' = [c \in Clients |-> Idle]
    /\ proc' \in {proc, [i \in Instances |-> "off"]}
    /\ UNCHANGED <<disk, state, boot, shown>>

-----------------------------------------------------------------------------
Requests(c) ==
    \/ \E i \in Instances : \/ AddChecks(c, i) \/ EditChecks(c, i) \/ EnableChecks(c, i)
                           \/ DisableSwitches(c, i) \/ DeleteChecks(c, i) \/ Asks(c, i)
\* What a request does once it has begun.
Continues(c) ==
    \/ AddTruncates(c) \/ AddFills(c) \/ AddLoads(c) \/ AddLists(c)
    \/ EditSaves(c)
    \/ EnableSwitches(c) \/ EnableInstalls(c) \/ EnableBoots(c) \/ EnableStarts(c) \/ EnableGivesUp(c)
    \/ DisableStops(c) \/ DisableUnboots(c)
    \/ DeleteRemoves(c)
    \/ Starts(c) \/ Stops(c) \/ Restarts(c)
Processes(i) == Launches(i) \/ Exits(i) \/ Retries(i) \/ ManagerStarts(i) \/ SavesState(i) \/ AdminEnables(i)

Next ==
    \/ \E c \in Clients : Requests(c) \/ Continues(c)
    \/ \E i \in Instances : Processes(i) \/ StartsSeparate(i)
    \/ Boots \/ Dies

Spec == Init /\ [][Next]_vars

=============================================================================
