# alpacahurd in TLA+

alpacahurd serves astronomy devices over the ASCOM Alpaca protocol. One
orchestrator process reads a directory of device files, runs drivers compiled
into it behind HTTP servers of the goalpaca library, has the platform's service
manager run the other drivers, answers discovery, and offers a page on which an
operator adds, edits, enables, disables, restarts and deletes devices. This
directory holds the specifications of that process, the instances TLC checks,
and the theorems TLAPS proves. All paths below are relative to `src/`.

## The system

| Component | State it keeps | Operations | Interacts with |
|---|---|---|---|
| Start-up (`hurd/run.go`, `serve`) | local server list, `errc`, `failed`, `ports` | build, bind fixed ports, bind scanning ones, settle, page, responder, reload signal, front-ends, final select | every table of the orchestrator, without the lock until the page is served |
| Enable switch (`hurd/toggle.go`) | rows, `byPort`, `servers`, `nums`, `scanCount` under `orchestrator.mu` | `setEnabled`, `startInProcess`, `replaceRows` | device files, state files, goalpaca servers, responder, supervisor |
| Device numbers (`hurd/build.go`) | numbers taken per key and type | `assign`, `release`, `registerDevice`, `attachSetupForm`, `reloaderFor`, `wireFrontEnd` | called by start-up and by the switch |
| Restart and reload (`hurd/orchestrator_page.go`, `hurd/reload_signal_*.go`) | a copy of device addresses, taken under the read lock | `restart`, `reload`, SIGHUP | goalpaca `Reload`, without the lock |
| Device files (`hurd/devices.go`) | `devices.d/*.json`, one state file per instance | overlay, `writeDeviceEnable`, `persistBoundPorts` | read by start-up, the switch and every reload |
| Catalogue (`hurd/orchestrator_page.go`, `hurd/delete.go`, `hurd/editor_validation.go`) | device files, rows, `cfg.Devices` | `handleAdd`, `handleEdit`, `handleEditCheck`, `deleteDevice` | partly under the lock |
| Supervised drivers (`hurd/supervisor*.go`, `hurd/launch*.go`, `hurd/resolve.go`): an interface, a back-end per platform, the launch, and on Windows the service host | the service manager's units and their boot switch | `Install`, `Start`, `Stop`, `Enable`, `Disable`, `Restart`, `Status`, `launch` | called by the switch, by start-up and by `deleteDevice` |
| Discovery (`hurd/discovery.go`) | announced ports, registrations, a row's `reg`, `extra` | `handle`, `replies`, `addPort`, `noteRegistration` | takes the orchestrator's lock for each heartbeat |
| Configuration check (`hurd/cli.go`) | none | `checkConfig` | predicts what start-up does |
| Readiness (`hurd/readiness.go`, `hurd/readiness.js`), editor and logs (`hurd/editor.js`, `hurd/logs.js`) | in the browser: a draft and what was checked, a chain of log requests, a round of probes | event handlers and asynchronous requests | the page's handlers |

What is hard here is that three kinds of actors share the tables: start-up, which
runs for seconds and serves the page before its last steps; requests, which hold
a lock while they wait for a server to bind; and the goalpaca servers and other
programs, which take and lose ports on their own. Every registration step can
fail halfway, waits end by deadlines that stop nothing, and the tables are keyed
in two ways (by configured port or scan index, and by bound port).

What makes each component correct:

- *device numbers, registration*: an address (server, type, number) leads to one
  device; the table of numbers covers what is registered.
- *enable switch*: rows tell what runs; a disable removes its own device, only
  that, and its front-end; a request always ends.
- *start-up*: it ends; fixed ports win over scans; errors are those of the server
  they are attributed to; a server that failed is forgotten.
- *ports*: what is served is announced and saved; scan windows do not overlap.
- *restart, reload*: only the instance asked for is touched.
- *catalogue*: no update is lost, the table and the directory agree, a file is
  whole after a crash.
- *supervised drivers*: boot switch, file and running process agree after a switch.
- *discovery*: an answer names each live port once and none is forgotten; a device
  is not shown beside its own row for longer than a registration lives; no request
  stops the receive loops for good.
- *service managers*: an operation that returns nil has had its effect, on every
  platform, and nothing happens that nobody asked for.
- *configuration check*: it foresees start-up.
- *pages*: only checked text is saved; the log view polls once and never freezes;
  a button that is disabled over a request comes back.

## Modules

| Module | What it is |
|---|---|
| `DeviceNumbers` | `deviceNumbers.assign` as pure operators |
| `Herd` | the orchestrator process for compiled-in drivers: `serve`, `setEnabled`, `restart`, SIGHUP, the goalpaca servers, other programs, the files |
| `HerdProps` | the properties of `Herd` and its fairness |
| `AddressBook` | the abstract promise of registration, implemented by `Herd` |
| `HerdInv` | the inductive invariants of `Herd`: one for types and addresses, and on top of it one for each group of properties |
| `HerdProofs` | types, addresses and the refinement, proved |
| `HerdRowProofs` | servers, rows, devices, front-ends, ports and switches, proved on top of `HerdProofs` |
| `DeviceNumbersProofs` | what `assign` finds: lemmas for `HerdProofs` and `ConfigCheckProofs` |
| `MCHerd` | instances of `Herd` for TLC |
| `Catalogue` | the device files under the page's requests, with the drivers that are binaries of their own and the service manager that runs them |
| `CatalogueProps` | the properties of `Catalogue` and its fairness |
| `CatalogueInv`, `CatalogueProofs` | its inductive invariant, and the types and safety properties proved from it |
| `MCCatalogue` | instances of `Catalogue` for TLC |
| `Discovery`, `DiscoveryProps` | the responder, its receive loops and the registrations on the page, beside a switch that adds a port; its properties and fairness |
| `Supervisor` | the abstract promise of the interface of that name |
| `ServiceCalls` | what the back-ends share: a call is a sequence of commands under a request's context |
| `Systemd`, `Launchd`, `Scm` | the three back-ends, each over a model of its service manager; `Scm` includes the service host `driverHost` |
| `Services` | the back-end that `platformSupervisor` picks, mapped to `Supervisor` |
| `EditorPage`, `LogPage`, `ReadinessPage` | the scripts of the setup pages |
| `Pages` | a browser tab, which shows one of them |
| `ConfigCheck` | `checkConfig` and the build loop of `serve`, one after the other, over one configuration |
| `ServicesInv`, `ConfigCheckInv` | the inductive invariants of `Services` and `ConfigCheck` |
| `DiscoveryProofs`, `ServicesProofs`, `PagesProofs`, `ConfigCheckProofs` | theorems and proofs about the module each is named for |
| `MCDiscovery`, `MCServices`, `MCPages`, `MCConfigCheck` | their instances for TLC |

`Herd` and `Catalogue` divide the enable switch by the kind of driver: `Herd` is
about what runs inside the process, with one request at a time beside start-up,
servers and Restart; `Catalogue` is about overlapping requests, files and processes, and keeps of a
compiled-in driver only whether it runs.

### How Herd corresponds to the code

State. `file` is `devices.d` (the enable switch, the admin's port, the shape that
`subSpecs` makes of the file: its enabled blocks and their pins, and a version of
the driver's settings); `saved` is the port in the state file. `phase`, `todo`,
`waiting`, `failed`, `errc` are `serve`'s program counter and locals. `srv` is the
sequence of goalpaca servers, with the state of their `Run` goroutine. `byPort`,
`byBound`, `used` and `scanCount` are `orchestrator.byPort`, `.servers`, `.nums`,
`.scanCount`. `regs` is what is registered on all servers. `live` holds the rows
with `inProcess`; of the others the model keeps only `rowOn`, whether the first
row of the instance says enabled. `fronts` are front-ends that run, `resp` and
`adv` the responder and its ports. `op` is the request that holds the lock (or the
entry `serve` is building), with its position in the loop over blocks. `pending`
is a Restart between `RUnlock` and its last `Reload`.

Actions. One action is the code between two points where another actor can see or
change the state. In `serve` that is a step per entry and block, then per server,
then `Settle` (`run.go:234-275`), `PublishResponder`, `WireFrontEnds`. In
`setEnabled` it is the prologue with the write of the switch (`EnableBegin`,
`DisableBegin`), each call for a block with each of its failures, and the
epilogue. While `op` is not idle no other request and no locked part of `serve`
runs; servers, other programs, Restart's reloads and SIGHUP do.

Abstractions of `Herd`. Settings are a version; the text of files, forms and messages is
left out. A type per instance is fixed (an edit that changes the driver belongs
to the catalogue). Heartbeats, the page's own server and the HTTP front are left out of this
module. Blocks that are disabled in a file are not in its shape. `validateDeviceEdit` and `Block` order:
blocks are taken in ascending order, as the loops do; `Reload` of several rows
happens in any order. A goalpaca server is external: it binds its port or a port
of its window, reports when there is none, and may die.

Faults. The constant `Faults` names what may go wrong in a run: `early` (requests
before start-up is over; without it the first request comes after it), `build`,
`register`, `attach`, `unregister` (the calls that return errors), `timeout` (the
10 s deadlines), `die` (a server returns after it was bound), `stop` (the process
ends, at any point, and is started again), `save` (a state file cannot be written).

Bounds. `MaxServers` and `MaxRegs` are the only bounds on behaviour; they stop
`EnableBegin` (and `NewServer`) when a run would create another server or device.
Two instances suffice for conflicts over a number, a port, a row and a Restart;
three servers (two in the run with faults) allow both instances a server and one
of them a second one, or a second life of a fixed port; one contested port lets another program win or lose
a race. The scan windows have two ports each.

### How Catalogue corresponds to the code

State. `disk` is the directory: a file has a text (its switch and a `body`, which
stands for the driver and its settings), is absent, or is torn by `os.WriteFile`.
`state` is the state directory. `rows` and `cfg` are `orchestrator.rows` and
`orchestrator.cfg.Devices`, by instance, as sequences, because nothing forbids two rows of one
instance. `lock` is the holder of `orchestrator.mu`. `req` is the request of each
client: its handler, where it waits, and what it carries over (the checked draft,
the template, the file it loaded, whether a call has failed). `proc` is the service
manager's process: off, loading (`alpacahurd -launch` before it has read the
files), up (the driver), waiting (for a retry). `boot` is the boot switch.
`shown` is a history variable: the last answer of the switch, as long as the file
is as the switch wrote it.

Actions. A handler is cut where other actors can come between: after reads under
`RLock`, around the seconds a driver takes for its template or its check, between
truncating and filling a file, and around each call to the service manager. Requests that are refused
change nothing and are not steps. `Accepted` is `validateDeviceEdit`: the body's
driver may be compiled in, or a binary that the entry named before; a text that is
switched on must pass. `Launches` is the launch: it loads all files, and becomes the driver
only if its own is there, enabled and resolved to a binary.

Faults. `write` (`os.WriteFile` or a rename fails), `supervisor` (a call to the
service manager fails), `build` (a compiled-in driver does not start), `crash`
(the process ends between any two steps), `admin` (an operator enables a
configured device in its file), `overlap` (a device is added while another
request about its name is under way), `driver` (an edit changes the driver). The service manager may
start, end and retry drivers at any time in every run.

Bounds. None on behaviour: the state space is finite. One file suffices because
no handler reads another file, except that a torn one stops every load, which one
file shows as well. Two clients suffice for each pair of handlers to overlap at
every point, with any number of completed requests between.

### How Discovery corresponds to the code

State. `static` and `staticSet` are the responder's; `heard` is goalpaca's table of
registrations; `rows` keeps of a row its `reg` and since when it is listed, `extra`
is `orchestrator.extra`. `loop` is where each of the two `serveDiscovery`
goroutines is in `handle`, and what it carries (`need` is a history variable: the
ports its answer owes). `switch` is a request in `setEnabled`, `reading` a page in
`render`; together they are `orchestrator.mu`.

Actions. A probe is answered in the steps of `replies`: the copy under the mutex,
the read of the registrations, a look-up for each. `addPort` has two steps, between
which it holds the responder's mutex and is writing. A heartbeat is recorded and then
handed to `noteRegistration`, which waits for the orchestrator's lock: a waiting
`Lock` excludes new readers, as in Go. `ReadDuringWrite` is what the Go runtime
may do when it sees the map read while it is written: the process ends, and the service
manager starts it again. Heartbeats come in any order and may be lost
or repeated: any of `Beats` may arrive at any time. Time is kept as ages.

Bounds. `Beats` holds two identities of one instance, here and on another host;
they name the port that a server may take, so that a port is static, registered,
or both. Two loops are all there are. `TTL` is one step of time: only its passing
matters.

### How the service modules correspond to the code

A back-end's operation is the sequence of its commands, one action per
command, so that two requests interleave between any two of them. `call` is each
request's operation, its next command and whether its context has ended
(`ServiceCalls`). `sm` is the service manager's record of one instance:

- systemd: the template unit, the boot switch, one job and what the unit does. A
  contrary job cancels the one before, an agreeing one joins it, and a `systemctl` that
  is killed leaves its job behind.
- launchd: the plist, whether the job is loaded, whether it runs, and the boot
  override. Any failure of `launchctl print` is read as "not loaded"
  (`supervisor_launchd.go:194`), and so it is in the model.
- the SCM: the service's state, its start type, recovery and a scheduled restart,
  and `driverHost.Execute`, step by step: the driver's end and a stop request
  may both be ready in its select. `drivers` counts the children that run.

`Supervisor` says what the interface (`supervisor.go:9-27`) promises: who may
change registration, boot switch and process, and that an operation returns nil
only if its effect has held since it was called (`met`). A call whose request ended
promises nothing. The refinement takes from each back-end what its `Status`
reports. The boot switch of a service that is not registered counts as on with
launchd and the SCM, which have no place to keep it.

Faults. `command` (a command that changes something fails without effect), `query`
(a state cannot be read), `leave` (the browser leaves or the 30 s are over). The
passing run excludes `query`: with it, Restart on Windows may report a success it does
not have (below).

Bounds. None on behaviour. One instance, because no command names another; two
clients, so that each pair of operations overlaps at each command.

### How the page modules correspond to the code

Each handler of `editor.js`, `logs.js` and `readiness.js` is one action, because a
browser runs handlers to their end; a request settles in an action of its own, at any
later time, with an answer, a refusal, an abort or a timeout. The counters
`revision` are not kept: a request is `stale` when the function that increments
the counter has run since it began, which is what `version !== revision` asks. The
editor also has what browsers do on their own: restoring a text before `pageshow`
without an input event, keeping a page that was left and showing it again. The server's
answers are open: `Validates` may accept or refuse any draft, a load of the log may fail, the
entry behind a readiness cell may change at any time.

Bounds. `MaxLoads` bounds the loads of one behaviour of the log view, because the
answers are numbered; six let a stale load, a paused one and a later one be under
way together. Three cells and two tasks (of the code's three) let a task take a
second cell while the other is still at its first.

### How ConfigCheck corresponds to the code

The module walks one configuration twice: the loop of `checkConfig`
(`cli.go:118-170`), then the loop of `serve` (`run.go:112-183`), one action per entry
or block. Both use `DeviceNumbers` for the numbers, with the key each loop
really uses: the configured port there, a key per scanning entry here. An entry is
what the loops ask of it: enabled, port, inline or a file, what `resolveDriver`
finds, whether `subSpecs` fails, and its blocks with pin, switch and whether `New` accepts
them. What the check cannot foresee is left out of `Serves`: a port that is taken, a setup form
that does not fit, a host without a service manager.

Bounds. Configurations of up to three of 32 kinds of entries, in any order: three let
two entries that share a table surround one that does not. Both loops end, so the run
does not check deadlock.

## Runs

| Run | Instance | Shows |
|---|---|---|
| `herd_faults` | two pinned blocks and one unpinned device on one contested port, all faults but `early` and `save` | types; unique addresses; the number table covers the registrations; `AddressBook` is implemented |
| `herd_quiet` | single devices on one shared, one fixed and one scanning, or two scanning ports; every combination of switches at boot; `build`, `register`, `stop` | agreement of rows, devices, front-ends, announced and saved ports; a disable removes its own; scan windows; attribution of errors; fixed ports first |
| `herd_live` | one scanning device, one on the contested port, `early` and `timeout`, drafts | a switch request and start-up always end |
| `page` | two clients, one file, two drivers; `write`, `supervisor`, `build`, `crash`, `admin` | what the switch answered is true; no driver outlives its file; only checked configurations are enabled; table and directory agree; an added device inherits no state; every request ends |
| `discovery` | two loops, two identities, one port, one instance | answers are complete and name a port once; extra devices fade; receive loops come back |
| `services` | two clients, all three platforms; `command`, `leave` | every back-end implements `Supervisor`; a stopped driver stays stopped; one driver per host; every call returns |
| `pages` | three texts, one of which does not parse; six loads; three cells, two tasks | only checked text is submitted; one chain of loads and no older snapshot; Start is verified, rounds are complete; buttons come back |
| `config_check` | all configurations of up to three entries | the check foresees start-up |
| `herd_reenable`, `herd_restart`, `discovery_race`, `services_restart` | minimal instances | the four disagreements below |

The quiet run excludes faults on purpose. Each of its properties is one that some
fault of the code really breaks, and the comment of the property says which: with
`early` a device may not be announced (`toggle.go:228`) or may get two front-ends,
with `attach` a device stays registered without a row (`toggle.go:241`), with
`unregister` a second disable may close the device of another instance
(`toggle.go:84-92`), with `timeout` an error outlives its server. What is left
holds over every history of switches, restarts and port contention.

Fairness (`FairSpec`). Weak fairness of the steps of the request that holds the
lock and of `serve`: their goroutines run, and `waitBound` ends by its deadline
(`devices.go:213`), which is the action `BindTimeout` or `AwaitFails`. Strong
fairness of the two steps of `serve` that take the lock: Go's mutex grants a waiting `Lock`
call when the lock is released again and again. Nothing is assumed
of the servers, the other programs or the operator. In `Catalogue`, weak fairness
of what a request does once it has begun (all its calls have deadlines: 5 s for a
driver's template or check, 30 s for the service manager), and strong
fairness of the two steps that wait for the lock after unlocked work. In `Discovery`,
strong fairness of each receive loop (its goroutine runs, and Go's mutexes are
granted to those who wait) and weak fairness of what holds the locks: a switch is
bounded by `enableTimeout`, a page by the deadline of its status calls; nothing is assumed
of the network. In `Services`, weak fairness of each client's commands and of the end
of its context; nothing is assumed of the service managers or the drivers. In `Pages`,
weak fairness of the settling of requests, which their timers abort, and of the tasks.

## Disagreements found

1. `herd_reenable`: a device whose port was chosen by scanning cannot be enabled
   again. Its server is listed under a negative key; the enable loads the
   saved port, finds no server under it and starts a second one on a port that the
   first still holds (`toggle.go:209-217`; `config.go:87`, `relay_test.go:270`).
2. `herd_restart`: Restart reads the device's address under the lock and reloads
   after releasing it; another instance may have the address by then
   (`orchestrator_page.go:100-137`; `README.md:252-253`).
3. `discovery_race`: `replies` reads the map `staticSet` after releasing the mutex
   that guards it, while `addPort` may write it (`discovery.go:65-68`;
   `discovery.go:26`).
4. `services_restart`: the wait for a Windows service to stop also ends, without an
   error, when its status cannot be read; Restart then starts a service that is
   still stopping, takes error 1056 for success, and leaves it stopped
   (`supervisor_scm.go:72-97`; `supervisor_scm.go:88`).

### Known limits of the code

The passing runs leave these out, and the comments of their properties or the fault
constants name them:

- A device enabled while start-up is before its last loop gets a second front-end, and
  disabling it stops one of them (`run.go:327-337`; `README.md:284`). Fault `early`.
- A server that start-up gave up on ends the process when it reports its error later
  (`run.go:341-347`; `cli.go:177`). Fault `timeout`.
- An edit may name a compiled-in driver and switch the file off while the service
  of the old driver runs; Delete then does not ask for its status and removes the file
  (`delete.go:36`; `delete.go:10-11`). Fault `driver` of `Catalogue`.
- Two requests that add one name both find it free, and the second one truncates the
  file of the first (`orchestrator_page.go:391-411`; `devices_test.go:472`); a draft
  checked against a device that is deleted and added again is saved over the new
  one (`orchestrator_page.go:447-458`; `editor_validation.go:78`). Fault `overlap`.
- On Windows an Install repeated after its `sc failure` command failed never sets the
  recovery actions, because the service exists by then (`supervisor_scm.go:49`); a
  restart that recovery has scheduled survives a Stop, so `StopSticks` speaks of the
  other platforms, and only the launch refuses the disabled instance.
- The check numbers all scanning entries in one table (`cli.go:155`), so it may
  report an error for an entry that start-up serves; `CheckPredicts` allows it.
- SIGHUP reloads the servers that start-up made, not those of devices enabled later
  from the page (`run.go:320`).

## Proofs

Every theorem is about `Spec` (or `Init /\ [][Next]_vars` under another name), which the
fair specifications of the runs imply, and holds for every value of the constants
that satisfies the named assumptions of its module. A hypothesis of a theorem
beside those excludes a fault (or a shape of device file) that really defeats
the property in the code; the section on known limits and the comments of
the properties say how. The inductive invariants of the `Inv` modules were checked by TLC on
the instances of the runs before they were proved.

| Module | Theorem | Property | Hypothesis |
|---|---|---|---|
| `HerdProofs` | `TypeCorrect` | `TypeOK` | |
| | `AddressesUnique` | `UniqueAddress` | |
| | `NumbersCover` | `NumbersCoverDevices` | |
| | `ImplementsBook` | `BookSpec`, the refinement of `AddressBook` | |
| `HerdRowProofs` | `WindowsNeverOverlap` | `WindowsApart` | |
| | `FailuresAttributed` | `ErrorsAttributed` | no `timeout`, no `die` |
| | `FixedPortsWin` | `FixedPortsFirst` | no `timeout`, no `die` |
| | `RowsHaveDevices` | `RowsAreRegistered` | no `unregister` |
| | `DisableSparesOthers` | `DisableTouchesOwn` | no `unregister` |
| | `NothingOrphaned` | `NoOrphanDevice` | no `attach` |
| | `FrontEndsMatchRows` | `FrontEndsFollowRows` | no `early` |
| | `DisablesStop` | `DisableStops` | no `attach`, no `early` |
| | `PortsDiscoverable` | `ServedPortsAdvertised` | no `early` |
| | `PortsPersist` | `PortRemembered` | no `save`; an entry gets one server |
| | `SwitchTellsTruth` | `RunningIsEnabled` | no `unregister`; one block per entry, no draft disables one |
| `CatalogueProofs` | `TypeCorrect` | `TypeOK` | |
| | `TableFollowsFiles` | `RowsMatchFiles` | no `overlap` |
| | `SwitchStands` | `SwitchIsReal` | no `overlap`, no `driver` |
| | `ProcessHasFile` | `NoOrphanProcess` | no `overlap`, no `driver` |
| | `EnabledFilesPass` | `EnabledPasses` | no `overlap`; the files found at start pass |
| | `AddsStartAfresh` | `AddInheritsNothing` | no `overlap`, no `driver`; templates with a binary do not pass, or no `admin` |
| `ServicesProofs` | `ImplementsSupervisor` | `SupervisorSpec`, the refinement of `Supervisor` | no `query` |
| | `StopsStick` | `StopSticks` | no `query` |
| | `OneDriverRuns` | `OneDriver` | |
| `DiscoveryProofs` | `TypeCorrect`, `AnswersOnce`, `AnswersComplete`, `ExtrasFade` | `TypeOK`, `AnswerOnce`, `AnswerComplete`, `ExtraFades` | |
| `PagesProofs` | `SavesWhatWasChecked`, `StartsWhatIsReady`, `RoundsCover` | `SaveIsChecked`, `StartIsVerified`, `RoundCovers` | |
| | `PollsInOneChain`, `DisplayAdvances` | `OneChain`, `SnapshotsAdvance` | |
| `ConfigCheckProofs` | `CheckForesees` | `CheckPredicts` | |

### Herd

*Addresses* (`HerdProofs`). `UniqueAddress` is not inductive: a new device has a number that the
table of the operation's key says is free, so the table must cover what is
registered on the server (`NumbersCoverDevices`), under every key that leads to
the server, so a server has one key (`OneKey`); a table is reset when a server is
listed, so that server must have no device yet (`Created` for start-up, the last
part of `OpSane` for the page). `LowestFree` exists because the tables are finite
(`FiniteTables`; lemma `LowestFreeIsFree` counts them). The type of the addresses
that Restart copies needs a port for every listed server (`ServersPorted`), hence
a server for every row (`RowsHosted`). `IInv` is the conjunction; each conjunct has a
lemma with one step per action that touches it. `RegsStep` and `ByPortStep` say
once how a step changes the devices and `byPort`; the address lemmas and the refinement use them.

*What rests on them* (`HerdRowProofs`). `Herd` has many actions, and few of them
touch what one property is about. So the steps are classified once for each part of the
state: `ServersStep` (servers are created, bind, fail, die), `StartStep` (what start-up
knows of them), `RowsStep`, `DevicesStep`, `OpStep` (the request under way) and `DiskStep`
(the files). An invariant about that part then has a case per class and not per action.
The invariants, each inductive relative to `IInv` and those named before it:

- `ServerInv`: a server that scans has a window of its own, below `scanCount`.
- `Attributed`: `serve` waits for one server at a time, and `errc` holds at most that
  server's error. A wait that gives up leaves a server whose error arrives later, and a
  bound server that dies sends one that no one waits for.
- `FixedFirst`: start-up makes one server per fixed port and starts those before the
  ones that scan, so that what holds the port is not the herd's own.
- `RowInv`: an instance has one row per block, and the key of a new scanning server is
  free. `RowsRegistered` says that a row lacks its device only while a disable has
  closed it; `DevicesRowed` is the converse.
- `SwitchServing`, `FrontEnds`, `Announced`: a switch waits until `serve` is done; then
  the front-ends are those whose rows hold their cancel functions, and what `byPort` lists
  is announced.
- `OneHost`, `Remembered`: the rows of an instance are on one server, whose port is saved.
- `Enabled`: what has a row is enabled in its file, or is being disabled.

`DisableTouchesOwn`, `DisableStops` and `FixedPortsFirst` are action properties: the
invariants give the state before the step, a lemma about the one action that matters
gives the step.

### Catalogue

The invariant is the conjunction of a predicate of each instance (`FileOK`: its row
shows its file, a file that nobody is adding has its row, a driver that runs has a
file that names its binary, the last answer of its switch is true) and one of each
request (`PointOK`: what the request may rely on until its next step). A step is about one
instance and one request, which `Same` and its framing lemmas say once; what is left is
why one request's step keeps what another relies on. Three reasons: those who hold
`orchestrator.mu` exclude each other; a request that adds an instance is the only one
about its name (`NoOverlap`); and an edit, which waits unlocked between its check and its
write, relies only on the driver of the row it was checked against (`DriverKept`), not on the
text. The switch relies until its answer on the file being as it wrote it (`EnableOK`):
whoever else writes the file of a listed device either holds the lock or, as an operator, turns
it on. `EnabledPasses` and
`AddInheritsNothing` are proved on top of the invariant; the first needs nothing of
the driver, because what is written enabled has passed.

### Services

Each platform has an invariant of its own (`ServicesInv`), and no step changes the
platform. What a call that has not returned may rely on is what makes its success true:

- systemd: a call that waits for a job waits for one that does what it asked for,
  although other calls have joined or replaced the job (`WaitsForItsJob`);
- launchd: only a loaded job runs; a Restart that found its job not loaded and finds
  it loaded has seen it launched by another call (`RestartSeesLaunch`);
- the SCM: no driver runs in a stopped service; a poll that sees a service neither running
  nor going down, and the start that follows it, come after a stop (`StopSeen`).

`met` of `Supervisor` is what carries these over to the answer. `NoQueryError` is
necessary: a query that fails is what disagreement 4 is about on Windows, and on launchd
it is read as "not loaded". `OneDriverRuns` does not need it: the
commands of the clients never touch the driver, the host spawns one only in
START_PENDING when it has none, and leaves for STOPPED only without one (`HostOK`).

### Discovery

A probe is answered in three steps, and `addPort` and heartbeats come between them;
`Carries` says what the loop holds after each: at "locals" the copied ports are in the
set, and what is owed is among them or registered; at "filter" what is owed is copied or
still to be looked up, and what is still to be looked up and already copied is in the
set, so it is not copied again. A port that becomes static is owed to no probe under way,
which is why `AnswerComplete` may miss it (`OwedKeeps`). `ExtraFades` is inductive
together with the fact that a switch keeps the row it began with (`LocksOK`).

### Pages

The three scripts have an invariant each, and a step of another leaves it alone. In the
editor at most one check is not stale, and while there is one both buttons are closed
(`FreshCalls`). In the log view `request` is set exactly while a load is not stale, and
that load is the last one begun (`Chain`), so an answer that counts is newer than what is
shown. In the readiness column the cells behind `next` are updated or in the hands of one
task (`CoveredBehind`, `TasksApart`).

### ConfigCheck

The two loops walk the same configuration one after the other, so the invariant says
what either has made of the entries and blocks it is past, in the terms of what the check has
said: `Taken(i, j)` are the numbers it had given when it came to block j of entry i,
`Passes` and `NumberAt` what it then decided. `ToldRight`, `ToldEntries` and `ToldBlocks`
say that what is told is right and complete, `RowsRight`, `RowsEntries` and `RowsBlocks`
the same for start-up. Two facts about the tables tie the loops together (`ServeTables`): the
table of a port holds what the check gave on it so far, whatever servers come between;
and the own table of a scanning entry holds no more than the check's shared one, for which
lemma `NumberStaysWithin` is needed: what is free in the larger table is free in the
smaller one, and the number then taken there is taken in the larger one too.
`EntryType` has entries with at least one block, which is what `subSpecs` returns when it
returns no error (`build.go:34`).

### Only model-checked

Liveness is out of the prover's reach and stays with TLC: `SwitchReturns`,
`StartupCompletes`, `RequestsEnd`, `ReceiveResumes`, `CallsReturn`, `ButtonsReturn`.
`NoSelfConflict`, `RestartsOwn`, `MutexGuardsSet` and `RestartLaunches` are false (the
disagreements above). Every other property of a run is a theorem.

## Not modelled, and the plan

Done: `DeviceNumbers`, `AddressBook`, `Herd`, `Catalogue`, `Discovery`, `Supervisor`
with its three implementations and the Windows host, the pages, `ConfigCheck`; the proof of
every safety property and action property that a passing run checks, and of both
refinements. What is left, in this order:

1. Weaker hypotheses, where a fault defeats a property only for the instance it hits:
   `RowsAreRegistered` and `RunningIsEnabled` for the instances whose Unregister never
   failed, `SwitchIsReal` for instances that no edit moved to another driver.
2. `PortRemembered` for entries that scan with several blocks, whose rows are on
   several servers: what is then persisted.
3. An abstract specification of the switch that `Herd` and `Catalogue` both refine.

Parts of modelled components that are left out: hosts without a service manager;
inline entries in `Herd` and `Catalogue`; `Uninstall`, which nothing calls, and `Logs`
of the back-ends; reload over HTTP (`orchestrator.reload` has no caller); the relay
of probes to other hosts and the joining of multicast groups; which logs the server
lets a page read (`log_page.go`); the label that a readiness probe shows.

Left out for good: rendering, the JSON text surgery (`deviceEnableText`,
`editorJSON`) beyond its effect, `listen.go` (a pure function used once),
build scripts, and the drivers and the goalpaca library, whose sources are
elsewhere.
