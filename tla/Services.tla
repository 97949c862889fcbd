------------------------------ MODULE Services ------------------------------
(***************************************************************************)
(* The Supervisor that platformSupervisor (hurd/supervisor_exec.go) picks  *)
(* for the host, with every client's calls observed: met[c] is TRUE once   *)
(* what c asked for has held since it called.                              *)
(***************************************************************************)
CONSTANTS
    Clients, Faults,  \* as in ServiceCalls
    Platforms         \* the platforms of this instance

ASSUME FaultsKnown == Faults \subseteq {"command", "query", "leave"}
ASSUME PlatformsKnown == Platforms \subseteq {"systemd", "launchd", "scm"}

VARIABLES platform, sm, call, met
vars == <<platform, sm, call, met>>

SD == INSTANCE Systemd
LD == INSTANCE Launchd
WS == INSTANCE Scm

Choose(systemd, launchd, scm) ==
    CASE platform = "systemd" -> systemd
      [] platform = "launchd" -> launchd
      [] platform = "scm" -> scm

Asked(c) == call[c].op
Answer(c) == IF call[c].at \in {"ok", "error"} THEN call[c].at ELSE "none"

Life == Choose(SD!Life, LD!Life, WS!Life)

Sup == INSTANCE Supervisor WITH
    installed <- Choose(SD!Installed, LD!Installed, WS!Installed),
    boot      <- Choose(SD!BootSwitch, LD!BootSwitch, WS!BootSwitch),
    life      <- Life,
    launches  <- sm.launches,
    asked     <- [c \in Clients |-> Asked(c)],
    answer    <- [c \in Clients |-> Answer(c)],
    gone      <- {c \in Clients : call[c].gone},
    queued    <- IF platform = "systemd" THEN {sm.job} \ {"none"} ELSE {}

Init ==
    /\ platform \in Platforms
    /\ \/ platform = "systemd" /\ SD!Init
       \/ platform = "launchd" /\ LD!Init
       \/ platform = "scm" /\ WS!Init
    /\ met = [c \in Clients |-> FALSE]

Manages ==
    \/ platform = "systemd" /\ SD!Next
    \/ platform = "launchd" /\ LD!Next
    \/ platform = "scm" /\ WS!Next

Next == Manages /\ UNCHANGED platform /\ Sup!Remembers

\* Commands return, and a request's context ends (hurd/orchestrator_page.go:300);
\* nothing is assumed of the service managers.
Steps(c) ==
    \/ platform = "systemd" /\ SD!Steps(c)
    \/ platform = "launchd" /\ LD!Steps(c)
    \/ platform = "scm" /\ WS!Steps(c)
Spec == Init /\ [][Next]_vars
FairSpec ==
    /\ Spec
    /\ \A c \in Clients : WF_call(Steps(c) \/ SD!Leaves(c))

-----------------------------------------------------------------------------
\* Each service manager's back-end keeps the promise of the interface, however the
\* calls of several requests interleave, whatever fails, and whatever drivers and
\* the manager do by themselves (hurd/supervisor.go:9-27).
SupervisorSpec == Sup!Spec

Answers(c, op) == Asked(c) = op /\ Answer(c) = "none" /\ Answer(c)' = "ok"

\* A driver that Stop has stopped is not brought back by the manager: systemctl stop
\* and launchctl bootout also take back the retry after a failure
\* (hurd/supervisor_launchd.go:130).  On Windows a restart that recovery has scheduled
\* survives the stop (error 1062), and only the launch can refuse it.
StopSticks ==
    [][\A c \in Clients :
        Answers(c, "stop") /\ ~ call[c].gone /\ platform # "scm" => Life' = "down"]_vars

\* At most one driver of an instance runs, and none outlives the service that hosts
\* it: the host reports that it stopped only after the driver it killed has ended
\* (hurd/launch_windows.go:81-86).
OneDriver ==
    platform = "scm" =>
        /\ sm.drivers \in {0, 1}
        /\ sm.state \in {"absent", "STOPPED"} => sm.drivers = 0

\* Every call returns: a command that hangs is killed with the request's context
\* (hurd/supervisor_exec.go:16), and the wait for a Windows service to stop is
\* bounded (hurd/supervisor_scm.go:89).
CallsReturn == \A c \in Clients : Asked(c) # "none" ~> Asked(c) = "none"

\* A Restart that reports success has launched the driver anew.  hurd/supervisor_scm.go:88
\* says "Wait for asynchronous Stop to finish before Restart calls Start"; the wait
\* also ends when the status cannot be read.
RestartLaunches == [][\A c \in Clients : Answers(c, "restart") => met[c] \/ Sup!Effect("restart")]_vars
=============================================================================
