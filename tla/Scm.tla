-------------------------------- MODULE Scm --------------------------------
(***************************************************************************)
(* scmSupervisor (hurd/supervisor_scm.go) over the Windows service control *)
(* manager, and the service process itself, driverHost.Execute             *)
(* (hurd/launch_windows.go), which runs the driver as its child.           *)
(***************************************************************************)
EXTENDS ServiceCalls, Naturals

States == {"absent", "STOPPED", "START_PENDING", "RUNNING", "STOP_PENDING"}

\* recovery: restart on failure is configured; due: such a restart is scheduled;
\* stop: a stop request waits in the host's channel; drivers: children that run.
Init ==
    /\ sm \in [state : {"absent", "STOPPED"}, auto : BOOLEAN, recovery : {TRUE},
               due : {FALSE}, stop : {FALSE}, drivers : {0}, launches : {FALSE}]
    /\ call = [c \in Clients |-> Quiet]

First(op) == CASE op = "install" -> "qc"
               [] op = "start" -> "start"
               [] op \in {"stop", "restart"} -> "stop"
               [] op \in {"enable", "disable"} -> "type"

Calls(c) ==
    /\ \E op \in {"install", "start", "stop", "restart", "enable", "disable"} :
        Asks(c, op, First(op))
    /\ UNCHANGED sm

Exists == sm.state # "absent"
Commands(c, p, ok, effect) ==
    /\ At(c, p)
    /\ \/ Runs(c) /\ Exists /\ Goes(c, ok) /\ sm' = effect
       \/ ~ Exists /\ Goes(c, "error") /\ UNCHANGED sm
       \/ Fails(c, "command")

\* Install: any failure of the query means that the service has to be created.
QueryConfig(c) ==
    /\ At(c, "qc")
    /\ \/ Runs(c) /\ Goes(c, IF Exists THEN "binPath" ELSE "create")
       \/ MayFail(c, "query") /\ Goes(c, "create")
    /\ UNCHANGED sm
SetBinPath(c) == Commands(c, "binPath", "ok", sm)
Create(c) ==
    /\ At(c, "create")
    /\ \/ /\ Runs(c) /\ ~ Exists /\ Goes(c, "describe")
          /\ sm' = [sm EXCEPT !.state = "STOPPED", !.auto = TRUE, !.recovery = FALSE]
       \/ Exists /\ Goes(c, "error") /\ UNCHANGED sm
       \/ Fails(c, "command")
Describe(c) == Commands(c, "describe", "recover", sm)
SetRecovery(c) == Commands(c, "recover", "ok", [sm EXCEPT !.recovery = TRUE])

\* Error 1056, the service is not stopped, passes for success.
Starting(m) == [m EXCEPT !.state = "START_PENDING", !.launches = ~ @, !.due = FALSE]
StartService(c) ==
    Commands(c, "start", "ok", IF sm.state = "STOPPED" THEN Starting(sm) ELSE sm)

\* Error 1062, the service is not started, passes for success.
AfterStop(c) == IF call[c].op = "restart" THEN "start" ELSE "ok"
StopService(c) ==
    /\ At(c, "stop")
    /\ \/ Runs(c) /\ sm.state = "STOPPED" /\ Goes(c, AfterStop(c)) /\ UNCHANGED sm
       \/ /\ Runs(c) /\ sm.state = "RUNNING" /\ Goes(c, "poll")
          /\ sm' = [sm EXCEPT !.stop = TRUE]
       \/ /\ sm.state \in {"absent", "START_PENDING", "STOP_PENDING"}
          /\ Goes(c, "error") /\ UNCHANGED sm
       \/ Fails(c, "command")
\* The wait for the stop ends when the status is another one or has an error.
PollStopped(c) ==
    /\ At(c, "poll")
    /\ \/ Runs(c) /\ sm.state \notin {"RUNNING", "STOP_PENDING"}
       \/ MayFail(c, "query")
    /\ Goes(c, AfterStop(c)) /\ UNCHANGED sm
PollTimesOut(c) ==
    /\ At(c, "poll")
    /\ Goes(c, "error") /\ UNCHANGED sm

SetStartType(c) ==
    Commands(c, "type", "ok", [sm EXCEPT !.auto = call[c].op = "enable"])

-----------------------------------------------------------------------------
(* driverHost.Execute and the manager's part in it.                         *)

Host(m) == sm' = m /\ UNCHANGED call
Stopped(m, failed) ==
    [m EXCEPT !.state = "STOPPED", !.stop = FALSE, !.due = failed /\ m.recovery]

\* The log file or the driver cannot be opened, or the launch refuses the instance.
HostFails ==
    /\ sm.state = "START_PENDING" /\ sm.drivers = 0
    /\ Host(Stopped(sm, TRUE))
HostSpawns ==
    /\ sm.state = "START_PENDING" /\ sm.drivers = 0
    /\ Host([sm EXCEPT !.drivers = @ + 1])
HostReports ==
    /\ sm.state = "START_PENDING" /\ sm.drivers > 0
    /\ Host([sm EXCEPT !.state = "RUNNING"])
DriverExits ==
    /\ sm.state = "RUNNING" /\ sm.drivers > 0
    /\ Host([sm EXCEPT !.drivers = @ - 1])
\* The select takes whichever is ready: the driver's end ...
HostSeesExit ==
    /\ sm.state = "RUNNING" /\ sm.drivers = 0
    /\ Host(Stopped(sm, TRUE))
\* ... or the stop request; the host kills the driver and waits for its end.
HostTakesStop ==
    /\ sm.state = "RUNNING" /\ sm.stop
    /\ Host([sm EXCEPT !.state = "STOP_PENDING", !.stop = FALSE])
KillEnds ==
    /\ sm.state = "STOP_PENDING" /\ sm.drivers > 0
    /\ Host([sm EXCEPT !.drivers = @ - 1])
\* Seeded bug: the host reports that it stopped without waiting for the driver.
HostStopsEarly ==
    /\ sm.state = "STOP_PENDING"
    /\ Host(Stopped(sm, FALSE))
HostStops ==
    /\ sm.state = "STOP_PENDING" /\ sm.drivers = 0
    /\ Host(Stopped(sm, FALSE))

\* The scheduled restart; a stop in the meantime does not take it back.
Recovers ==
    /\ sm.due
    /\ Host(IF sm.state = "STOPPED" THEN Starting(sm) ELSE [sm EXCEPT !.due = FALSE])
Reboots ==
    /\ sm' = [sm EXCEPT !.state = IF sm.auto /\ Exists THEN "START_PENDING"
                                  ELSE IF Exists THEN "STOPPED" ELSE "absent",
                        !.due = FALSE, !.stop = FALSE, !.drivers = 0]
    /\ NoCalls

Steps(c) ==
    \/ QueryConfig(c) \/ SetBinPath(c) \/ Create(c) \/ Describe(c) \/ SetRecovery(c)
    \/ StartService(c) \/ StopService(c) \/ PollStopped(c) \/ PollTimesOut(c)
    \/ SetStartType(c) \/ Returns(c)
HostSteps ==
    \/ HostFails \/ HostSpawns \/ HostReports \/ DriverExits \/ HostSeesExit
    \/ HostTakesStop \/ KillEnds \/ HostStops
Next ==
    \/ \E c \in Clients : Calls(c) \/ Steps(c) \/ Leaves(c)
    \/ HostSteps \/ Recovers \/ Reboots

Installed == Exists
BootSwitch == ~ Exists \/ sm.auto
Life == CASE sm.drivers > 0 -> "up"
          [] sm.drivers = 0 /\ sm.state \in {"absent", "STOPPED"} /\ ~ sm.due -> "down"
          [] OTHER -> "between"
=============================================================================
