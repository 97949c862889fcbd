------------------------------ MODULE Launchd ------------------------------
(***************************************************************************)
(* launchdSupervisor (hurd/supervisor_launchd.go) over launchd: the job's  *)
(* plist, whether launchd has loaded the job from it, whether the job      *)
(* runs, and the override that keeps a job from being loaded.              *)
(***************************************************************************)
EXTENDS ServiceCalls

Init ==
    /\ sm \in [plist : BOOLEAN, loaded : {FALSE}, run : {"off"},
               disabled : BOOLEAN, launches : {FALSE}]
    /\ call = [c \in Clients |-> Quiet]

First(op) == CASE op = "install" -> "plist"
               [] op = "start" -> "stat"
               [] op \in {"stop", "restart"} -> "print"
               [] op \in {"enable", "disable"} -> "override"

Calls(c) ==
    /\ \E op \in {"install", "start", "stop", "restart", "enable", "disable"} :
        Asks(c, op, First(op))
    /\ UNCHANGED sm

\* Install writes the plist if there is none or a different one; it runs no command.
WritePlist(c) ==
    /\ At(c, "plist")
    /\ \/ sm' = [sm EXCEPT !.plist = TRUE] /\ Goes(c, "ok")
       \/ "command" \in Faults /\ Goes(c, "error") /\ UNCHANGED sm

\* Start needs the plist.
StatPlist(c) ==
    /\ At(c, "stat")
    /\ Goes(c, IF sm.plist THEN "print" ELSE "error")
    /\ UNCHANGED sm

\* loaded: any failure of launchctl print means that the job is not loaded.
Loaded(c, yes, no) ==
    /\ \/ Runs(c) /\ sm.loaded /\ Goes(c, yes)
       \/ Runs(c) /\ ~ sm.loaded /\ Goes(c, no)
       \/ MayFail(c, "query") /\ Goes(c, no)
    /\ UNCHANGED sm
PrintJob(c) ==
    /\ At(c, "print")
    /\ CASE call[c].op = "start" -> Loaded(c, "kickstart", "bootstrap")
         [] call[c].op = "stop" -> Loaded(c, "bootout", "ok")
         [] call[c].op = "restart" -> Loaded(c, "kill", "stat2")
\* Restart of a job that is not loaded is Start, which looks again.
StatAgain(c) ==
    /\ At(c, "stat2")
    /\ Goes(c, IF sm.plist THEN "print2" ELSE "error")
    /\ UNCHANGED sm
PrintAgain(c) == At(c, "print2") /\ Loaded(c, "kickstart", "bootstrap")

Launched(m) == [m EXCEPT !.run = "up", !.launches = ~ @]
Refuses(c, refused) ==
    \/ refused /\ Goes(c, "error") /\ UNCHANGED sm
    \/ Fails(c, "command")

\* bootstrap loads the plist and runs the job, RunAtLoad.
Bootstrap(c) ==
    LET refused == sm.loaded \/ ~ sm.plist \/ sm.disabled IN
    /\ At(c, "bootstrap")
    /\ \/ /\ Runs(c) /\ ~ refused /\ Goes(c, "ok")
          /\ sm' = [Launched(sm) EXCEPT !.loaded = TRUE]
       \/ Refuses(c, refused)
\* kickstart runs a loaded job that does not run; -k ends the one that runs first.
Kickstart(c) ==
    /\ At(c, "kickstart")
    /\ \/ /\ Runs(c) /\ sm.loaded /\ Goes(c, "ok")
          /\ sm' = IF sm.run = "up" THEN sm ELSE Launched(sm)
       \/ Refuses(c, ~ sm.loaded)
\* Seeded bug: kickstart without -k.
KickstartOnly(c) ==
    /\ At(c, "kill")
    /\ \/ /\ Runs(c) /\ sm.loaded /\ Goes(c, "ok")
          /\ sm' = IF sm.run = "up" THEN sm ELSE Launched(sm)
       \/ Refuses(c, ~ sm.loaded)
KickstartKill(c) ==
    /\ At(c, "kill")
    /\ \/ Runs(c) /\ sm.loaded /\ Goes(c, "ok") /\ sm' = Launched(sm)
       \/ Refuses(c, ~ sm.loaded)
\* bootout ends the job and forgets it, so KeepAlive does not bring it back.
\* Seeded bug: launchctl kill, which leaves the job loaded.
KillJob(c) ==
    /\ At(c, "bootout")
    /\ \/ /\ Runs(c) /\ sm.loaded /\ Goes(c, "ok")
          /\ sm' = [sm EXCEPT !.run = IF @ = "up" THEN "retry" ELSE @]
       \/ Refuses(c, ~ sm.loaded)
Bootout(c) ==
    /\ At(c, "bootout")
    /\ \/ /\ Runs(c) /\ sm.loaded /\ Goes(c, "ok")
          /\ sm' = [sm EXCEPT !.loaded = FALSE, !.run = "off"]
       \/ Refuses(c, ~ sm.loaded)

SetOverride(c) ==
    /\ At(c, "override")
    /\ \/ Runs(c) /\ Goes(c, "ok") /\ sm' = [sm EXCEPT !.disabled = call[c].op = "disable"]
       \/ Fails(c, "command")

\* KeepAlive with SuccessfulExit false.
Exits ==
    /\ sm.run = "up"
    /\ \E r \in {"off", "retry"} : sm' = [sm EXCEPT !.run = r]
    /\ UNCHANGED call
Retries ==
    /\ sm.run = "retry"
    /\ sm' = Launched(sm)
    /\ UNCHANGED call
Reboots ==
    LET loads == sm.plist /\ ~ sm.disabled IN
    /\ sm' = [sm EXCEPT !.loaded = loads,
                        !.run = IF loads THEN "retry" ELSE "off"]
    /\ NoCalls

Steps(c) ==
    \/ WritePlist(c) \/ StatPlist(c) \/ PrintJob(c) \/ StatAgain(c) \/ PrintAgain(c)
    \/ Bootstrap(c) \/ Kickstart(c) \/ KickstartKill(c) \/ Bootout(c) \/ SetOverride(c)
    \/ Returns(c)
Next ==
    \/ \E c \in Clients : Calls(c) \/ Steps(c) \/ Leaves(c)
    \/ Exits \/ Retries \/ Reboots

Installed == sm.plist
BootSwitch == ~ sm.disabled
Life == CASE sm.run = "up" -> "up" [] sm.run = "retry" -> "between" [] OTHER -> "down"
=============================================================================
