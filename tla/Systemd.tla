------------------------------ MODULE Systemd ------------------------------
(***************************************************************************)
(* systemdSupervisor (hurd/supervisor_systemd.go) over the jobs of         *)
(* systemd.  A unit has at most one job: a contrary one cancels it and     *)
(* fails the systemctl that waits for it, an agreeing one joins it.        *)
(***************************************************************************)
EXTENDS ServiceCalls

Templates == {"missing", "stale", "good"}

Init ==
    /\ sm \in [template : Templates, boot : BOOLEAN, unit : {"dead"},
               job : {"none"}, launches : {FALSE}]
    /\ call = [c \in Clients |-> Quiet]

Jobs == {"start", "stop", "restart"}
First(op) == CASE op = "install" -> "cat"
               [] op \in Jobs -> "job"
               [] op \in {"enable", "disable"} -> "switch"

Calls(c) ==
    /\ \E op \in Jobs \union {"install", "enable", "disable"} : Asks(c, op, First(op))
    /\ UNCHANGED sm

\* Install looks at the template that the package installed, then reloads systemd.
CatTemplate(c) ==
    /\ At(c, "cat")
    /\ \/ Runs(c) /\ sm.template = "good" /\ Goes(c, "reload") /\ UNCHANGED sm
       \/ sm.template # "good" /\ Goes(c, "error") /\ UNCHANGED sm
       \/ Fails(c, "command")
DaemonReload(c) ==
    /\ At(c, "reload")
    /\ \/ Runs(c) /\ Goes(c, "ok") /\ UNCHANGED sm
       \/ Fails(c, "command")

Joined(job, op) == IF "restart" \in {job, op} THEN "restart" ELSE op
Contrary(job, op) == job # "none" /\ (job = "stop") # (op = "stop")
\* The calls of requests that wait for a job.
Waiting == {c \in Clients : At(c, "wait")}
Released(d, at) == [c \in Clients |-> IF c \in d THEN Moved(call[c], at) ELSE call[c]]

\* systemctl start, stop and restart queue a job and wait for it.
Queue(c) ==
    LET op == call[c].op  cancels == Contrary(sm.job, op) IN
    /\ At(c, "job")
    /\ \/ /\ Runs(c) /\ sm.template # "missing"
          /\ sm' = [sm EXCEPT !.job = IF cancels THEN op ELSE Joined(@, op)]
          /\ call' = [Released(IF cancels THEN Waiting ELSE {}, "error") EXCEPT ![c].at = "wait"]
       \/ sm.template = "missing" /\ Goes(c, "error") /\ UNCHANGED sm
       \/ Fails(c, "command")
\* A systemctl that is killed leaves its job behind.
\* Seeded bug: commands are run without the context.
NeverAbandons(c) == At(c, "wait") /\ FALSE /\ UNCHANGED <<call, sm>>
Abandons(c) ==
    /\ At(c, "wait") /\ call[c].gone
    /\ Goes(c, "error") /\ UNCHANGED sm

Launched(m) == [m EXCEPT !.unit = "up", !.launches = ~ @]
Done(m) ==
    CASE m.job = "stop" -> [m EXCEPT !.unit = "dead"]
      [] m.job = "start" /\ m.unit = "up" -> m
      [] OTHER -> Launched(m)
JobEnds ==
    /\ sm.job # "none"
    /\ \/ sm' = [Done(sm) EXCEPT !.job = "none"] /\ call' = Released(Waiting, "ok")
       \/ /\ sm' = [sm EXCEPT !.job = "none", !.unit = IF sm.job = "start" THEN @ ELSE "dead"]
          /\ "command" \in Faults /\ call' = Released(Waiting, "error")

SetBoot(c) ==
    /\ At(c, "switch")
    /\ \/ /\ Runs(c) /\ sm.template # "missing"
          /\ sm' = [sm EXCEPT !.boot = call[c].op = "enable"] /\ Goes(c, "ok")
       \/ sm.template = "missing" /\ Goes(c, "error") /\ UNCHANGED sm
       \/ Fails(c, "command")

\* Restart=on-failure: a driver that fails is started again; one that ends with
\* success, or with the status that asks for a new configuration, is not.
Exits ==
    /\ sm.unit = "up"
    /\ \E u \in {"dead", "retry"} : sm' = [sm EXCEPT !.unit = u]
    /\ UNCHANGED call
Retries ==
    /\ sm.unit = "retry"
    /\ sm' = Launched(sm)
    /\ UNCHANGED call
Reboots ==
    /\ sm' = [sm EXCEPT !.job = "none",
                        !.unit = IF sm.boot /\ sm.template # "missing" THEN "retry" ELSE "dead"]
    /\ NoCalls

Steps(c) ==
    CatTemplate(c) \/ DaemonReload(c) \/ Queue(c) \/ Abandons(c) \/ SetBoot(c) \/ Returns(c)
Next ==
    \/ \E c \in Clients : Calls(c) \/ Steps(c) \/ Leaves(c)
    \/ JobEnds \/ Exits \/ Retries \/ Reboots

Installed == sm.template # "missing"
BootSwitch == sm.boot
Life == CASE sm.unit = "up" -> "up" [] sm.unit = "retry" -> "between" [] OTHER -> "down"
=============================================================================
