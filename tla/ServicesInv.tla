---------------------------- MODULE ServicesInv ----------------------------
(***************************************************************************)
(* The inductive invariants behind the theorems of ServicesProofs: what    *)
(* each service manager's record keeps, and what a call that has not       *)
(* returned may rely on at its next command.                               *)
(***************************************************************************)
EXTENDS Services

NoQueryError == "query" \notin Faults

Points == {"none", "ok", "error", "cat", "reload", "job", "wait", "switch",
           "plist", "stat", "print", "stat2", "print2", "kickstart", "bootstrap", "kill",
           "bootout", "override",
           "qc", "binPath", "create", "describe", "recover", "start", "stop", "poll", "type"}
CallRec == [op : Sup!Ops \union {"none"}, at : Points, gone : BOOLEAN]
CallType == call \in [Clients -> CallRec] /\ met \in [Clients -> BOOLEAN]

\* Whose command p is.
Serves(c, p, ops) == call[c].at \in p => call[c].op \in ops

-----------------------------------------------------------------------------
(* systemd: a call waits for a job that does what it asked for.             *)
UnitOK == sm \in [template : SD!Templates, boot : BOOLEAN, unit : {"dead", "up", "retry"},
                  job : {"none"} \union SD!Jobs, launches : BOOLEAN]
WaitsForItsJob(c) ==
    call[c].at = "wait" =>
        /\ sm.job # "none"
        /\ call[c].op = "stop" <=> sm.job = "stop"
        /\ call[c].op = "restart" => sm.job = "restart"
SystemdCall(c) ==
    /\ Serves(c, {"cat", "reload"}, {"install"})
    /\ Serves(c, {"job", "wait"}, SD!Jobs)
    /\ Serves(c, {"switch"}, {"enable", "disable"})
    /\ call[c].at = "reload" => sm.template = "good"
    /\ WaitsForItsJob(c)

-----------------------------------------------------------------------------
(* launchd: only a loaded job runs, so a Restart that found the job not     *)
(* loaded and finds it loaded later has seen it launched.                   *)
JobOK == /\ sm \in [plist : BOOLEAN, loaded : BOOLEAN, run : {"off", "up", "retry"},
                    disabled : BOOLEAN, launches : BOOLEAN]
         /\ sm.run # "off" => sm.loaded
RestartSeesLaunch(c) ==
    call[c].op = "restart" /\ call[c].at \in {"stat2", "print2", "kickstart", "bootstrap"}
        /\ ~ call[c].gone => met[c] \/ ~ sm.loaded
LaunchdCall(c) ==
    /\ Serves(c, {"plist"}, {"install"})
    /\ Serves(c, {"stat"}, {"start"})
    /\ Serves(c, {"print"}, {"start", "stop", "restart"})
    /\ Serves(c, {"stat2", "print2", "kill"}, {"restart"})
    /\ Serves(c, {"kickstart", "bootstrap"}, {"start", "restart"})
    /\ Serves(c, {"bootout"}, {"stop"})
    /\ Serves(c, {"override"}, {"enable", "disable"})
    /\ RestartSeesLaunch(c)

-----------------------------------------------------------------------------
(* The SCM: no driver runs while the service is stopped or has no process,   *)
(* and a service that is no longer going down has been stopped.              *)
Record == [state : WS!States, auto : BOOLEAN, recovery : BOOLEAN, due : BOOLEAN,
           stop : BOOLEAN, drivers : {0, 1}, launches : BOOLEAN]
HostOK(m) == m \in Record /\ (m.state \in {"absent", "STOPPED"} => m.drivers = 0)
StopSeen(c) ==
    /\ call[c].at = "poll" /\ ~ call[c].gone =>
          \/ sm.state \in {"RUNNING", "STOP_PENDING"}
          \/ met[c]
          \/ call[c].op = "restart" /\ sm.state = "STOPPED"
    /\ call[c].at = "start" /\ call[c].op = "restart" /\ ~ call[c].gone =>
          met[c] \/ sm.state = "STOPPED"
ScmCall(c) ==
    /\ Serves(c, {"qc", "binPath", "create", "describe", "recover"}, {"install"})
    /\ Serves(c, {"start"}, {"start", "restart"})
    /\ Serves(c, {"stop", "poll"}, {"stop", "restart"})
    /\ Serves(c, {"type"}, {"enable", "disable"})
    /\ call[c].at = "poll" => sm.state # "absent"
    /\ StopSeen(c)

-----------------------------------------------------------------------------
IInv ==
    /\ platform \in {"systemd", "launchd", "scm"}
    /\ CallType
    /\ platform = "systemd" => UnitOK /\ \A c \in Clients : SystemdCall(c)
    /\ platform = "launchd" => JobOK /\ \A c \in Clients : LaunchdCall(c)
    /\ platform = "scm" => HostOK(sm) /\ \A c \in Clients : ScmCall(c)
=============================================================================
