---------------------------- MODULE Supervisor ----------------------------
(***************************************************************************)
(* What the interface Supervisor (hurd/supervisor.go) promises its callers *)
(* about one instance, whichever service manager implements it: who may    *)
(* change what, and what an operation that returns nil has brought about.  *)
(*                                                                         *)
(* An operation takes effect at some moment between its call and its       *)
(* return: met[c] says that what c asked for has held since it called.     *)
(***************************************************************************)
CONSTANTS Clients

VARIABLES
    installed,  \* the instance is registered with the service manager
    boot,       \* it starts at boot once it is registered
    life,       \* "up": a driver runs; "down": none runs and none will; "between"
    launches,   \* the parity of the number of launches
    asked,      \* what each client has called, "none" if nothing
    answer,     \* what the call returned: "none" yet, "ok" or "error"
    gone,       \* clients whose request ended before their call
    queued,     \* operations the service manager has taken on and not carried out
    met         \* the effect has held during a call that has not returned

vars == <<installed, boot, life, launches, asked, answer, gone, queued, met>>

Ops == {"install", "start", "stop", "restart", "enable", "disable"}

Init ==
    /\ life = "down" /\ launches = FALSE
    /\ installed \in BOOLEAN /\ boot \in BOOLEAN
    /\ asked = [c \in Clients |-> "none"] /\ answer = [c \in Clients |-> "none"]
    /\ gone = {} /\ queued = {}
    /\ met = [c \in Clients |-> FALSE]

\* A call of op is under way, or its job is although the call gave up on it.
Wanted(op) == op \in queued \/ \E c \in Clients : asked[c] = op

\* What op promises, in the state reached and for what happened on the way to it.
Effect(op) ==
    CASE op = "install" -> installed'
      [] op = "enable"  -> boot'
      [] op = "disable" -> ~ boot'
      [] op = "start"   -> life' # "down"
      [] op = "stop"    -> life' # "up"
      [] op = "restart" -> launches' # launches
      [] OTHER          -> FALSE

Remembers ==
    met' = [c \in Clients |-> /\ asked'[c] # "none" /\ answer'[c] = "none"
                              /\ met[c] \/ Effect(asked'[c])]

\* Install registers and does not start; only Enable and Disable set the boot switch.
RegistrationStep ==
    /\ installed' # installed => Wanted("install") /\ installed'
    /\ boot' # boot => Wanted(IF boot' THEN "enable" ELSE "disable")

\* A driver is launched because someone asked for it, or again after it ended by
\* itself; a running one is replaced only by a Restart.
LifeStep ==
    /\ life = "down" /\ life' # "down" => Wanted("start") \/ Wanted("restart")
    /\ launches' # launches =>
         /\ life' # "down"
         /\ life = "up" => Wanted("restart")
         /\ Wanted("start") \/ Wanted("restart") \/ life = "between"

\* A call returns nil only when its effect has held since it was made.
CallStep(c) ==
    \/ asked'[c] = asked[c] /\ answer'[c] = answer[c]
    \/ asked[c] = "none" /\ asked'[c] \in Ops /\ answer'[c] = "none"
    \/ /\ asked'[c] = asked[c] /\ answer[c] = "none" /\ answer'[c] \in {"ok", "error"}
       /\ answer'[c] = "ok" => met[c] \/ Effect(asked[c]) \/ c \in gone
    \/ answer[c] # "none" /\ asked'[c] = "none" /\ answer'[c] = "none"

QueueStep == \A op \in queued' \ queued : \E c \in Clients : asked[c] = op

\* After a boot nothing is pending, and the driver runs if it is to start at boot.
Reboot ==
    /\ UNCHANGED <<installed, boot>>
    /\ life' = (IF installed /\ boot THEN "between" ELSE "down")
    /\ \A c \in Clients : asked'[c] = "none" /\ answer'[c] = "none" /\ ~ met'[c]
    /\ gone' = {} /\ queued' = {}

Next ==
    \/ RegistrationStep /\ LifeStep /\ QueueStep /\ Remembers /\ \A c \in Clients : CallStep(c)
    \/ Reboot

Spec == Init /\ [][Next]_vars
=============================================================================
