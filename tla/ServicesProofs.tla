--------------------------- MODULE ServicesProofs ---------------------------
(***************************************************************************)
(* Proofs about the back-ends and the service managers: what each of them  *)
(* promises through Supervisor, that a Stop sticks, and that the Windows   *)
(* service host runs at most one driver, for any number of overlapping     *)
(* calls.  A manager's part has a view lemma (what Supervisor sees of its  *)
(* record) and a lemma for each kind of step; the invariants are those of  *)
(* ServicesInv.                                                            *)
(***************************************************************************)
EXTENDS ServicesInv, Integers, TLAPS

-----------------------------------------------------------------------------
(* Calls, whoever serves them.                                              *)

Advance(c, p) == call' = [call EXCEPT ![c] = SD!Moved(@, p)]

\* A command moves its own call on, and no other.
LEMMA Advanced ==
    ASSUME CallType, NEW c \in Clients, NEW p \in Points, Advance(c, p)
    PROVE  /\ call' \in [Clients -> CallRec]
           /\ call'[c].op = call[c].op /\ call'[c].at = p
           /\ call'[c].gone = (call[c].gone /\ p \notin {"ok", "error"})
           /\ \A d \in Clients : d # c => call'[d] = call[d]
<1>1. call[c] \in CallRec /\ call'[c] = SD!Moved(call[c], p)
  BY DEF CallType, Advance
<1>2. SD!Moved(call[c], p) = [op |-> call[c].op, at |-> p,
                              gone |-> call[c].gone /\ p \notin {"ok", "error"}]
  BY <1>1 DEF SD!Moved, CallRec
<1>3. SD!Moved(call[c], p) \in CallRec
  BY <1>1, <1>2 DEF CallRec
<1> QED BY <1>1, <1>2, <1>3 DEF CallType, Advance

\* The abstract calls when a command moves its call to p.
LEMMA AdvanceIsCallStep ==
    ASSUME CallType, NEW c \in Clients, NEW p \in Points \ {"none"}, Advance(c, p),
           call[c].at \notin {"ok", "error"},
           p = "ok" => met[c] \/ Sup!Effect(call[c].op) \/ call[c].gone
    PROVE  \A d \in Clients : Sup!CallStep(d)
<1> SUFFICES ASSUME NEW d \in Clients PROVE Sup!CallStep(d)
  OBVIOUS
<1>1. CASE d # c
  BY <1>1, Advanced DEF Sup!CallStep, Asked, Answer
<1>2. CASE d = c
  BY <1>2, Advanced DEF Sup!CallStep, Asked, Answer
<1> QED BY <1>1, <1>2

\* Stop is answered only when no driver is left, where that is promised.
Sticks == \A c \in Clients : Answers(c, "stop") /\ ~ call[c].gone => Life' = "down"

LEMMA AdvanceSticks ==
    ASSUME CallType, NEW c \in Clients, NEW p \in Points, Advance(c, p),
           p = "ok" /\ call[c].op = "stop" /\ ~ call[c].gone => Life' = "down"
    PROVE  Sticks
<1> SUFFICES ASSUME NEW d \in Clients, Answers(d, "stop"), ~ call[d].gone PROVE Life' = "down"
  BY DEF Sticks
<1>1. call[d].op = "stop" /\ call[d].at \notin {"ok", "error"} /\ call'[d].at = "ok"
  BY DEF Answers, Asked, Answer
<1> QED BY <1>1, Advanced

LEMMA NobodyAnswered ==
    ASSUME \A d \in Clients : call'[d].at = "ok" => call[d].at = "ok"
    PROVE  Sticks
BY DEF Sticks, Answers, Asked, Answer

LEMMA MetType == ASSUME Sup!Remembers PROVE met' \in [Clients -> BOOLEAN]
BY DEF Sup!Remembers

\* What Remembers says of a client whose call has not returned.
LEMMA MetStep ==
    ASSUME Sup!Remembers, NEW c \in Clients, call'[c].op # "none", call'[c].at \notin {"ok", "error"}
    PROVE  met'[c] <=> met[c] \/ Sup!Effect(call'[c].op)
BY DEF Sup!Remembers, Asked, Answer

LEMMA Begun ==
    ASSUME CallType, NEW c \in Clients, NEW op \in Sup!Ops, NEW p \in Points \ {"none", "ok", "error"},
           SD!Asks(c, op, p)
    PROVE  /\ call' \in [Clients -> CallRec]
           /\ call'[c] = [op |-> op, at |-> p, gone |-> FALSE]
           /\ \A d \in Clients : d # c => call'[d] = call[d]
           /\ \A d \in Clients : Sup!CallStep(d)
<1>1. SD!Quiet = [op |-> "none", at |-> "none", gone |-> FALSE]
  BY DEF SD!Quiet
<1>3. [op |-> op, at |-> p, gone |-> FALSE] \in CallRec
  BY DEF CallRec
<1>4. call' \in [Clients -> CallRec] /\ call'[c] = [op |-> op, at |-> p, gone |-> FALSE]
      /\ \A d \in Clients : d # c => call'[d] = call[d]
  BY <1>3 DEF SD!Asks, CallType
<1>5. ASSUME NEW d \in Clients PROVE Sup!CallStep(d)
  BY <1>1, <1>4 DEF Sup!CallStep, Asked, Answer, SD!Asks
<1> QED BY <1>4, <1>5

LEMMA Returned ==
    ASSUME CallType, NEW c \in Clients, SD!Returns(c)
    PROVE  /\ call' \in [Clients -> CallRec]
           /\ call'[c] = [op |-> "none", at |-> "none", gone |-> FALSE]
           /\ \A d \in Clients : d # c => call'[d] = call[d]
           /\ \A d \in Clients : Sup!CallStep(d)
<1>1. call'[c] = [op |-> "none", at |-> "none", gone |-> FALSE] /\ call'[c] \in CallRec
  BY DEF SD!Returns, SD!Quiet, CallType, CallRec, Points
<1>2. call' \in [Clients -> CallRec] /\ \A d \in Clients : d # c => call'[d] = call[d]
  BY <1>1 DEF SD!Returns, CallType
<1>3. ASSUME NEW d \in Clients PROVE Sup!CallStep(d)
  BY <1>1, <1>2 DEF Sup!CallStep, Asked, Answer, SD!Returns, SD!Answered
<1> QED BY <1>1, <1>2, <1>3

LEMMA Left ==
    ASSUME CallType, NEW c \in Clients, SD!Leaves(c)
    PROVE  /\ call' \in [Clients -> CallRec]
           /\ call'[c].op = call[c].op /\ call'[c].at = call[c].at /\ call'[c].gone
           /\ \A d \in Clients : d # c => call'[d] = call[d]
           /\ \A d \in Clients : Sup!CallStep(d)
<1>1. /\ call' \in [Clients -> CallRec]
      /\ call'[c].op = call[c].op /\ call'[c].at = call[c].at /\ call'[c].gone
      /\ \A d \in Clients : d # c => call'[d] = call[d]
  BY DEF SD!Leaves, CallType, CallRec
<1>2. ASSUME NEW d \in Clients PROVE Sup!CallStep(d)
  BY <1>1 DEF Sup!CallStep, Asked, Answer
<1> QED BY <1>1, <1>2

LEMMA NoneCalls ==
    ASSUME SD!NoCalls
    PROVE  /\ call' \in [Clients -> CallRec]
           /\ \A c \in Clients : call'[c].op = "none" /\ call'[c].at = "none" /\ ~ call'[c].gone
BY DEF SD!NoCalls, SD!Quiet, CallRec, Points

LEMMA SameCalls ==
    ASSUME CallType, call' = call
    PROVE  call' \in [Clients -> CallRec] /\ \A d \in Clients : Sup!CallStep(d)
BY DEF CallType, Sup!CallStep, Asked, Answer

\* A step that leaves the service manager alone.
ManagerSteps == Sup!RegistrationStep /\ Sup!LifeStep /\ Sup!QueueStep
LEMMA ManagerRests ==
    ASSUME platform' = platform, sm' = sm
    PROVE  ManagerSteps
<1>1. Choose(SD!Installed, LD!Installed, WS!Installed)' = Choose(SD!Installed, LD!Installed, WS!Installed)
  BY DEF Choose, SD!Installed, LD!Installed, WS!Installed, WS!Exists
<1>2. Choose(SD!BootSwitch, LD!BootSwitch, WS!BootSwitch)' = Choose(SD!BootSwitch, LD!BootSwitch, WS!BootSwitch)
  BY DEF Choose, SD!BootSwitch, LD!BootSwitch, WS!BootSwitch, WS!Exists
<1>3. Life' = Life
  BY DEF Life, Choose, SD!Life, LD!Life, WS!Life
<1> QED BY <1>1, <1>2, <1>3 DEF ManagerSteps, Sup!RegistrationStep, Sup!LifeStep, Sup!QueueStep

-----------------------------------------------------------------------------
(* systemd.                                                                *)

SystemdNow == IInv /\ platform = "systemd" /\ platform' = platform /\ Sup!Remembers
SystemdThen == CallType' /\ UnitOK' /\ (\A c \in Clients : SystemdCall(c)') /\ Sup!Next /\ Sticks

\* A command that only moves its call on.
LEMMA SystemdMoves ==
    ASSUME SystemdNow, NEW c \in Clients, sm' = sm,
           NEW p \in {"ok", "error", "reload"}, Advance(c, p),
           call[c].at \notin {"ok", "error"}, p = "reload" => call[c].op = "install" /\ sm.template = "good",
           p = "ok" => call[c].at = "reload"
    PROVE  SystemdThen
<1>0. CallType /\ UnitOK /\ \A d \in Clients : SystemdCall(d)
  BY DEF SystemdNow, IInv
<1>1. p \in Points \ {"none"}
  BY DEF Points
<1>2. p = "ok" => Sup!Effect(call[c].op)
  BY <1>0 DEF SystemdNow, SystemdCall, Serves, Sup!Effect, Choose, SD!Installed
<1>3. ManagerSteps
  BY ManagerRests DEF SystemdNow
<1>4. \A d \in Clients : Sup!CallStep(d)
  BY <1>0, <1>1, <1>2, AdvanceIsCallStep
<1>5. UnitOK'
  BY <1>0 DEF UnitOK
<1>6. ASSUME NEW d \in Clients PROVE SystemdCall(d)'
  BY <1>0, <1>1, Advanced DEF SystemdCall, Serves, WaitsForItsJob
<1>7. CallType'
  BY <1>0, <1>1, Advanced, MetType DEF CallType, SystemdNow
<1>8. Sticks
  BY <1>0, <1>1, AdvanceSticks DEF SystemdCall, Serves
<1> QED BY <1>3, <1>4, <1>5, <1>6, <1>7, <1>8 DEF SystemdThen, Sup!Next, ManagerSteps, SystemdNow

LEMMA SystemdCalls ==
    ASSUME SystemdNow, NEW c \in Clients, SD!Calls(c) \/ SD!Returns(c) \/ SD!Leaves(c)
    PROVE  SystemdThen
<1>0. CallType /\ UnitOK /\ \A d \in Clients : SystemdCall(d)
  BY DEF SystemdNow, IInv
<1>1. sm' = sm /\ UnitOK' /\ ManagerSteps
  BY <1>0, ManagerRests DEF SystemdNow, UnitOK, SD!Calls, SD!Returns, SD!Leaves
<1>2. /\ call' \in [Clients -> CallRec]
      /\ \A d \in Clients : Sup!CallStep(d) /\ SystemdCall(d)' /\ (call'[d].at = "ok" => call[d].at = "ok")
  <2>1. CASE SD!Calls(c)
    <3>1. PICK op \in SD!Jobs \union {"install", "enable", "disable"} : SD!Asks(c, op, SD!First(op))
      BY <2>1 DEF SD!Calls
    <3>2. op \in Sup!Ops /\ SD!First(op) \in Points \ {"none", "ok", "error"}
      BY DEF SD!Jobs, Sup!Ops, SD!First, Points
    <3>3. SD!First(op) = CASE op = "install" -> "cat" [] op \in SD!Jobs -> "job"
                           [] op \in {"enable", "disable"} -> "switch"
      BY DEF SD!First
    <3>4. call'[c] = [op |-> op, at |-> SD!First(op), gone |-> FALSE]
      BY <1>0, <3>1, <3>2, Begun
    <3>5. SystemdCall(c)'
      BY <3>1, <3>3, <3>4 DEF SystemdCall, Serves, WaitsForItsJob, SD!Jobs
    <3>6. ASSUME NEW d \in Clients, d # c PROVE SystemdCall(d)'
      BY <1>0, <1>1, <3>1, <3>2, <3>6, Begun DEF SystemdCall, Serves, WaitsForItsJob
    <3>7. ASSUME NEW d \in Clients PROVE call'[d].at = "ok" => call[d].at = "ok"
      BY <1>0, <3>1, <3>2, <3>3, <3>4, Begun
    <3> QED BY <1>0, <3>1, <3>2, <3>5, <3>6, <3>7, Begun
  <2>2. CASE SD!Returns(c)
    BY <1>0, <1>1, <2>2, Returned DEF SystemdCall, Serves, WaitsForItsJob
  <2>3. CASE SD!Leaves(c)
    BY <1>0, <1>1, <2>3, Left DEF SystemdCall, Serves, WaitsForItsJob
  <2> QED BY <2>1, <2>2, <2>3
<1>3. CallType'
  BY <1>2, MetType DEF CallType, SystemdNow
<1> QED BY <1>1, <1>2, <1>3, NobodyAnswered DEF SystemdThen, Sup!Next, ManagerSteps, SystemdNow

LEMMA SystemdCommands ==
    ASSUME SystemdNow, NEW c \in Clients,
           SD!CatTemplate(c) \/ SD!DaemonReload(c) \/ SD!Abandons(c)
    PROVE  SystemdThen
<1>0. SystemdCall(c)
  BY DEF SystemdNow, IInv
<1>1. sm' = sm
  BY DEF SD!CatTemplate, SD!DaemonReload, SD!Abandons, SD!Fails
<1>2. PICK p \in {"ok", "error", "reload"} :
          /\ Advance(c, p) /\ call[c].at \notin {"ok", "error"}
          /\ p = "reload" => call[c].op = "install" /\ sm.template = "good"
          /\ p = "ok" => call[c].at = "reload"
  BY <1>0 DEF SD!CatTemplate, SD!DaemonReload, SD!Abandons, SD!Fails, SD!Goes, Advance, SD!At,
              SystemdCall, Serves
<1> QED BY <1>1, <1>2, SystemdMoves

\* What the calls in a set become when their job has ended or is cancelled.
LEMMA ReleasedCalls ==
    ASSUME CallType, NEW D \in SUBSET Clients, NEW p \in {"ok", "error"},
           \A d \in D : call[d].at \notin {"ok", "error"}
    PROVE  /\ SD!Released(D, p) \in [Clients -> CallRec]
           /\ \A d \in Clients : SD!Released(D, p)[d] =
                 IF d \in D THEN [op |-> call[d].op, at |-> p, gone |-> FALSE] ELSE call[d]
<1>1. ASSUME NEW d \in D
      PROVE  SD!Moved(call[d], p) = [op |-> call[d].op, at |-> p, gone |-> FALSE]
  <2>1. call[d] \in CallRec
    BY DEF CallType
  <2>2. SD!Moved(call[d], p) = [[call[d] EXCEPT !.at = p] EXCEPT !.gone = FALSE]
    BY DEF SD!Moved
  <2> QED BY <2>1, <2>2 DEF CallRec
<1>2. ASSUME NEW d \in D PROVE [op |-> call[d].op, at |-> p, gone |-> FALSE] \in CallRec
  BY DEF CallType, CallRec, Points
<1> QED BY <1>1, <1>2 DEF SD!Released, CallType

LEMMA SystemdQueues ==
    ASSUME SystemdNow, NEW c \in Clients, SD!Queue(c)
    PROVE  SystemdThen
<1> DEFINE op == call[c].op
           cancels == SD!Contrary(sm.job, op)
           D == IF cancels THEN SD!Waiting ELSE {}
<1>0. CallType /\ UnitOK /\ (\A d \in Clients : SystemdCall(d))
  BY DEF SystemdNow, IInv
<1>1. op \in SD!Jobs /\ call[c].at = "job"
  BY <1>0 DEF SD!Queue, SD!At, SystemdCall, Serves
<1>2. CASE sm' = sm /\ SD!Goes(c, "error")
  <2>1. Advance(c, "error")
    BY <1>2 DEF SD!Goes, Advance
  <2> QED BY <1>1, <1>2, <2>1, SystemdMoves
<1>3. CASE /\ sm' = [sm EXCEPT !.job = IF cancels THEN op ELSE SD!Joined(@, op)]
           /\ call' = [SD!Released(D, "error") EXCEPT ![c].at = "wait"]
  <2>1. D \subseteq Clients /\ c \notin D /\ \A d \in D : call[d].at \notin {"ok", "error"}
    BY <1>1 DEF SD!Waiting, SD!At
  <2>2. /\ call' \in [Clients -> CallRec]
        /\ call'[c].op = op /\ call'[c].at = "wait" /\ call'[c].gone = call[c].gone
        /\ \A d \in Clients : d # c => call'[d] =
              IF d \in D THEN [op |-> call[d].op, at |-> "error", gone |-> FALSE] ELSE call[d]
    <3> DEFINE R == SD!Released(D, "error")
    <3>1. /\ R \in [Clients -> CallRec] /\ R[c] = call[c]
          /\ \A d \in Clients : R[d] =
                IF d \in D THEN [op |-> call[d].op, at |-> "error", gone |-> FALSE] ELSE call[d]
      BY <1>0, <2>1, ReleasedCalls
    <3>2. call' = [R EXCEPT ![c].at = "wait"]
      BY <1>3
    <3>3. "wait" \in Points
      BY DEF Points
    <3> HIDE DEF R
    <3> QED BY <3>1, <3>2, <3>3 DEF CallRec
  <2>3. sm'.job = IF cancels THEN op ELSE SD!Joined(sm.job, op)
    BY <1>0, <1>3 DEF UnitOK
  <2>4. UnitOK' /\ sm' = [sm EXCEPT !.job = sm'.job]
    BY <1>0, <1>1, <1>3 DEF UnitOK, SD!Joined, SD!Jobs
  <2>5. sm'.job \in {sm.job, op}
    BY <1>0, <1>1, <2>3 DEF SD!Joined, SD!Jobs, UnitOK
  <2>6. ManagerSteps
    <3>1. Sup!RegistrationStep /\ Sup!LifeStep
      BY <1>0, <2>4 DEF UnitOK, SystemdNow, Sup!RegistrationStep, Sup!LifeStep, Choose, Life,
                        SD!Installed, SD!BootSwitch, SD!Life
    <3>2. Sup!QueueStep
      BY <2>5 DEF Sup!QueueStep, SystemdNow, Asked
    <3> QED BY <3>1, <3>2 DEF ManagerSteps
  <2>7. ASSUME NEW d \in Clients PROVE SystemdCall(d)'
    <3>1. CASE d = c
      BY <1>1, <2>2, <2>3, <3>1 DEF SystemdCall, Serves, WaitsForItsJob, SD!Joined, SD!Contrary, SD!Jobs
    <3>2. CASE d # c /\ d \in D
      BY <2>2, <3>2 DEF SystemdCall, Serves, WaitsForItsJob
    <3>3. CASE d # c /\ d \notin D
      BY <1>0, <1>1, <2>2, <2>3, <2>4, <3>3
         DEF SystemdCall, Serves, WaitsForItsJob, SD!Joined, SD!Contrary, SD!Jobs, SD!Waiting, SD!At, UnitOK
    <3> QED BY <3>1, <3>2, <3>3
  <2>8. ASSUME NEW d \in Clients PROVE Sup!CallStep(d)
    BY <1>1, <2>1, <2>2 DEF Sup!CallStep, Asked, Answer
  <2>9. CallType'
    BY <2>2, MetType DEF CallType, SystemdNow
  <2>10. Sticks
    BY <2>2, NobodyAnswered
  <2> QED BY <2>4, <2>6, <2>7, <2>8, <2>9, <2>10 DEF SystemdThen, Sup!Next, ManagerSteps, SystemdNow
<1> QED BY <1>2, <1>3 DEF SD!Queue, SD!Fails

LEMMA SystemdJobEnds ==
    ASSUME SystemdNow, SD!JobEnds
    PROVE  SystemdThen
<1>0. CallType /\ UnitOK /\ (\A d \in Clients : SystemdCall(d))
  BY DEF SystemdNow, IInv
<1>1. PICK p \in {"ok", "error"} :
        /\ call' = SD!Released(SD!Waiting, p)
        /\ p = "ok" => sm' = [SD!Done(sm) EXCEPT !.job = "none"]
        /\ p = "error" => sm' = [sm EXCEPT !.job = "none", !.unit = IF sm.job = "start" THEN @ ELSE "dead"]
  BY DEF SD!JobEnds
<1>2. /\ call' \in [Clients -> CallRec]
      /\ \A d \in Clients : call'[d] = IF call[d].at = "wait"
            THEN [op |-> call[d].op, at |-> p, gone |-> FALSE] ELSE call[d]
  <2>1. SD!Waiting \subseteq Clients /\ \A d \in Clients : d \in SD!Waiting <=> call[d].at = "wait"
    BY DEF SD!Waiting, SD!At
  <2> QED BY <1>0, <1>1, <2>1, ReleasedCalls
<1>3. /\ UnitOK' /\ sm'.template = sm.template /\ sm'.boot = sm.boot /\ sm'.job = "none"
      /\ sm.job \in SD!Jobs
      /\ p = "ok" => /\ sm.job = "stop" => sm'.unit = "dead" /\ sm'.launches = sm.launches
                     /\ sm.job = "start" => /\ sm'.unit = "up"
                                            /\ sm.unit = "up" <=> sm'.launches = sm.launches
                     /\ sm.job = "restart" => sm'.unit = "up" /\ sm'.launches # sm.launches
      /\ p = "error" => sm'.unit \in {sm.unit, "dead"} /\ sm'.launches = sm.launches
  <2>1. CASE p = "error"
    BY <1>0, <1>1, <2>1 DEF UnitOK, SD!JobEnds
  <2>2. CASE p = "ok"
    <3>1. SD!Done(sm) = IF sm.job = "stop" THEN [sm EXCEPT !.unit = "dead"]
                        ELSE IF sm.job = "start" /\ sm.unit = "up" THEN sm
                        ELSE [sm EXCEPT !.unit = "up", !.launches = ~ @]
      BY DEF SD!Done, SD!Launched
    <3>2. sm.job \in SD!Jobs
      BY <1>0 DEF UnitOK, SD!JobEnds
    <3>3. CASE sm.job = "stop"
      <4>1. sm' = [[sm EXCEPT !.unit = "dead"] EXCEPT !.job = "none"]
        BY <1>1, <2>2, <3>1, <3>3
      <4> QED BY <1>0, <2>2, <3>3, <4>1 DEF UnitOK, SD!Jobs
    <3>4. CASE sm.job = "start" /\ sm.unit = "up"
      <4>1. sm' = [sm EXCEPT !.job = "none"]
        BY <1>1, <2>2, <3>1, <3>4
      <4> QED BY <1>0, <2>2, <3>4, <4>1 DEF UnitOK, SD!Jobs
    <3>5. CASE sm.job = "restart" \/ (sm.job = "start" /\ sm.unit # "up")
      <4>1. sm' = [[sm EXCEPT !.unit = "up", !.launches = ~ @] EXCEPT !.job = "none"]
        BY <1>1, <2>2, <3>1, <3>5
      <4>2. (~ sm.launches) \in BOOLEAN /\ (~ sm.launches) # sm.launches
        BY <1>0 DEF UnitOK
      <4> QED BY <1>0, <2>2, <3>5, <4>1, <4>2 DEF UnitOK, SD!Jobs
    <3> QED BY <3>2, <3>3, <3>4, <3>5 DEF SD!Jobs
  <2> QED BY <2>1, <2>2
<1>4. /\ Life  = (CASE sm.unit = "up" -> "up" [] sm.unit = "retry" -> "between" [] OTHER -> "down")
      /\ Life' = (CASE sm'.unit = "up" -> "up" [] sm'.unit = "retry" -> "between" [] OTHER -> "down")
  BY DEF Life, Choose, SystemdNow, SD!Life
<1>5. ManagerSteps
  <2>1. Sup!RegistrationStep /\ Sup!QueueStep
    BY <1>3 DEF SystemdNow, Sup!RegistrationStep, Sup!QueueStep, Choose, SD!Installed, SD!BootSwitch
  <2>2. Sup!Wanted(sm.job)
    BY <1>3 DEF Sup!Wanted, SystemdNow, SD!Jobs
  <2>3. Sup!LifeStep
    BY <1>0, <1>3, <1>4, <2>2 DEF Sup!LifeStep, UnitOK, SD!Jobs
  <2> QED BY <2>1, <2>3 DEF ManagerSteps
<1>6. ASSUME NEW d \in Clients PROVE SystemdCall(d)'
  BY <1>0, <1>2, <1>3 DEF SystemdCall, Serves, WaitsForItsJob
<1>7. ASSUME NEW d \in Clients, call[d].at = "wait", p = "ok" PROVE Sup!Effect(call[d].op)
  BY <1>0, <1>3, <1>4, <1>7 DEF Sup!Effect, SystemdCall, Serves, WaitsForItsJob, SD!Jobs
<1>8. ASSUME NEW d \in Clients PROVE Sup!CallStep(d)
  BY <1>2, <1>7 DEF Sup!CallStep, Asked, Answer
<1>9. CallType'
  BY <1>2, MetType DEF CallType, SystemdNow
<1>10. Sticks
  BY <1>0, <1>2, <1>3, <1>4 DEF Sticks, Answers, Asked, Answer, SystemdCall, WaitsForItsJob
<1> QED BY <1>3, <1>5, <1>6, <1>8, <1>9, <1>10 DEF SystemdThen, Sup!Next, ManagerSteps, SystemdNow

LEMMA SystemdSetsBoot ==
    ASSUME SystemdNow, NEW c \in Clients, SD!SetBoot(c)
    PROVE  SystemdThen
<1>0. CallType /\ UnitOK /\ (\A d \in Clients : SystemdCall(d))
  BY DEF SystemdNow, IInv
<1>1. call[c].op \in {"enable", "disable"} /\ call[c].at = "switch"
  BY <1>0 DEF SD!SetBoot, SD!At, SystemdCall, Serves
<1>2. CASE sm' = sm /\ SD!Goes(c, "error")
  <2>1. Advance(c, "error")
    BY <1>2 DEF SD!Goes, Advance
  <2> QED BY <1>1, <1>2, <2>1, SystemdMoves
<1>3. CASE sm' = [sm EXCEPT !.boot = call[c].op = "enable"] /\ SD!Goes(c, "ok")
  <2>1. Advance(c, "ok") /\ "ok" \in Points \ {"none"}
    BY <1>3 DEF SD!Goes, Advance, Points
  <2>2. UnitOK' /\ sm' = [sm EXCEPT !.boot = sm'.boot] /\ (sm'.boot <=> call[c].op = "enable")
    <3>1. (call[c].op = "enable") \in BOOLEAN
      OBVIOUS
    <3> QED BY <1>0, <1>3, <3>1 DEF UnitOK
  <2>3. Sup!Effect(call[c].op)
    BY <1>1, <2>2 DEF Sup!Effect, SystemdNow, Choose, SD!BootSwitch
  <2>4. ManagerSteps
    <3>1. Sup!Wanted(call[c].op)
      BY DEF Sup!Wanted, Asked
    <3>2. Choose(SD!BootSwitch, LD!BootSwitch, WS!BootSwitch)' <=> call[c].op = "enable"
      BY <2>2 DEF SystemdNow, Choose, SD!BootSwitch
    <3>3. Sup!RegistrationStep
      BY <1>0, <1>1, <2>2, <3>1, <3>2 DEF UnitOK, SystemdNow, Sup!RegistrationStep, Choose, SD!Installed
    <3>4. Sup!LifeStep /\ Sup!QueueStep
      BY <1>0, <2>2 DEF UnitOK, SystemdNow, Sup!LifeStep, Choose, Life, SD!Life, Sup!QueueStep
    <3> QED BY <3>3, <3>4 DEF ManagerSteps
  <2>5. ASSUME NEW d \in Clients PROVE SystemdCall(d)'
    BY <1>0, <1>1, <2>1, <2>2, Advanced DEF SystemdCall, Serves, WaitsForItsJob, UnitOK
  <2>6. \A d \in Clients : Sup!CallStep(d)
    BY <1>0, <1>1, <2>1, <2>3, AdvanceIsCallStep
  <2>7. CallType'
    BY <1>0, <2>1, Advanced, MetType DEF CallType, SystemdNow
  <2>8. Sticks
    BY <1>0, <1>1, <2>1, AdvanceSticks
  <2> QED BY <2>2, <2>4, <2>5, <2>6, <2>7, <2>8 DEF SystemdThen, Sup!Next, ManagerSteps, SystemdNow
<1> QED BY <1>2, <1>3 DEF SD!SetBoot, SD!Fails

\* Drivers end and come back by themselves, and the host reboots.
LEMMA SystemdAlone ==
    ASSUME SystemdNow, SD!Exits \/ SD!Retries \/ SD!Reboots
    PROVE  SystemdThen
<1>0. CallType /\ UnitOK /\ (\A d \in Clients : SystemdCall(d))
  BY DEF SystemdNow, IInv
<1>1. /\ Life  = (CASE sm.unit = "up" -> "up" [] sm.unit = "retry" -> "between" [] OTHER -> "down")
      /\ Life' = (CASE sm'.unit = "up" -> "up" [] sm'.unit = "retry" -> "between" [] OTHER -> "down")
  BY DEF Life, Choose, SystemdNow, SD!Life
<1>2. CASE SD!Exits \/ SD!Retries
  <2>1. /\ UnitOK' /\ sm'.template = sm.template /\ sm'.boot = sm.boot /\ sm'.job = sm.job
        /\ \/ sm.unit = "up" /\ sm'.unit \in {"dead", "retry"} /\ sm'.launches = sm.launches
           \/ sm.unit = "retry" /\ sm'.unit = "up"
    BY <1>0, <1>2 DEF UnitOK, SD!Exits, SD!Retries, SD!Launched
  <2>2. ManagerSteps
    BY <1>1, <2>1 DEF ManagerSteps, SystemdNow, Sup!RegistrationStep, Sup!LifeStep, Sup!QueueStep, Choose,
                      SD!Installed, SD!BootSwitch
  <2>3. call' = call
    BY <1>2 DEF SD!Exits, SD!Retries
  <2>4. ASSUME NEW d \in Clients PROVE SystemdCall(d)'
    BY <1>0, <2>1, <2>3 DEF SystemdCall, Serves, WaitsForItsJob
  <2>5. CallType'
    BY <1>0, <2>3, SameCalls, MetType DEF CallType, SystemdNow
  <2> QED BY <1>0, <2>1, <2>2, <2>3, <2>4, <2>5, SameCalls, NobodyAnswered
          DEF SystemdThen, Sup!Next, ManagerSteps, SystemdNow
<1>3. CASE SD!Reboots
  <2>1. /\ UnitOK' /\ sm'.template = sm.template /\ sm'.boot = sm.boot /\ sm'.job = "none"
        /\ sm'.unit = IF sm.boot /\ sm.template # "missing" THEN "retry" ELSE "dead"
    BY <1>0, <1>3 DEF UnitOK, SD!Reboots
  <2>2. call' \in [Clients -> CallRec] /\
        \A c \in Clients : call'[c].op = "none" /\ call'[c].at = "none" /\ ~ call'[c].gone
    BY <1>3, NoneCalls DEF SD!Reboots, SD!NoCalls, SD!Quiet
  <2>3. \A c \in Clients : ~ met'[c]
    BY <2>2 DEF SystemdNow, Sup!Remembers, Asked
  <2>4. Sup!Reboot
    <3>1. \A c \in Clients : Asked(c)' = "none" /\ Answer(c)' = "none"
      BY <2>2 DEF Asked, Answer
    <3>2. Life' = IF sm.template # "missing" /\ sm.boot THEN "between" ELSE "down"
      BY <1>1, <2>1
    <3>3. {c \in Clients : call[c].gone}' = {}
      BY <2>2
    <3> QED BY <2>1, <2>3, <3>1, <3>2, <3>3 DEF Sup!Reboot, SystemdNow, Choose, SD!Installed, SD!BootSwitch
  <2>5. ASSUME NEW d \in Clients PROVE SystemdCall(d)'
    BY <2>2 DEF SystemdCall, Serves, WaitsForItsJob
  <2>6. CallType'
    BY <2>2, MetType DEF CallType, SystemdNow
  <2> QED BY <2>1, <2>2, <2>4, <2>5, <2>6, NobodyAnswered DEF SystemdThen, Sup!Next
<1> QED BY <1>2, <1>3

LEMMA SystemdStep == ASSUME SystemdNow, SD!Next PROVE SystemdThen
BY SystemdCalls, SystemdCommands, SystemdQueues, SystemdJobEnds, SystemdSetsBoot, SystemdAlone
   DEF SD!Next, SD!Steps

-----------------------------------------------------------------------------
(* launchd.                                                                *)

LaunchdNow == IInv /\ NoQueryError /\ platform = "launchd" /\ platform' = platform /\ Sup!Remembers
LaunchdThen == CallType' /\ JobOK' /\ (\A c \in Clients : LaunchdCall(c)') /\ Sup!Next /\ Sticks

\* What Supervisor sees of launchd's record.
LEMMA LaunchdView ==
    ASSUME platform = "launchd", platform' = platform
    PROVE  /\ Choose(SD!Installed, LD!Installed, WS!Installed) = sm.plist
           /\ Choose(SD!Installed, LD!Installed, WS!Installed)' = sm'.plist
           /\ Choose(SD!BootSwitch, LD!BootSwitch, WS!BootSwitch) = ~ sm.disabled
           /\ Choose(SD!BootSwitch, LD!BootSwitch, WS!BootSwitch)' = ~ sm'.disabled
           /\ Life  = (CASE sm.run = "up" -> "up" [] sm.run = "retry" -> "between" [] OTHER -> "down")
           /\ Life' = (CASE sm'.run = "up" -> "up" [] sm'.run = "retry" -> "between" [] OTHER -> "down")
<1>1. /\ Choose(SD!Installed, LD!Installed, WS!Installed) = sm.plist
      /\ Choose(SD!Installed, LD!Installed, WS!Installed)' = sm'.plist
  BY DEF Choose, LD!Installed
<1>2. /\ Choose(SD!BootSwitch, LD!BootSwitch, WS!BootSwitch) = ~ sm.disabled
      /\ Choose(SD!BootSwitch, LD!BootSwitch, WS!BootSwitch)' = ~ sm'.disabled
  BY DEF Choose, LD!BootSwitch
<1>3. /\ Life  = (CASE sm.run = "up" -> "up" [] sm.run = "retry" -> "between" [] OTHER -> "down")
      /\ Life' = (CASE sm'.run = "up" -> "up" [] sm'.run = "retry" -> "between" [] OTHER -> "down")
  BY DEF Life, Choose, LD!Life
<1> QED BY <1>1, <1>2, <1>3

\* What a call may rely on when it comes to p.
Prepared(c, p) ==
    LET op == call[c].op IN
    /\ p = "print" => op = "start"
    /\ p \in {"stat2", "print2", "kill"} => op = "restart"
    /\ p \in {"kickstart", "bootstrap"} => op \in {"start", "restart"}
    /\ p = "bootout" => op = "stop"
    /\ op = "restart" /\ p \in {"stat2", "print2", "kickstart", "bootstrap"} /\ ~ call[c].gone =>
          met[c] \/ ~ sm.loaded

LEMMA LaunchdMoves ==
    ASSUME LaunchdNow, NEW c \in Clients, sm' = sm,
           NEW p \in {"ok", "error", "print", "stat2", "print2", "kickstart", "bootstrap", "kill", "bootout"},
           Advance(c, p), call[c].at \notin {"ok", "error"}, Prepared(c, p),
           call[c].op # "none",
           p = "ok" => met[c] \/ Sup!Effect(call[c].op) \/ call[c].gone,
           p = "ok" /\ call[c].op = "stop" /\ ~ call[c].gone => Life' = "down"
    PROVE  LaunchdThen
<1>0. CallType /\ JobOK /\ \A d \in Clients : LaunchdCall(d)
  BY DEF LaunchdNow, IInv
<1>1. p \in Points \ {"none"}
  BY DEF Points
<1>2. ManagerSteps
  BY ManagerRests DEF LaunchdNow
<1>3. \A d \in Clients : Sup!CallStep(d)
  BY <1>0, <1>1, AdvanceIsCallStep
<1>4. JobOK'
  BY <1>0 DEF JobOK
<1>5. LaunchdCall(c)'
  <2>1. call'[c].at \notin {"ok", "error"} /\ met[c] => met'[c]
    BY <1>0, <1>1, Advanced, MetStep DEF LaunchdNow
  <2> QED BY <1>0, <1>1, <2>1, Advanced, ZenonT(60) DEF LaunchdCall, Serves, RestartSeesLaunch, Prepared
<1>6. ASSUME NEW d \in Clients, d # c PROVE LaunchdCall(d)'
  <2>1. call'[d] = call[d]
    BY <1>0, <1>1, <1>6, Advanced
  <2>2. call[d].op = "restart" /\ call[d].at \notin {"ok", "error"} /\ met[d] => met'[d]
    BY <2>1, MetStep DEF LaunchdNow
  <2> QED BY <1>0, <2>1, <2>2 DEF LaunchdCall, Serves, RestartSeesLaunch
<1>7. CallType'
  BY <1>0, <1>1, Advanced, MetType DEF CallType, LaunchdNow
<1>8. Sticks
  BY <1>0, <1>1, AdvanceSticks
<1> QED BY <1>2, <1>3, <1>4, <1>5, <1>6, <1>7, <1>8 DEF LaunchdThen, Sup!Next, ManagerSteps, LaunchdNow

LEMMA SameLeaves == ASSUME NEW c PROVE (LD!Leaves(c) <=> SD!Leaves(c)) /\ (WS!Leaves(c) <=> SD!Leaves(c))
BY DEF SD!Leaves, LD!Leaves, WS!Leaves, SD!Pending, LD!Pending, WS!Pending, SD!Quiet, LD!Quiet, WS!Quiet,
       SD!Answered, LD!Answered, WS!Answered
LEMMA SameReturns == ASSUME NEW c PROVE (LD!Returns(c) <=> SD!Returns(c)) /\ (WS!Returns(c) <=> SD!Returns(c))
BY DEF SD!Returns, LD!Returns, WS!Returns, SD!Quiet, LD!Quiet, WS!Quiet,
       SD!Answered, LD!Answered, WS!Answered
LEMMA SameAsks ==
    ASSUME NEW c, NEW op, NEW p
    PROVE  (LD!Asks(c, op, p) <=> SD!Asks(c, op, p)) /\ (WS!Asks(c, op, p) <=> SD!Asks(c, op, p))
BY DEF SD!Asks, LD!Asks, WS!Asks, SD!Quiet, LD!Quiet, WS!Quiet
LEMMA SameGoes ==
    ASSUME NEW c, NEW p
    PROVE  (LD!Goes(c, p) <=> Advance(c, p)) /\ (WS!Goes(c, p) <=> Advance(c, p))
BY DEF Advance, LD!Goes, WS!Goes, SD!Moved, LD!Moved, WS!Moved
LEMMA SameNoCalls == (LD!NoCalls <=> SD!NoCalls) /\ (WS!NoCalls <=> SD!NoCalls)
BY DEF SD!NoCalls, LD!NoCalls, WS!NoCalls, SD!Quiet, LD!Quiet, WS!Quiet

LEMMA LaunchdCalls ==
    ASSUME LaunchdNow, NEW c \in Clients, LD!Calls(c) \/ LD!Returns(c) \/ LD!Leaves(c)
    PROVE  LaunchdThen
<1>0. CallType /\ JobOK /\ \A d \in Clients : LaunchdCall(d)
  BY DEF LaunchdNow, IInv
<1>1. sm' = sm /\ JobOK' /\ ManagerSteps
  BY <1>0, ManagerRests DEF LaunchdNow, JobOK, LD!Calls, LD!Returns, LD!Leaves
<1>2. /\ call' \in [Clients -> CallRec] /\ LaunchdCall(c)'
      /\ \A d \in Clients : Sup!CallStep(d) /\ (d # c => call'[d] = call[d])
      /\ call'[c].at = "ok" => call[c].at = "ok"
  <2>1. CASE LD!Calls(c)
    <3>1. PICK op \in {"install", "start", "stop", "restart", "enable", "disable"} :
             LD!Asks(c, op, LD!First(op))
      BY <2>1 DEF LD!Calls
    <3>2. /\ op \in Sup!Ops /\ LD!First(op) \in Points \ {"none", "ok", "error"}
          /\ op = "install" => LD!First(op) = "plist"
          /\ op = "start" => LD!First(op) = "stat"
          /\ op \in {"stop", "restart"} => LD!First(op) = "print"
          /\ op \in {"enable", "disable"} => LD!First(op) = "override"
      BY DEF Sup!Ops, LD!First, Points
    <3>3. SD!Asks(c, op, LD!First(op))
      BY <3>1, SameAsks
    <3>4. call'[c] = [op |-> op, at |-> LD!First(op), gone |-> FALSE]
      BY <1>0, <3>2, <3>3, Begun
    <3>5. LaunchdCall(c)'
      BY <3>2, <3>4 DEF LaunchdCall, Serves, RestartSeesLaunch
    <3> QED BY <1>0, <3>2, <3>3, <3>4, <3>5, Begun
  <2>2. CASE LD!Returns(c)
    BY <1>0, <1>1, <2>2, SameReturns, Returned DEF LaunchdCall, Serves, RestartSeesLaunch
  <2>3. CASE LD!Leaves(c)
    BY <1>0, <1>1, <2>3, SameLeaves, Left DEF LaunchdCall, Serves, RestartSeesLaunch
  <2> QED BY <2>1, <2>2, <2>3
<1>3. ASSUME NEW d \in Clients, d # c PROVE LaunchdCall(d)'
  <2>1. call'[d] = call[d]
    BY <1>2, <1>3
  <2>2. call[d].op = "restart" /\ call[d].at \notin {"ok", "error"} /\ met[d] => met'[d]
    BY <2>1, MetStep DEF LaunchdNow
  <2> QED BY <1>0, <1>1, <2>1, <2>2 DEF LaunchdCall, Serves, RestartSeesLaunch
<1>4. CallType'
  BY <1>2, MetType DEF CallType, LaunchdNow
<1>5. Sticks
  BY <1>2, NobodyAnswered
<1> QED BY <1>1, <1>2, <1>3, <1>4, <1>5 DEF LaunchdThen, Sup!Next, ManagerSteps, LaunchdNow

\* The commands that look, and those that fail.
LEMMA LaunchdCommands ==
    ASSUME LaunchdNow, NEW c \in Clients,
           LD!StatPlist(c) \/ LD!PrintJob(c) \/ LD!StatAgain(c) \/ LD!PrintAgain(c)
    PROVE  LaunchdThen
<1>0. LaunchdCall(c) /\ JobOK
  BY DEF LaunchdNow, IInv
<1>1. ASSUME NEW yes, NEW no, LD!Loaded(c, yes, no)
      PROVE  /\ sm' = sm
             /\ \/ Advance(c, yes) /\ sm.loaded
                \/ Advance(c, no) /\ (~ sm.loaded \/ call[c].gone)
  <2>1. LD!MayFail(c, "query") => call[c].gone
    BY DEF LD!MayFail, LaunchdNow, NoQueryError
  <2>2. /\ sm' = sm
        /\ \/ LD!Goes(c, yes) /\ sm.loaded
           \/ LD!Goes(c, no) /\ (~ sm.loaded \/ call[c].gone)
    BY <1>1, <2>1 DEF LD!Loaded
  <2> QED BY <2>2, SameGoes
<1>2. ~ sm.loaded => sm.run = "off"
  BY <1>0 DEF JobOK
<1>3. CASE LD!StatPlist(c) \/ LD!StatAgain(c)
  <2>1. sm' = sm
    BY <1>3 DEF LD!StatPlist, LD!StatAgain
  <2>2. PICK p \in {"print", "print2", "error"} :
           Advance(c, p) /\ Prepared(c, p) /\ call[c].op \in {"start", "restart"} /\ call[c].at \in {"stat", "stat2"}
    BY <1>0, <1>3, SameGoes DEF LD!StatPlist, LD!StatAgain, LD!At, Prepared, LaunchdCall, Serves, RestartSeesLaunch
  <2> QED BY <2>1, <2>2, LaunchdMoves
<1>4. CASE LD!PrintJob(c)
  <2>0. call[c].at = "print" /\ call[c].op \in {"start", "stop", "restart"}
    BY <1>0, <1>4 DEF LD!PrintJob, LD!At, LaunchdCall, Serves
  <2>1. CASE call[c].op = "start"
    <3>1. LD!Loaded(c, "kickstart", "bootstrap")
      BY <1>4, <2>1 DEF LD!PrintJob
    <3>2. \A p \in {"kickstart", "bootstrap"} : Prepared(c, p)
      BY <2>1 DEF Prepared
    <3> QED BY <1>1, <2>0, <2>1, <3>1, <3>2, LaunchdMoves
  <2>2. CASE call[c].op = "stop"
    <3>1. LD!Loaded(c, "bootout", "ok")
      BY <1>4, <2>2 DEF LD!PrintJob
    <3>2. \A p \in {"bootout", "ok"} : Prepared(c, p)
      BY <2>2 DEF Prepared
    <3>3. ~ sm.loaded /\ sm' = sm => Sup!Effect("stop") /\ Life' = "down"
      BY <1>2, LaunchdView DEF Sup!Effect, LaunchdNow
    <3> QED BY <1>1, <2>0, <2>2, <3>1, <3>2, <3>3, LaunchdMoves
  <2>3. CASE call[c].op = "restart"
    <3>1. LD!Loaded(c, "kill", "stat2")
      BY <1>4, <2>3 DEF LD!PrintJob
    <3>2. Prepared(c, "kill") /\ ((~ sm.loaded \/ call[c].gone) => Prepared(c, "stat2"))
      BY <2>3 DEF Prepared
    <3> QED BY <1>1, <2>0, <2>3, <3>1, <3>2, LaunchdMoves
  <2> QED BY <2>0, <2>1, <2>2, <2>3
<1>5. CASE LD!PrintAgain(c)
  <2>0. call[c].at = "print2" /\ call[c].op = "restart"
    BY <1>0, <1>5 DEF LD!PrintAgain, LD!At, LaunchdCall, Serves
  <2>1. LD!Loaded(c, "kickstart", "bootstrap")
    BY <1>5 DEF LD!PrintAgain
  <2>2. \A p \in {"kickstart", "bootstrap"} : Prepared(c, p)
    BY <1>0, <2>0 DEF Prepared, LaunchdCall, RestartSeesLaunch
  <2> QED BY <1>1, <2>0, <2>1, <2>2, LaunchdMoves
<1> QED BY <1>3, <1>4, <1>5

\* A command that has its effect and ends its call.
LEMMA LaunchdActs ==
    ASSUME LaunchdNow, NEW c \in Clients, Advance(c, "ok"), JobOK', ManagerSteps,
           call[c].at \notin {"ok", "error"},
           met[c] \/ Sup!Effect(call[c].op) \/ call[c].gone,
           call[c].op = "stop" => Life' = "down",
           sm'.loaded /\ ~ sm.loaded => sm'.launches # sm.launches
    PROVE  LaunchdThen
<1>0. CallType /\ JobOK /\ \A d \in Clients : LaunchdCall(d)
  BY DEF LaunchdNow, IInv
<1>1. "ok" \in Points \ {"none"}
  BY DEF Points
<1>2. \A d \in Clients : Sup!CallStep(d)
  BY <1>0, <1>1, AdvanceIsCallStep
<1>3. LaunchdCall(c)'
  BY <1>0, <1>1, Advanced DEF LaunchdCall, Serves, RestartSeesLaunch
<1>4. ASSUME NEW d \in Clients, d # c PROVE LaunchdCall(d)'
  <2>1. call'[d] = call[d]
    BY <1>0, <1>1, <1>4, Advanced
  <2>2. call[d].op = "restart" /\ call[d].at \notin {"ok", "error"}
          => (met'[d] <=> met[d] \/ sm'.launches # sm.launches)
    BY <2>1, MetStep DEF LaunchdNow, Sup!Effect
  <2> QED BY <1>0, <2>1, <2>2 DEF LaunchdCall, Serves, RestartSeesLaunch, JobOK
<1>5. CallType'
  BY <1>0, <1>1, Advanced, MetType DEF CallType, LaunchdNow
<1>6. Sticks
  BY <1>0, <1>1, AdvanceSticks
<1> QED BY <1>2, <1>3, <1>4, <1>5, <1>6 DEF LaunchdThen, Sup!Next, ManagerSteps, LaunchdNow

\* A command that fails has no effect.
LEMMA LaunchdFails ==
    ASSUME LaunchdNow, NEW c \in Clients, LD!Goes(c, "error"), sm' = sm,
           call[c].at \notin {"ok", "error"}, call[c].op # "none"
    PROVE  LaunchdThen
BY SameGoes, LaunchdMoves DEF Prepared

LEMMA LaunchdRegisters ==
    ASSUME LaunchdNow, NEW c \in Clients, LD!WritePlist(c) \/ LD!SetOverride(c)
    PROVE  LaunchdThen
<1>0. LaunchdCall(c) /\ JobOK
  BY DEF LaunchdNow, IInv
<1>1. /\ call[c].op \in {"install", "enable", "disable"} /\ call[c].at \in {"plist", "override"}
      /\ call[c].at = "plist" <=> call[c].op = "install"
  BY <1>0 DEF LD!WritePlist, LD!SetOverride, LD!At, LaunchdCall, Serves
<1>2. CASE sm' = sm /\ LD!Goes(c, "error")
  BY <1>1, <1>2, LaunchdFails
<1>3. CASE /\ LD!Goes(c, "ok")
           /\ \/ call[c].op = "install" /\ sm' = [sm EXCEPT !.plist = TRUE]
              \/ call[c].op # "install" /\ sm' = [sm EXCEPT !.disabled = call[c].op = "disable"]
  <2>1. (call[c].op = "disable") \in BOOLEAN
    OBVIOUS
  <2>2. /\ JobOK' /\ sm'.loaded = sm.loaded /\ sm'.run = sm.run /\ sm'.launches = sm.launches
        /\ call[c].op = "install" => sm'.plist /\ sm'.disabled = sm.disabled
        /\ call[c].op # "install" => sm'.plist = sm.plist /\ sm'.disabled = (call[c].op = "disable")
    BY <1>0, <1>3, <2>1 DEF JobOK
  <2>3. Sup!Wanted(call[c].op)
    BY DEF Sup!Wanted, Asked
  <2>4. Sup!RegistrationStep
    BY <1>0, <1>1, <2>2, <2>3, LaunchdView DEF LaunchdNow, Sup!RegistrationStep, JobOK
  <2>5. Sup!LifeStep /\ Sup!QueueStep
    BY <2>2, LaunchdView DEF LaunchdNow, Sup!LifeStep, Sup!QueueStep
  <2>6. Sup!Effect(call[c].op)
    BY <1>1, <2>2, LaunchdView DEF LaunchdNow, Sup!Effect
  <2> QED BY <1>1, <1>3, <2>2, <2>4, <2>5, <2>6, SameGoes, LaunchdActs DEF ManagerSteps
<1> QED BY <1>1, <1>2, <1>3 DEF LD!WritePlist, LD!SetOverride, LD!At, LD!Fails

LEMMA LaunchdLaunches ==
    ASSUME LaunchdNow, NEW c \in Clients, LD!Bootstrap(c) \/ LD!Kickstart(c) \/ LD!KickstartKill(c)
    PROVE  LaunchdThen
<1>0. LaunchdCall(c) /\ JobOK /\ CallType
  BY DEF LaunchdNow, IInv
<1>1. /\ call[c].op \in {"start", "restart"} /\ call[c].at \in {"bootstrap", "kickstart", "kill"}
      /\ call[c].at = "kill" => call[c].op = "restart"
  BY <1>0 DEF LD!Bootstrap, LD!Kickstart, LD!KickstartKill, LD!At, LaunchdCall, Serves
<1>2. CASE sm' = sm /\ LD!Goes(c, "error")
  BY <1>1, <1>2, LaunchdFails
<1>3. CASE /\ LD!Goes(c, "ok") /\ sm' = sm /\ ~ call[c].gone
           /\ call[c].at = "kickstart" /\ sm.loaded /\ sm.run = "up"
  <2>1. call[c].op = "restart" => met[c]
    BY <1>0, <1>3 DEF LaunchdCall, RestartSeesLaunch
  <2>2. call[c].op = "start" => Sup!Effect(call[c].op)
    BY <1>3, LaunchdView DEF LaunchdNow, Sup!Effect
  <2>3. Prepared(c, "ok")
    BY DEF Prepared
  <2> QED BY <1>1, <1>3, <2>1, <2>2, <2>3, SameGoes, LaunchdMoves
<1>4. CASE /\ LD!Goes(c, "ok")
           /\ sm' = [[sm EXCEPT !.run = "up", !.launches = ~ @] EXCEPT !.loaded = TRUE]
           /\ sm.run = "up" => call[c].op = "restart"
  <2>1. (~ sm.launches) \in BOOLEAN /\ (~ sm.launches) # sm.launches
    BY <1>0 DEF JobOK
  <2>2. /\ JobOK' /\ sm'.run = "up" /\ sm'.launches # sm.launches
        /\ sm'.plist = sm.plist /\ sm'.disabled = sm.disabled
    BY <1>0, <1>4, <2>1 DEF JobOK
  <2>3. Sup!Wanted(call[c].op)
    BY DEF Sup!Wanted, Asked
  <2>4. Sup!RegistrationStep /\ Sup!QueueStep
    BY <2>2, LaunchdView DEF LaunchdNow, Sup!RegistrationStep, Sup!QueueStep
  <2>5. Sup!LifeStep
    BY <1>0, <1>1, <1>4, <2>2, <2>3, LaunchdView DEF LaunchdNow, Sup!LifeStep, JobOK
  <2>6. Sup!Effect(call[c].op)
    BY <1>1, <2>2, LaunchdView DEF LaunchdNow, Sup!Effect
  <2> QED BY <1>1, <1>4, <2>2, <2>4, <2>5, <2>6, SameGoes, LaunchdActs DEF ManagerSteps
<1>5. sm.loaded => [[sm EXCEPT !.run = "up", !.launches = ~ @] EXCEPT !.loaded = TRUE]
                     = [sm EXCEPT !.run = "up", !.launches = ~ @]
  BY <1>0 DEF JobOK
<1>6. CASE LD!Bootstrap(c)
  <2>1. ~ sm.loaded => sm.run # "up"
    BY <1>0 DEF JobOK
  <2> QED BY <1>1, <1>2, <1>4, <1>6, <2>1 DEF LD!Bootstrap, LD!Launched, LD!Refuses, LD!Fails
<1>7. CASE LD!Kickstart(c)
  BY <1>1, <1>2, <1>3, <1>4, <1>5, <1>7 DEF LD!Kickstart, LD!Launched, LD!Refuses, LD!Fails, LD!At, LD!Runs
<1>8. CASE LD!KickstartKill(c)
  BY <1>1, <1>2, <1>4, <1>5, <1>8 DEF LD!KickstartKill, LD!Launched, LD!Refuses, LD!Fails, LD!At
<1> QED BY <1>6, <1>7, <1>8

LEMMA LaunchdStops ==
    ASSUME LaunchdNow, NEW c \in Clients, LD!Bootout(c)
    PROVE  LaunchdThen
<1>0. LaunchdCall(c) /\ JobOK
  BY DEF LaunchdNow, IInv
<1>1. call[c].op = "stop" /\ call[c].at = "bootout"
  BY <1>0 DEF LD!Bootout, LD!At, LaunchdCall, Serves
<1>2. CASE sm' = sm /\ LD!Goes(c, "error")
  BY <1>1, <1>2, LaunchdFails
<1>3. CASE LD!Goes(c, "ok") /\ sm' = [sm EXCEPT !.loaded = FALSE, !.run = "off"]
  <2>1. /\ JobOK' /\ sm'.run = "off" /\ sm'.launches = sm.launches /\ sm'.loaded = FALSE
        /\ sm'.plist = sm.plist /\ sm'.disabled = sm.disabled
    BY <1>0, <1>3 DEF JobOK
  <2>2. ManagerSteps
    BY <2>1, LaunchdView DEF LaunchdNow, ManagerSteps, Sup!RegistrationStep, Sup!QueueStep, Sup!LifeStep
  <2>3. Sup!Effect("stop") /\ Life' = "down"
    BY <2>1, LaunchdView DEF LaunchdNow, Sup!Effect
  <2> QED BY <1>1, <1>3, <2>1, <2>2, <2>3, SameGoes, LaunchdActs
<1> QED BY <1>1, <1>2, <1>3 DEF LD!Bootout, LD!Refuses, LD!Fails

LEMMA LaunchdAlone ==
    ASSUME LaunchdNow, LD!Exits \/ LD!Retries \/ LD!Reboots
    PROVE  LaunchdThen
<1>0. CallType /\ JobOK /\ (\A d \in Clients : LaunchdCall(d))
  BY DEF LaunchdNow, IInv
<1>1. CASE LD!Exits \/ LD!Retries
  <2>1. /\ JobOK' /\ sm'.plist = sm.plist /\ sm'.disabled = sm.disabled /\ sm'.loaded = sm.loaded
        /\ \/ sm.run = "up" /\ sm'.run \in {"off", "retry"} /\ sm'.launches = sm.launches
           \/ sm.run = "retry" /\ sm'.run = "up"
    BY <1>0, <1>1 DEF JobOK, LD!Exits, LD!Retries, LD!Launched
  <2>2. ManagerSteps
    BY <2>1, LaunchdView DEF ManagerSteps, LaunchdNow, Sup!RegistrationStep, Sup!LifeStep, Sup!QueueStep
  <2>3. call' = call
    BY <1>1 DEF LD!Exits, LD!Retries
  <2>4. ASSUME NEW d \in Clients PROVE LaunchdCall(d)'
    <3>1. call[d].op = "restart" /\ call[d].at \notin {"ok", "error"} /\ met[d] => met'[d]
      BY <2>3, MetStep DEF LaunchdNow
    <3> QED BY <1>0, <2>1, <2>3, <3>1 DEF LaunchdCall, Serves, RestartSeesLaunch
  <2>5. CallType'
    BY <1>0, <2>3, SameCalls, MetType DEF CallType, LaunchdNow
  <2> QED BY <1>0, <2>1, <2>2, <2>3, <2>4, <2>5, SameCalls, NobodyAnswered
          DEF LaunchdThen, Sup!Next, ManagerSteps, LaunchdNow
<1>2. CASE LD!Reboots
  <2>1. /\ JobOK' /\ sm'.plist = sm.plist /\ sm'.disabled = sm.disabled
        /\ sm'.run = IF sm.plist /\ ~ sm.disabled THEN "retry" ELSE "off"
    BY <1>0, <1>2 DEF JobOK, LD!Reboots
  <2>2. call' \in [Clients -> CallRec] /\
        \A c \in Clients : call'[c].op = "none" /\ call'[c].at = "none" /\ ~ call'[c].gone
    BY <1>2, NoneCalls, SameNoCalls DEF LD!Reboots
  <2>3. \A c \in Clients : ~ met'[c]
    BY <2>2 DEF LaunchdNow, Sup!Remembers, Asked
  <2>4. Sup!Reboot
    <3>1. \A c \in Clients : Asked(c)' = "none" /\ Answer(c)' = "none"
      BY <2>2 DEF Asked, Answer
    <3>2. {c \in Clients : call[c].gone}' = {}
      BY <2>2
    <3> QED BY <2>1, <2>3, <3>1, <3>2, LaunchdView DEF Sup!Reboot, LaunchdNow
  <2>5. ASSUME NEW d \in Clients PROVE LaunchdCall(d)'
    BY <2>2 DEF LaunchdCall, Serves, RestartSeesLaunch
  <2>6. CallType'
    BY <2>2, MetType DEF CallType, LaunchdNow
  <2> QED BY <2>1, <2>2, <2>4, <2>5, <2>6, NobodyAnswered DEF LaunchdThen, Sup!Next
<1> QED BY <1>1, <1>2

LEMMA LaunchdStep == ASSUME LaunchdNow, LD!Next PROVE LaunchdThen
BY LaunchdCalls, LaunchdCommands, LaunchdRegisters, LaunchdLaunches, LaunchdStops, LaunchdAlone
   DEF LD!Next, LD!Steps

-----------------------------------------------------------------------------
(* The Windows service control manager.                                    *)

ScmNow == IInv /\ NoQueryError /\ platform = "scm" /\ platform' = platform /\ Sup!Remembers
ScmThen == CallType' /\ HostOK(sm)' /\ (\A c \in Clients : ScmCall(c)') /\ Sup!Next

\* What Supervisor sees of the SCM's record.
HostLife(m) == IF m.drivers > 0 THEN "up"
               ELSE IF m.state \in {"absent", "STOPPED"} /\ ~ m.due THEN "down" ELSE "between"
LEMMA ScmView ==
    ASSUME platform = "scm", platform' = platform, HostOK(sm), HostOK(sm')
    PROVE  /\ Choose(SD!Installed, LD!Installed, WS!Installed) = (sm.state # "absent")
           /\ Choose(SD!Installed, LD!Installed, WS!Installed)' = (sm'.state # "absent")
           /\ Choose(SD!BootSwitch, LD!BootSwitch, WS!BootSwitch) = (sm.state = "absent" \/ sm.auto)
           /\ Choose(SD!BootSwitch, LD!BootSwitch, WS!BootSwitch)' = (sm'.state = "absent" \/ sm'.auto)
           /\ Life = HostLife(sm) /\ Life' = HostLife(sm')
<1>1. /\ Choose(SD!Installed, LD!Installed, WS!Installed) = (sm.state # "absent")
      /\ Choose(SD!Installed, LD!Installed, WS!Installed)' = (sm'.state # "absent")
  BY DEF Choose, WS!Installed, WS!Exists
<1>2. /\ Choose(SD!BootSwitch, LD!BootSwitch, WS!BootSwitch) = (sm.state = "absent" \/ sm.auto)
      /\ Choose(SD!BootSwitch, LD!BootSwitch, WS!BootSwitch)' = (sm'.state = "absent" \/ sm'.auto)
  BY DEF Choose, WS!BootSwitch, WS!Exists
<1>3. Life = HostLife(sm) /\ Life' = HostLife(sm')
  <2>1. sm.drivers \in {0, 1} /\ sm'.drivers \in {0, 1}
    BY DEF HostOK, Record
  <2> QED BY <2>1 DEF Life, Choose, WS!Life, HostLife
<1> QED BY <1>1, <1>2, <1>3

\* What no step of the service undoes: it leaves the way down only when it has
\* stopped, and leaves STOPPED only by a launch.
StopsFirst ==
    /\ HostOK(sm')
    /\ sm.state # "absent" => sm'.state # "absent"
    /\ sm.state \in {"RUNNING", "STOP_PENDING"} /\ sm'.state \notin {"RUNNING", "STOP_PENDING"}
          => sm'.state = "STOPPED"
    /\ sm.state = "STOPPED" /\ sm'.state # "STOPPED" => sm'.launches # sm.launches

\* A call that the step does not move on.
LEMMA ScmWaits ==
    ASSUME ScmNow, StopsFirst, NEW d \in Clients, call'[d].op = call[d].op, call'[d].at = call[d].at,
           call[d].gone => call'[d].gone
    PROVE  ScmCall(d)'
<1>0. HostOK(sm) /\ ScmCall(d)
  BY DEF ScmNow, IInv
<1>1. sm'.state = "STOPPED" => Life' # "up"
  <2>1. sm'.state = "STOPPED" => HostLife(sm') # "up"
    BY DEF StopsFirst, HostOK, HostLife
  <2> QED BY <1>0, <2>1, ScmView DEF ScmNow, StopsFirst
<1>2. CASE call[d].at \in {"poll", "start"}
  <2>1. call[d].op \in {"start", "stop", "restart"}
    BY <1>0, <1>2 DEF ScmCall, Serves
  <2>2. met'[d] <=> met[d] \/ Sup!Effect(call[d].op)
    BY <1>2, <2>1, MetStep DEF ScmNow
  <2>3. call[d].op = "stop" /\ sm'.state = "STOPPED" => met'[d]
    BY <1>1, <2>2 DEF Sup!Effect
  <2>4. call[d].op = "restart" /\ sm'.launches # sm.launches => met'[d]
    BY <2>2 DEF Sup!Effect
  <2>5. met[d] => met'[d]
    BY <2>2
  <2>6. StopSeen(d)'
    BY <1>0, <1>2, <2>1, <2>3, <2>4, <2>5 DEF ScmCall, Serves, StopSeen, StopsFirst
  <2> QED BY <1>0, <1>2, <2>6 DEF ScmCall, Serves, StopsFirst
<1>3. CASE call[d].at \notin {"poll", "start"}
  BY <1>0, <1>3 DEF ScmCall, Serves, StopSeen
<1> QED BY <1>2, <1>3

\* What a call may rely on when it comes to p.
Reached(c, p) ==
    /\ p \in {"binPath", "create", "describe", "recover"} => call[c].op = "install"
    /\ p = "start" => call[c].op = "restart" /\ (call[c].gone \/ met[c] \/ sm'.state = "STOPPED")
    /\ p = "poll" => call[c].op \in {"stop", "restart"} /\ sm'.state = "RUNNING"
    /\ p = "ok" => met[c] \/ Sup!Effect(call[c].op) \/ call[c].gone

LEMMA ScmActs ==
    ASSUME ScmNow, StopsFirst, ManagerSteps, NEW c \in Clients,
           NEW p \in {"ok", "error", "binPath", "create", "describe", "recover", "start", "poll"},
           Advance(c, p), call[c].at \notin {"ok", "error"}, call[c].op # "none", Reached(c, p)
    PROVE  ScmThen
<1>0. CallType /\ HostOK(sm)
  BY DEF ScmNow, IInv
<1>1. p \in Points \ {"none"}
  BY DEF Points
<1>2. \A d \in Clients : Sup!CallStep(d)
  BY <1>0, <1>1, AdvanceIsCallStep DEF Reached
<1>3. ASSUME NEW d \in Clients, d # c PROVE ScmCall(d)'
  BY <1>0, <1>1, <1>3, Advanced, ScmWaits
<1>4. ScmCall(c)'
  <2>1. /\ call'[c].op = call[c].op /\ call'[c].at = p
        /\ call'[c].gone = (call[c].gone /\ p \notin {"ok", "error"})
    BY <1>0, <1>1, Advanced
  <2>2. p \notin {"ok", "error"} /\ met[c] => met'[c]
    BY <2>1, MetStep DEF ScmNow
  <2> QED BY <2>1, <2>2 DEF ScmCall, Serves, StopSeen, Reached
<1>5. CallType'
  BY <1>0, <1>1, Advanced, MetType DEF CallType, ScmNow
<1>6. HostOK(sm)'
  BY DEF StopsFirst
<1> QED BY <1>2, <1>3, <1>4, <1>5, <1>6 DEF ScmThen, Sup!Next, ManagerSteps, ScmNow

LEMMA ScmRests == ASSUME ScmNow, sm' = sm PROVE StopsFirst /\ ManagerSteps
<1>1. HostOK(sm)
  BY DEF ScmNow, IInv
<1> QED BY <1>1, ManagerRests DEF ScmNow, StopsFirst

LEMMA ScmCalls ==
    ASSUME ScmNow, NEW c \in Clients, WS!Calls(c) \/ WS!Returns(c) \/ WS!Leaves(c)
    PROVE  ScmThen
<1>0. CallType /\ HostOK(sm) /\ ScmCall(c)
  BY DEF ScmNow, IInv
<1>1. sm' = sm /\ StopsFirst /\ ManagerSteps
  BY ScmRests DEF WS!Calls, WS!Returns, WS!Leaves
<1>2. /\ call' \in [Clients -> CallRec] /\ ScmCall(c)'
      /\ \A d \in Clients : Sup!CallStep(d) /\ (d # c => call'[d] = call[d])
  <2>1. CASE WS!Calls(c)
    <3>1. PICK op \in {"install", "start", "stop", "restart", "enable", "disable"} :
             WS!Asks(c, op, WS!First(op))
      BY <2>1 DEF WS!Calls
    <3>2. /\ op \in Sup!Ops /\ WS!First(op) \in Points \ {"none", "ok", "error"}
          /\ op = "install" => WS!First(op) = "qc"
          /\ op = "start" => WS!First(op) = "start"
          /\ op \in {"stop", "restart"} => WS!First(op) = "stop"
          /\ op \in {"enable", "disable"} => WS!First(op) = "type"
      BY DEF Sup!Ops, WS!First, Points
    <3>3. SD!Asks(c, op, WS!First(op))
      BY <3>1, SameAsks
    <3>4. call'[c] = [op |-> op, at |-> WS!First(op), gone |-> FALSE]
      BY <1>0, <3>2, <3>3, Begun
    <3>5. ScmCall(c)'
      BY <3>2, <3>4 DEF ScmCall, Serves, StopSeen
    <3> QED BY <1>0, <3>2, <3>3, <3>5, Begun
  <2>2. CASE WS!Returns(c)
    BY <1>0, <2>2, SameReturns, Returned DEF ScmCall, Serves, StopSeen
  <2>3. CASE WS!Leaves(c)
    BY <1>0, <1>1, <2>3, SameLeaves, Left, ScmWaits
  <2> QED BY <2>1, <2>2, <2>3
<1>3. ASSUME NEW d \in Clients, d # c PROVE ScmCall(d)'
  BY <1>1, <1>2, <1>3, ScmWaits
<1>4. CallType'
  BY <1>2, MetType DEF CallType, ScmNow
<1>5. HostOK(sm)'
  BY <1>1 DEF StopsFirst
<1> QED BY <1>1, <1>2, <1>3, <1>4, <1>5 DEF ScmThen, Sup!Next, ManagerSteps, ScmNow

\* A command that fails has no effect.
LEMMA ScmFails ==
    ASSUME ScmNow, NEW c \in Clients, WS!Goes(c, "error"), sm' = sm,
           call[c].at \notin {"ok", "error"}, call[c].op # "none"
    PROVE  ScmThen
BY SameGoes, ScmRests, ScmActs DEF Reached

LEMMA ScmInstalls ==
    ASSUME ScmNow, NEW c \in Clients,
           \/ WS!QueryConfig(c) \/ WS!SetBinPath(c) \/ WS!Create(c) \/ WS!Describe(c)
           \/ WS!SetRecovery(c)
    PROVE  ScmThen
<1>0. HostOK(sm) /\ ScmCall(c) /\ platform = "scm" /\ platform' = platform
  BY DEF ScmNow, IInv
<1>1. call[c].op = "install" /\ call[c].at \notin {"ok", "error"}
  BY <1>0 DEF WS!QueryConfig, WS!SetBinPath, WS!Create, WS!Describe, WS!SetRecovery, WS!Commands,
              WS!At, ScmCall, Serves
<1>2. CASE sm' = sm /\ WS!Goes(c, "error")
  BY <1>1, <1>2, ScmFails
<1>3. StopsFirst /\ sm'.state # "absent" => Sup!Effect("install")
  BY <1>0, ScmView DEF Sup!Effect, StopsFirst
<1>4. CASE WS!QueryConfig(c)
  <2>1. sm' = sm /\ \E p \in {"binPath", "create"} : Advance(c, p)
    BY <1>4, SameGoes DEF WS!QueryConfig
  <2>2. \A p \in {"binPath", "create"} : Reached(c, p)
    BY <1>1 DEF Reached
  <2> QED BY <1>1, <2>1, <2>2, ScmRests, ScmActs
<1>5. CASE WS!SetBinPath(c)
  <2>1. CASE sm' = sm /\ sm.state # "absent" /\ Advance(c, "ok")
    <3>1. Reached(c, "ok")
      BY <1>1, <1>3, <2>1, ScmRests DEF Reached
    <3> QED BY <1>1, <2>1, <3>1, ScmRests, ScmActs
  <2> QED BY <1>2, <1>5, <2>1, SameGoes DEF WS!SetBinPath, WS!Commands, WS!Fails, WS!Exists
<1>6. CASE WS!Describe(c)
  <2>1. CASE sm' = sm /\ Advance(c, "recover")
    <3>1. Reached(c, "recover")
      BY <1>1 DEF Reached
    <3> QED BY <1>1, <2>1, <3>1, ScmRests, ScmActs
  <2> QED BY <1>2, <1>6, <2>1, SameGoes DEF WS!Describe, WS!Commands, WS!Fails, WS!Exists
<1>7. CASE WS!Create(c)
  <2>1. CASE /\ sm.state = "absent" /\ Advance(c, "describe")
             /\ sm' = [sm EXCEPT !.state = "STOPPED", !.auto = TRUE, !.recovery = FALSE]
    <3>1. /\ HostOK(sm') /\ sm'.state = "STOPPED" /\ sm'.auto /\ sm'.drivers = 0
          /\ sm'.due = sm.due /\ sm'.launches = sm.launches
      BY <1>0, <2>1 DEF HostOK, Record, WS!States
    <3>2. StopsFirst
      BY <2>1, <3>1 DEF StopsFirst
    <3>3. Sup!Wanted("install")
      BY <1>1 DEF Sup!Wanted, Asked
    <3>4. HostLife(sm') = HostLife(sm)
      BY <1>0, <2>1, <3>1 DEF HostLife, HostOK, Record
    <3>5. ManagerSteps
      BY <1>0, <2>1, <3>1, <3>3, <3>4, ScmView
         DEF ManagerSteps, Sup!RegistrationStep, Sup!LifeStep, Sup!QueueStep
    <3>6. Reached(c, "describe")
      BY <1>1 DEF Reached
    <3> QED BY <1>1, <2>1, <3>2, <3>5, <3>6, ScmActs
  <2> QED BY <1>2, <1>7, <2>1, SameGoes DEF WS!Create, WS!Fails, WS!Exists
<1>8. CASE WS!SetRecovery(c)
  <2>1. CASE sm' = [sm EXCEPT !.recovery = TRUE] /\ sm.state # "absent" /\ Advance(c, "ok")
    <3>1. /\ HostOK(sm') /\ sm'.state = sm.state /\ sm'.auto = sm.auto /\ sm'.drivers = sm.drivers
          /\ sm'.due = sm.due /\ sm'.launches = sm.launches
      BY <1>0, <2>1 DEF HostOK, Record
    <3>2. StopsFirst
      BY <3>1 DEF StopsFirst
    <3>3. HostLife(sm') = HostLife(sm)
      BY <3>1 DEF HostLife
    <3>4. ManagerSteps
      BY <1>0, <3>1, <3>3, ScmView DEF ManagerSteps, Sup!RegistrationStep, Sup!LifeStep, Sup!QueueStep
    <3>5. Reached(c, "ok")
      BY <1>1, <1>3, <2>1, <3>1, <3>2 DEF Reached
    <3> QED BY <1>1, <2>1, <3>2, <3>4, <3>5, ScmActs
  <2> QED BY <1>2, <1>8, <2>1, SameGoes DEF WS!SetRecovery, WS!Commands, WS!Fails, WS!Exists
<1> QED BY <1>4, <1>5, <1>6, <1>7, <1>8

LEMMA ScmStarts ==
    ASSUME ScmNow, NEW c \in Clients, WS!StartService(c)
    PROVE  ScmThen
<1>0. HostOK(sm) /\ ScmCall(c) /\ platform = "scm" /\ platform' = platform
  BY DEF ScmNow, IInv
<1>1. call[c].op \in {"start", "restart"} /\ call[c].at = "start"
  BY <1>0 DEF WS!StartService, WS!Commands, WS!At, ScmCall, Serves
<1>2. CASE sm' = sm /\ WS!Goes(c, "error")
  BY <1>1, <1>2, ScmFails
<1>3. CASE sm' = sm /\ sm.state \notin {"absent", "STOPPED"} /\ ~ call[c].gone /\ Advance(c, "ok")
  <2>1. HostLife(sm') # "down"
    BY <1>3 DEF HostLife
  <2>2. Reached(c, "ok")
    <3>1. call[c].op = "start" => Sup!Effect(call[c].op)
      BY <1>0, <1>3, <2>1, ScmView DEF Sup!Effect
    <3>2. call[c].op = "restart" => met[c]
      BY <1>0, <1>1, <1>3 DEF ScmCall, StopSeen
    <3> QED BY <1>1, <3>1, <3>2 DEF Reached
  <2> QED BY <1>1, <1>3, <2>2, ScmRests, ScmActs
<1>4. CASE sm.state = "STOPPED" /\ sm' = WS!Starting(sm) /\ Advance(c, "ok")
  <2>1. (~ sm.launches) \in BOOLEAN /\ (~ sm.launches) # sm.launches
    BY <1>0 DEF HostOK, Record
  <2>2. /\ HostOK(sm') /\ sm'.state = "START_PENDING" /\ sm'.auto = sm.auto /\ sm'.drivers = 0
        /\ sm'.launches # sm.launches
    BY <1>0, <1>4, <2>1 DEF HostOK, Record, WS!States, WS!Starting
  <2>3. StopsFirst
    BY <1>4, <2>2 DEF StopsFirst
  <2>4. HostLife(sm') = "between" /\ HostLife(sm) # "up"
    BY <1>0, <1>4, <2>2 DEF HostLife, HostOK
  <2>5. Sup!Wanted(call[c].op)
    BY DEF Sup!Wanted, Asked
  <2>6. Sup!RegistrationStep /\ Sup!QueueStep
    BY <1>0, <1>4, <2>2, ScmView DEF Sup!RegistrationStep, Sup!QueueStep
  <2>7. Sup!LifeStep
    BY <1>0, <1>1, <2>2, <2>4, <2>5, ScmView DEF Sup!LifeStep
  <2>8. Reached(c, "ok")
    BY <1>0, <1>1, <2>2, <2>4, ScmView DEF Reached, Sup!Effect
  <2> QED BY <1>1, <1>4, <2>3, <2>6, <2>7, <2>8, ScmActs DEF ManagerSteps
<1> QED BY <1>2, <1>3, <1>4, SameGoes DEF WS!StartService, WS!Commands, WS!Fails, WS!Exists, WS!Runs

LEMMA ScmStops ==
    ASSUME ScmNow, NEW c \in Clients, WS!StopService(c)
    PROVE  ScmThen
<1>0. HostOK(sm) /\ ScmCall(c) /\ platform = "scm" /\ platform' = platform
  BY DEF ScmNow, IInv
<1>1. call[c].op \in {"stop", "restart"} /\ call[c].at = "stop"
  BY <1>0 DEF WS!StopService, WS!At, ScmCall, Serves
<1>2. CASE sm' = sm /\ WS!Goes(c, "error")
  BY <1>1, <1>2, ScmFails
<1>3. CASE sm' = sm /\ sm.state = "STOPPED" /\ WS!Goes(c, WS!AfterStop(c))
  <2>1. CASE call[c].op = "restart"
    <3>1. Advance(c, "start") /\ Reached(c, "start")
      BY <1>3, <2>1, SameGoes DEF WS!AfterStop, Reached
    <3> QED BY <1>1, <1>3, <3>1, ScmRests, ScmActs
  <2>2. CASE call[c].op = "stop"
    <3>1. Advance(c, "ok")
      BY <1>3, <2>2, SameGoes DEF WS!AfterStop
    <3>2. HostLife(sm') # "up"
      BY <1>0, <1>3 DEF HostLife, HostOK
    <3>3. Reached(c, "ok")
      BY <1>0, <1>3, <2>2, <3>2, ScmView DEF Reached, Sup!Effect
    <3> QED BY <1>1, <1>3, <3>1, <3>3, ScmRests, ScmActs
  <2> QED BY <1>1, <2>1, <2>2
<1>4. CASE sm.state = "RUNNING" /\ WS!Goes(c, "poll") /\ sm' = [sm EXCEPT !.stop = TRUE]
  <2>1. /\ HostOK(sm') /\ sm'.state = "RUNNING" /\ sm'.auto = sm.auto /\ sm'.drivers = sm.drivers
        /\ sm'.due = sm.due /\ sm'.launches = sm.launches
    BY <1>0, <1>4 DEF HostOK, Record
  <2>2. StopsFirst
    BY <1>4, <2>1 DEF StopsFirst
  <2>3. HostLife(sm') = HostLife(sm)
    BY <1>4, <2>1 DEF HostLife
  <2>4. ManagerSteps
    BY <1>0, <1>4, <2>1, <2>3, ScmView DEF ManagerSteps, Sup!RegistrationStep, Sup!LifeStep, Sup!QueueStep
  <2>5. Advance(c, "poll") /\ Reached(c, "poll")
    BY <1>1, <1>4, <2>1, SameGoes DEF Reached
  <2> QED BY <1>1, <2>2, <2>4, <2>5, ScmActs
<1> QED BY <1>2, <1>3, <1>4 DEF WS!StopService, WS!Fails

LEMMA ScmPolls ==
    ASSUME ScmNow, NEW c \in Clients, WS!PollStopped(c) \/ WS!PollTimesOut(c)
    PROVE  ScmThen
<1>0. HostOK(sm) /\ ScmCall(c) /\ platform = "scm" /\ platform' = platform
  BY DEF ScmNow, IInv
<1>1. call[c].op \in {"stop", "restart"} /\ call[c].at = "poll" /\ sm' = sm
  BY <1>0 DEF WS!PollStopped, WS!PollTimesOut, WS!At, ScmCall, Serves
<1>2. CASE WS!PollTimesOut(c)
  BY <1>1, <1>2, ScmFails DEF WS!PollTimesOut
<1>3. CASE WS!PollStopped(c)
  <2>1. ~ call[c].gone => sm.state \notin {"RUNNING", "STOP_PENDING"}
    BY <1>3 DEF WS!PollStopped, WS!MayFail, ScmNow, NoQueryError
  <2>2. ~ call[c].gone => met[c] \/ (call[c].op = "restart" /\ sm.state = "STOPPED")
    BY <1>0, <1>1, <2>1 DEF ScmCall, StopSeen
  <2>3. CASE call[c].op = "restart"
    <3>1. Advance(c, "start") /\ Reached(c, "start")
      BY <1>1, <1>3, <2>2, <2>3, SameGoes DEF WS!PollStopped, WS!AfterStop, Reached
    <3> QED BY <1>1, <3>1, ScmRests, ScmActs
  <2>4. CASE call[c].op = "stop"
    <3>1. Advance(c, "ok") /\ Reached(c, "ok")
      BY <1>1, <1>3, <2>2, <2>4, SameGoes DEF WS!PollStopped, WS!AfterStop, Reached
    <3> QED BY <1>1, <3>1, ScmRests, ScmActs
  <2> QED BY <1>1, <2>3, <2>4
<1> QED BY <1>2, <1>3

LEMMA ScmSetsType ==
    ASSUME ScmNow, NEW c \in Clients, WS!SetStartType(c)
    PROVE  ScmThen
<1>0. HostOK(sm) /\ ScmCall(c) /\ platform = "scm" /\ platform' = platform
  BY DEF ScmNow, IInv
<1>1. call[c].op \in {"enable", "disable"} /\ call[c].at = "type"
  BY <1>0 DEF WS!SetStartType, WS!Commands, WS!At, ScmCall, Serves
<1>2. CASE sm' = sm /\ WS!Goes(c, "error")
  BY <1>1, <1>2, ScmFails
<1>3. CASE sm' = [sm EXCEPT !.auto = call[c].op = "enable"] /\ sm.state # "absent" /\ Advance(c, "ok")
  <2>1. (call[c].op = "enable") \in BOOLEAN
    OBVIOUS
  <2>2. /\ HostOK(sm') /\ sm'.state = sm.state /\ sm'.auto = (call[c].op = "enable")
        /\ sm'.drivers = sm.drivers /\ sm'.due = sm.due /\ sm'.launches = sm.launches
    BY <1>0, <1>3, <2>1 DEF HostOK, Record
  <2>3. StopsFirst
    BY <2>2 DEF StopsFirst
  <2>4. HostLife(sm') = HostLife(sm)
    BY <2>2 DEF HostLife
  <2>5. Sup!Wanted(call[c].op)
    BY DEF Sup!Wanted, Asked
  <2>6. ManagerSteps
    BY <1>0, <1>1, <1>3, <2>2, <2>4, <2>5, ScmView
       DEF ManagerSteps, Sup!RegistrationStep, Sup!LifeStep, Sup!QueueStep
  <2>7. Reached(c, "ok")
    BY <1>0, <1>1, <1>3, <2>2, ScmView DEF Reached, Sup!Effect
  <2> QED BY <1>1, <1>3, <2>3, <2>6, <2>7, ScmActs
<1> QED BY <1>2, <1>3, SameGoes DEF WS!SetStartType, WS!Commands, WS!Fails, WS!Exists

\* What the host and the manager do by themselves.
LEMMA ScmHosts ==
    ASSUME ScmNow, WS!HostSteps \/ WS!Recovers
    PROVE  ScmThen
<1>0. HostOK(sm) /\ CallType /\ platform = "scm" /\ platform' = platform
  BY DEF ScmNow, IInv
<1>1. ASSUME WS!HostSteps
      PROVE  /\ call' = call /\ HostOK(sm') /\ sm'.auto = sm.auto /\ sm'.launches = sm.launches
             /\ sm.state \in {"START_PENDING", "RUNNING", "STOP_PENDING"}
             /\ sm'.state \in {"STOPPED", "START_PENDING", "RUNNING", "STOP_PENDING"}
             /\ sm'.state = "START_PENDING" => sm.state = "START_PENDING"
  <2>1. CASE WS!HostFails
    BY <1>0, <2>1 DEF WS!HostFails, WS!Host, WS!Stopped, HostOK, Record, WS!States
  <2>2. CASE WS!HostSpawns
    BY <1>0, <2>2 DEF WS!HostSpawns, WS!Host, HostOK, Record, WS!States
  <2>3. CASE WS!HostReports \/ WS!HostTakesStop
    BY <1>0, <2>3 DEF WS!HostReports, WS!HostTakesStop, WS!Host, HostOK, Record, WS!States
  <2>4. CASE WS!DriverExits \/ WS!KillEnds
    BY <1>0, <2>4 DEF WS!DriverExits, WS!KillEnds, WS!Host, HostOK, Record, WS!States
  <2>5. CASE WS!HostSeesExit
    BY <1>0, <2>5 DEF WS!HostSeesExit, WS!Host, WS!Stopped, HostOK, Record, WS!States
  <2>6. CASE WS!HostStops
    BY <1>0, <2>6 DEF WS!HostStops, WS!Host, WS!Stopped, HostOK, Record, WS!States
  <2> QED BY <1>1, <2>1, <2>2, <2>3, <2>4, <2>5, <2>6 DEF WS!HostSteps
<1>2. call' = call /\ StopsFirst /\ ManagerSteps
  <2>1. CASE WS!Recovers /\ sm.state = "STOPPED"
    <3>1. (~ sm.launches) \in BOOLEAN /\ (~ sm.launches) # sm.launches
      BY <1>0 DEF HostOK, Record
    <3>2. /\ call' = call /\ HostOK(sm') /\ sm'.state = "START_PENDING" /\ sm'.auto = sm.auto
          /\ sm'.drivers = 0 /\ sm'.launches # sm.launches
      BY <1>0, <2>1, <3>1 DEF WS!Recovers, WS!Host, WS!Starting, HostOK, Record, WS!States
    <3>3. StopsFirst
      BY <2>1, <3>2 DEF StopsFirst
    <3>4. HostLife(sm) = "between" /\ HostLife(sm') = "between"
      BY <1>0, <2>1, <3>2 DEF WS!Recovers, HostLife, HostOK
    <3> QED BY <1>0, <2>1, <3>2, <3>3, <3>4, ScmView
            DEF ManagerSteps, Sup!RegistrationStep, Sup!LifeStep, Sup!QueueStep
  <2>2. CASE WS!Recovers /\ sm.state # "STOPPED"
    <3>1. /\ call' = call /\ HostOK(sm') /\ sm'.state = sm.state /\ sm'.auto = sm.auto
          /\ sm'.drivers = sm.drivers /\ sm'.launches = sm.launches
      BY <1>0, <2>2 DEF WS!Recovers, WS!Host, HostOK, Record
    <3>2. StopsFirst
      BY <3>1 DEF StopsFirst
    <3>3. HostLife(sm) # "down"
      BY <1>0, <2>2 DEF WS!Recovers, HostLife
    <3> QED BY <1>0, <3>1, <3>2, <3>3, ScmView
            DEF ManagerSteps, Sup!RegistrationStep, Sup!LifeStep, Sup!QueueStep
  <2>3. CASE WS!HostSteps
    <3>1. HostOK(sm') /\ StopsFirst
      BY <1>1, <2>3 DEF StopsFirst
    <3>2. HostLife(sm) # "down"
      BY <1>1, <2>3 DEF HostLife
    <3> QED BY <1>0, <1>1, <2>3, <3>1, <3>2, ScmView
            DEF ManagerSteps, Sup!RegistrationStep, Sup!LifeStep, Sup!QueueStep
  <2> QED BY <2>1, <2>2, <2>3
<1>3. ASSUME NEW d \in Clients PROVE ScmCall(d)'
  BY <1>2, ScmWaits
<1>4. CallType'
  BY <1>0, <1>2, SameCalls, MetType DEF CallType, ScmNow
<1>5. HostOK(sm)'
  BY <1>2 DEF StopsFirst
<1> QED BY <1>0, <1>2, <1>3, <1>4, <1>5, SameCalls DEF ScmThen, Sup!Next, ManagerSteps, ScmNow

LEMMA ScmReboots ==
    ASSUME ScmNow, WS!Reboots
    PROVE  ScmThen
<1>0. HostOK(sm) /\ platform = "scm" /\ platform' = platform
  BY DEF ScmNow, IInv
<1>1. /\ HostOK(sm') /\ sm'.auto = sm.auto /\ sm'.drivers = 0 /\ sm'.due = FALSE
      /\ sm'.state = IF sm.auto /\ sm.state # "absent" THEN "START_PENDING"
                     ELSE IF sm.state # "absent" THEN "STOPPED" ELSE "absent"
  BY <1>0 DEF WS!Reboots, WS!Exists, HostOK, Record, WS!States
<1>2. call' \in [Clients -> CallRec] /\
      \A c \in Clients : call'[c].op = "none" /\ call'[c].at = "none" /\ ~ call'[c].gone
  BY NoneCalls, SameNoCalls DEF WS!Reboots
<1>3. \A c \in Clients : ~ met'[c]
  BY <1>2 DEF ScmNow, Sup!Remembers, Asked
<1>4. Sup!Reboot
  <2>1. \A c \in Clients : Asked(c)' = "none" /\ Answer(c)' = "none"
    BY <1>2 DEF Asked, Answer
  <2>2. {c \in Clients : call[c].gone}' = {}
    BY <1>2
  <2>3. HostLife(sm') = IF sm.auto /\ sm.state # "absent" THEN "between" ELSE "down"
    BY <1>1 DEF HostLife
  <2>4. HostOK(sm) /\ sm.auto \in BOOLEAN /\ sm'.auto \in BOOLEAN
    BY <1>0, <1>1 DEF HostOK, Record
  <2> QED BY <1>0, <1>1, <1>3, <2>1, <2>2, <2>3, <2>4, ScmView DEF Sup!Reboot
<1>5. ASSUME NEW d \in Clients PROVE ScmCall(d)'
  BY <1>2 DEF ScmCall, Serves, StopSeen
<1>6. CallType'
  BY <1>2, MetType DEF CallType, ScmNow
<1> QED BY <1>1, <1>4, <1>5, <1>6 DEF ScmThen, Sup!Next

LEMMA ScmStep == ASSUME ScmNow, WS!Next PROVE ScmThen
BY ScmCalls, ScmInstalls, ScmStarts, ScmStops, ScmPolls, ScmSetsType, ScmHosts, ScmReboots
   DEF WS!Next, WS!Steps

-----------------------------------------------------------------------------
(* All three.                                                              *)

LEMMA Initially == Init => IInv /\ Sup!Init
<1> SUFFICES ASSUME Init PROVE IInv /\ Sup!Init
  OBVIOUS
<1>1. /\ platform \in {"systemd", "launchd", "scm"} /\ met = [c \in Clients |-> FALSE]
      /\ call = [c \in Clients |-> SD!Quiet]
  BY DEF Init, SD!Init, LD!Init, WS!Init, SD!Quiet, LD!Quiet, WS!Quiet
<1>2. CallType /\ \A c \in Clients : call[c].op = "none" /\ call[c].at = "none" /\ ~ call[c].gone
  BY <1>1 DEF CallType, SD!Quiet, CallRec, Points
<1>3. /\ [c \in Clients |-> Asked(c)] = [c \in Clients |-> "none"]
      /\ [c \in Clients |-> Answer(c)] = [c \in Clients |-> "none"]
      /\ {c \in Clients : call[c].gone} = {}
  BY <1>2 DEF Asked, Answer
<1>4. CASE platform = "systemd"
  <2>1. sm.job = "none" /\ sm.unit = "dead" /\ sm.launches = FALSE /\ UnitOK
    BY <1>4 DEF Init, SD!Init, UnitOK
  <2>2. \A c \in Clients : SystemdCall(c)
    BY <1>2 DEF SystemdCall, Serves, WaitsForItsJob
  <2>3. Sup!Init
    BY <1>1, <1>3, <1>4, <2>1 DEF Sup!Init, Choose, Life, SD!Life, SD!Installed, SD!BootSwitch, UnitOK
  <2> QED BY <1>1, <1>2, <1>4, <2>1, <2>2, <2>3 DEF IInv
<1>5. CASE platform = "launchd"
  <2>1. sm.run = "off" /\ sm.launches = FALSE /\ JobOK
    BY <1>5 DEF Init, LD!Init, JobOK
  <2>2. \A c \in Clients : LaunchdCall(c)
    BY <1>2 DEF LaunchdCall, Serves, RestartSeesLaunch
  <2>3. Sup!Init
    BY <1>1, <1>3, <1>5, <2>1 DEF Sup!Init, Choose, Life, LD!Life, LD!Installed, LD!BootSwitch, JobOK
  <2> QED BY <1>1, <1>2, <1>5, <2>1, <2>2, <2>3 DEF IInv
<1>6. CASE platform = "scm"
  <2>1. /\ sm.state \in {"absent", "STOPPED"} /\ sm.drivers = 0 /\ ~ sm.due
        /\ sm.launches = FALSE /\ HostOK(sm)
    BY <1>6 DEF Init, WS!Init, HostOK, Record, WS!States
  <2>2. \A c \in Clients : ScmCall(c)
    BY <1>2 DEF ScmCall, Serves, StopSeen
  <2>3. Sup!Init
    BY <1>1, <1>3, <1>6, <2>1 DEF Sup!Init, Choose, Life, WS!Life, WS!Installed, WS!BootSwitch, WS!Exists,
                                  HostOK, Record
  <2> QED BY <1>1, <1>2, <1>6, <2>1, <2>2, <2>3 DEF IInv
<1> QED BY <1>1, <1>4, <1>5, <1>6

LEMMA Stutters == ASSUME UNCHANGED vars PROVE UNCHANGED Sup!vars /\ (IInv => IInv')
<1>1. platform' = platform /\ sm' = sm /\ call' = call /\ met' = met
  BY DEF vars
<1>2. UNCHANGED Sup!vars
  BY <1>1 DEF Sup!vars, Choose, Life, SD!Life, LD!Life, WS!Life, SD!Installed, LD!Installed, WS!Installed,
              SD!BootSwitch, LD!BootSwitch, WS!BootSwitch, WS!Exists, Asked, Answer
<1>3. IInv => IInv'
  BY <1>1 DEF IInv, CallType, UnitOK, JobOK, HostOK, SystemdCall, LaunchdCall, ScmCall, Serves,
              WaitsForItsJob, RestartSeesLaunch, StopSeen
<1> QED BY <1>2, <1>3

\* A step of the service manager in use is a step of Supervisor.
LEMMA StepImplements ==
    ASSUME IInv, NoQueryError, Next
    PROVE  IInv' /\ Sup!Next /\ (platform # "scm" => Sticks)
<1>1. platform' = platform /\ Sup!Remembers /\ Manages
  BY DEF Next
<1>2. CASE platform = "systemd"
  BY <1>1, <1>2, SystemdStep DEF SystemdNow, SystemdThen, Manages, IInv
<1>3. CASE platform = "launchd"
  BY <1>1, <1>3, LaunchdStep DEF LaunchdNow, LaunchdThen, Manages, IInv
<1>4. CASE platform = "scm"
  BY <1>1, <1>4, ScmStep DEF ScmNow, ScmThen, Manages, IInv
<1> QED BY <1>2, <1>3, <1>4 DEF IInv

LEMMA Invariant == ASSUME NoQueryError PROVE Spec => []IInv
<1>1. IInv /\ [Next]_vars => IInv'
  BY Stutters, StepImplements
<1> QED BY <1>1, Initially, PTL DEF Spec

\* Each back-end, over its service manager, does what the interface says (hurd/
\* supervisor.go:9-27): nobody but Enable and Disable sets the boot switch, nothing is
\* launched that was not asked for, and nil means that the effect was there, however
\* many calls overlap and whatever fails or is given up.  Excluded is only a state
\* that cannot be read: RestartLaunches shows what it leads to.
THEOREM ImplementsSupervisor == ASSUME NoQueryError PROVE Spec => SupervisorSpec
<1>1. IInv /\ [Next]_vars => [Sup!Next]_(Sup!vars)
  BY Stutters, StepImplements
<1> QED BY <1>1, Initially, Invariant, PTL DEF Spec, SupervisorSpec, Sup!Spec

\* When Stop returns on systemd or launchd no driver runs and none is about to be
\* retried (hurd/supervisor_systemd.go, hurd/supervisor_launchd.go:130).
THEOREM StopsStick == ASSUME NoQueryError PROVE Spec => StopSticks
<1> DEFINE S == \A c \in Clients :
              Answers(c, "stop") /\ ~ call[c].gone /\ platform # "scm" => Life' = "down"
<1>1. IInv /\ [Next]_vars => [S]_vars
  BY StepImplements DEF Sticks
<1> QED BY <1>1, Invariant, PTL DEF Spec, StopSticks

-----------------------------------------------------------------------------
(* The host of a Windows driver, whatever fails.                           *)

HostInv == platform = "scm" => HostOK(sm)

\* What the client's commands do to the service: none touches the driver.
LEMMA CommandsKeep ==
    ASSUME HostOK(sm), NEW c \in Clients, WS!Calls(c) \/ WS!Steps(c) \/ WS!Leaves(c)
    PROVE  HostOK(sm')
<1>1. CASE WS!Calls(c) \/ WS!Leaves(c) \/ WS!Returns(c) \/ WS!QueryConfig(c)
           \/ WS!PollStopped(c) \/ WS!PollTimesOut(c)
  <2>1. sm' = sm
    BY <1>1 DEF WS!Calls, WS!Leaves, WS!Returns, WS!QueryConfig, WS!PollStopped, WS!PollTimesOut
  <2> QED BY <2>1
<1>2. ASSUME NEW p, NEW ok, NEW effect, HostOK(effect), WS!Commands(c, p, ok, effect)
      PROVE  HostOK(sm')
  BY <1>2 DEF WS!Commands, WS!Fails
<1>3. CASE WS!SetBinPath(c) \/ WS!Describe(c)
  <2>1. sm' = sm
    BY <1>3 DEF WS!SetBinPath, WS!Describe, WS!Commands, WS!Fails
  <2> QED BY <2>1
<1>4. CASE WS!Create(c)
  BY <1>4 DEF WS!Create, WS!Exists, WS!Fails, WS!States, HostOK, Record
<1>5. CASE WS!SetRecovery(c)
  <2>1. HostOK([sm EXCEPT !.recovery = TRUE])
    BY DEF HostOK, Record
  <2> QED BY <1>2, <1>5, <2>1 DEF WS!SetRecovery
<1>6. CASE WS!StartService(c)
  <2>1. sm.state = "STOPPED" => HostOK(WS!Starting(sm))
    BY DEF HostOK, Record, WS!Starting, WS!States
  <2> QED BY <1>2, <1>6, <2>1 DEF WS!StartService
<1>7. CASE WS!StopService(c)
  BY <1>7 DEF WS!StopService, WS!Fails, HostOK, Record
<1>8. CASE WS!SetStartType(c)
  <2>1. \A b \in BOOLEAN : HostOK([sm EXCEPT !.auto = b])
    BY DEF HostOK, Record
  <2>2. (call[c].op = "enable") \in BOOLEAN
    OBVIOUS
  <2> QED BY <1>2, <1>8, <2>1, <2>2 DEF WS!SetStartType
<1> QED BY <1>1, <1>3, <1>4, <1>5, <1>6, <1>7, <1>8 DEF WS!Steps

\* The host spawns a driver only where it has none, and stops without one.
LEMMA HostKeeps ==
    ASSUME HostOK(sm), WS!HostSteps \/ WS!Recovers \/ WS!Reboots
    PROVE  HostOK(sm')
<1>1. \A f \in BOOLEAN : sm.drivers = 0 => HostOK(WS!Stopped(sm, f))
  BY DEF HostOK, Record, WS!Stopped, WS!States
<1>2. CASE WS!HostFails \/ WS!HostSeesExit \/ WS!HostStops
  BY <1>1, <1>2 DEF WS!HostFails, WS!HostSeesExit, WS!HostStops, WS!Host
<1>3. CASE WS!HostSpawns
  BY <1>3 DEF WS!HostSpawns, WS!Host, HostOK, Record
<1>4. CASE WS!HostReports \/ WS!HostTakesStop
  BY <1>4 DEF WS!HostReports, WS!HostTakesStop, WS!Host, WS!States, HostOK, Record
<1>5. CASE WS!DriverExits \/ WS!KillEnds
  BY <1>5 DEF WS!DriverExits, WS!KillEnds, WS!Host, HostOK, Record
<1>6. CASE WS!Recovers
  BY <1>6 DEF WS!Recovers, WS!Host, WS!Starting, WS!States, HostOK, Record
<1>7. CASE WS!Reboots
  BY <1>7 DEF WS!Reboots, WS!Exists, WS!States, HostOK, Record
<1> QED BY <1>2, <1>3, <1>4, <1>5, <1>6, <1>7 DEF WS!HostSteps

\* In every reachable state at most one driver of an instance runs, and none outlives
\* the service that hosts it (hurd/launch_windows.go:81-86).
THEOREM OneDriverRuns == Spec => []OneDriver
<1>1. Init => HostInv
  BY DEF Init, HostInv, HostOK, Record, WS!Init, WS!States
<1>2. HostInv /\ [Next]_vars => HostInv'
  <2> SUFFICES ASSUME HostInv, [Next]_vars, platform' = "scm" PROVE HostOK(sm')
    BY DEF HostInv, HostOK
  <2>1. CASE UNCHANGED vars
    BY <2>1 DEF vars, HostInv, HostOK
  <2>2. CASE Next
    <3>1. platform = "scm" /\ WS!Next
      BY <2>2 DEF Next, Manages
    <3> QED BY <3>1, CommandsKeep, HostKeeps DEF HostInv, WS!Next
  <2> QED BY <2>1, <2>2
<1>3. HostInv => OneDriver
  BY DEF HostInv, HostOK, Record, OneDriver
<1> QED BY <1>1, <1>2, <1>3, PTL DEF Spec

=============================================================================
