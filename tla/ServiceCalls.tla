---------------------------- MODULE ServiceCalls ----------------------------
(***************************************************************************)
(* Calls of the Supervisor interface as the page's requests make them: an  *)
(* operation is a sequence of commands to the service manager, run through *)
(* execRunner (hurd/supervisor_exec.go) under the request's context, and   *)
(* any number of requests overlap.                                         *)
(***************************************************************************)
CONSTANTS
    Clients,   \* requests that may overlap
    Faults     \* "command": a command fails without effect; "query": one that
               \* asks for a state fails; "leave": a request ends before its call

VARIABLES
    sm,        \* the service manager's record of the instance
    call       \* of each client: the operation, the next command, whether its
               \* request's context has ended

Quiet == [op |-> "none", at |-> "none", gone |-> FALSE]

At(c, p) == call[c].at = p
Moved(r, p) == [r EXCEPT !.at = p, !.gone = @ /\ p \notin {"ok", "error"}]
Goes(c, p) == call' = [call EXCEPT ![c] = Moved(@, p)]
Asks(c, op, p) ==
    call[c] = Quiet /\ call' = [call EXCEPT ![c] = [op |-> op, at |-> p, gone |-> FALSE]]
Answered(c) == call[c].at \in {"ok", "error"}
Pending(c) == call[c] # Quiet /\ ~ Answered(c)

\* A command runs unless its context has ended or it fails for a reason of its own.
Runs(c) == ~ call[c].gone
MayFail(c, kind) == call[c].gone \/ kind \in Faults

\* A command that has no effect and fails the operation.
Fails(c, kind) == MayFail(c, kind) /\ Goes(c, "error") /\ UNCHANGED sm

\* The browser leaves or the handler's 30 s are over.
Leaves(c) ==
    /\ "leave" \in Faults /\ Pending(c) /\ ~ call[c].gone
    /\ call' = [call EXCEPT ![c].gone = TRUE]
    /\ UNCHANGED sm
Returns(c) ==
    /\ Answered(c)
    /\ call' = [call EXCEPT ![c] = Quiet]
    /\ UNCHANGED sm

NoCalls == call' = [c \in Clients |-> Quiet]
=============================================================================
