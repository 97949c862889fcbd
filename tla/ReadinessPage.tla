--------------------------- MODULE ReadinessPage ----------------------------
(***************************************************************************)
(* The readiness column of the device page (hurd/readiness.js:1-38 and the *)
(* answer of hurd/readiness.go): up to three tasks share the list of       *)
(* cells, and each label shows what the server found of its device.  Of a  *)
(* label the finding is kept; the Enabled or Disabled before it, which a   *)
(* failed check copies from the label it replaces, is left out.            *)
(***************************************************************************)
EXTENDS Naturals

CONSTANTS
    Findings,    \* what the server can find of a device: its entry, or its daemon's word
    Unverified,  \* the label of a device that it could not check
    None,        \* no answer yet
    N,           \* the number of cells
    Tasks        \* the tasks, at most three of the code's

VARIABLES
    conf,     \* what there is to find of each device
    badge,    \* what each label says, or Unverified
    next,     \* the first cell no task has taken
    doing,    \* the cell each task updates, or 0
    answer,   \* what the server has said of that cell, or None
    running,  \* Refresh is disabled
    covered,  \* history: the cells updated in this round
    was       \* history: what conf has been since the check of the cell began
vars == <<conf, badge, next, doing, answer, running, covered, was>>

Cells == 1..N

Init ==
    /\ conf = [c \in Cells |-> CHOOSE f \in Findings : TRUE]  \* or else: entries change
    /\ was = [c \in Cells |-> {conf[c]}]
    /\ badge = [c \in Cells |-> Unverified] /\ next = 1 /\ running = TRUE
    /\ doing = [t \in Tasks |-> 0] /\ answer = [t \in Tasks |-> None]
    /\ covered = {}

-----------------------------------------------------------------------------
\* Somebody edits the device or switches it, or its daemon has something else to say.
EntryChanges(c) ==
    /\ \E k \in Findings \ {conf[c]} :
        conf' = [conf EXCEPT ![c] = k] /\ was' = [was EXCEPT ![c] = @ \union {k}]
    /\ UNCHANGED <<badge, next, doing, answer, running, covered>>

\* A slip: the last cell is forgotten.
CellsLeftButOne == next < N

CellsLeft == next <= N

\* A task takes the next cell: update begins.
Takes(t) ==
    /\ running /\ doing[t] = 0 /\ CellsLeft
    /\ doing' = [doing EXCEPT ![t] = next]
    /\ was' = [was EXCEPT ![next] = {conf[next]}]
    /\ next' = next + 1
    /\ UNCHANGED <<conf, badge, answer, running, covered>>

\* handleReadiness reads the file and, of an enabled device, what its daemon says, as if
\* at one moment; a check or a daemon that takes too long leaves it not verified.
Answers(t) ==
    /\ doing[t] # 0 /\ answer[t] = None
    /\ \E s \in {conf[doing[t]], Unverified} : answer' = [answer EXCEPT ![t] = s]
    /\ UNCHANGED <<conf, badge, next, doing, running, covered, was>>

\* A slip: a check that fails leaves the label of an earlier round.
LabelKept(c) == badge[c]
LabelOnError(c) == Unverified

\* The cell's promise settles, with the answer or, after at most 10 s, an error.
Settles(t) ==
    LET c == doing[t] IN
    /\ c # 0
    /\ \/ answer[t] # None /\ badge' = [badge EXCEPT ![c] = answer[t]]
       \/ badge' = [badge EXCEPT ![c] = LabelOnError(c)]
    /\ doing' = [doing EXCEPT ![t] = 0] /\ answer' = [answer EXCEPT ![t] = None]
    /\ covered' = covered \union {c}
    /\ UNCHANGED <<conf, next, running, was>>

\* Promise.all: every task has found the list empty.
RoundEnds ==
    /\ running /\ ~ CellsLeft /\ \A t \in Tasks : doing[t] = 0
    /\ running' = FALSE
    /\ UNCHANGED <<conf, badge, next, doing, answer, covered, was>>

ClickRefresh ==
    /\ ~ running /\ running' = TRUE
    /\ next' = 1 /\ covered' = {}
    /\ UNCHANGED <<conf, badge, doing, answer, was>>

Next ==
    \/ RoundEnds \/ ClickRefresh
    \/ \E t \in Tasks : Takes(t) \/ Answers(t) \/ Settles(t)
    \/ \E c \in Cells : EntryChanges(c)

-----------------------------------------------------------------------------
\* Between checks a label says what its device was at some moment since the latest check
\* of the cell began, or that nothing is verified: however late the answers are and
\* whatever fails, no finding outlives the next check (hurd/readiness.js:11-24).
LabelsFresh ==
    \A c \in Cells : (\A t \in Tasks : doing[t] # c) => badge[c] \in was[c] \union {Unverified}

\* A round that has ended updated every cell, and no two tasks ever update the same
\* one (hurd/readiness.js:29-33).
RoundCovers ==
    /\ ~ running => covered = Cells
    /\ \A t, u \in Tasks : t # u /\ doing[t] # 0 => doing[t] # doing[u]

\* Refresh comes back, although the requests of a round may all fail or hang.
RefreshReturns == running ~> ~ running

\* What the browser guarantees: tasks go on and requests end.
TasksStep == RoundEnds \/ \E t \in Tasks : Takes(t) \/ Settles(t)
=============================================================================
