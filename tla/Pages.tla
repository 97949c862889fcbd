------------------------------- MODULE Pages --------------------------------
(***************************************************************************)
(* The scripts of the setup pages.  A browser tab shows one of them; they  *)
(* share nothing but the server, whose answers each module leaves open.    *)
(***************************************************************************)
EXTENDS Naturals

CONSTANTS  \* as in the modules below
    Drafts, Parses, None, MaxLoads, Findings, Unverified, N, Tasks

ASSUME EditorAssumption == Parses \subseteq Drafts /\ None \notin Drafts
ASSUME LogAssumption == MaxLoads \in Nat
ASSUME SetupAssumption ==
    /\ N \in Nat \ {0} /\ Tasks # {} /\ Findings # {}
    /\ None \notin Findings \union {Unverified}

VARIABLES
    tab,                      \* the page the tab shows
    text, checkedText, checkDisabled, saveDisabled, calls, page, passed,
    view, paused, hidden, logs, since,
    conf, badge, next, doing, answer, running, covered, was

Editor == INSTANCE EditorPage
Logs == INSTANCE LogPage WITH page <- logs
Setup == INSTANCE ReadinessPage

EditorVars == <<text, checkedText, checkDisabled, saveDisabled, calls, page, passed>>
LogVars == <<view, paused, hidden, logs, since>>
SetupVars == <<conf, badge, next, doing, answer, running, covered, was>>
vars == <<tab, EditorVars, LogVars, SetupVars>>

Init ==
    /\ tab \in {"editor", "logs", "setup"}
    /\ Editor!Init /\ Logs!Init /\ Setup!Init
    /\ tab # "logs" => ~ hidden

Next ==
    /\ UNCHANGED tab
    /\ \/ tab = "editor" /\ Editor!Next /\ UNCHANGED <<LogVars, SetupVars>>
       \/ tab = "logs" /\ Logs!Next /\ UNCHANGED <<EditorVars, SetupVars>>
       \/ tab = "setup" /\ Setup!Next /\ UNCHANGED <<EditorVars, LogVars>>

Spec == Init /\ [][Next]_vars

\* The event loop runs what is due, and every request has a timeout.
FairSpec ==
    /\ Spec
    /\ WF_vars(tab = "editor" /\ Editor!CallsSettle /\ UNCHANGED <<tab, LogVars, SetupVars>>)
    /\ WF_vars(tab = "setup" /\ Setup!TasksStep /\ UNCHANGED <<tab, EditorVars, LogVars>>)

-----------------------------------------------------------------------------
\* Save opens only for what the server has checked (EditorPage, hurd/editor.js:104).
SaveIsChecked == Editor!SaveIsChecked

\* The log view polls in one chain and never stalls (LogPage, hurd/logs.js:31-83).
OneChain == Logs!OneChain

\* The log view never goes back, and keeps still when paused (LogPage,
\* hurd/logs.js:42, 67-73).
SnapshotsAdvance == Logs!SnapshotsAdvance

\* A readiness label never shows a finding older than its latest check
\* (ReadinessPage, hurd/readiness.js:11-24).
LabelsFresh == Setup!LabelsFresh

\* Every round of readiness checks covers the page (ReadinessPage,
\* hurd/readiness.js:29-33).
RoundCovers == Setup!RoundCovers

\* No button stays disabled over a request: Check comes back, and so does Refresh
\* (hurd/editor.js:95-100, hurd/readiness.js:33).
ButtonsReturn ==
    /\ tab = "editor" => Editor!CheckReturns
    /\ tab = "setup" => Setup!RefreshReturns
=============================================================================
