------------------------------ MODULE LogPage -------------------------------
(***************************************************************************)
(* The log view in the browser (hurd/logs.js): one chain of loads, each    *)
(* begun two seconds after the last one ended, that Pause, a hidden tab    *)
(* and leaving the page interrupt.  As in EditorPage, a load is stale when *)
(* stop has run since it began (version # revision).                       *)
(***************************************************************************)
EXTENDS Naturals

CONSTANT MaxLoads  \* bound: the loads of one behaviour

VARIABLES
    view,    \* the script's requests and what is displayed:
             \*   loads   the requests under way, by number, stale or not
             \*   request the variable request is set
             \*   timer   the two-second timer is armed
             \*   refreshDisabled  the Refresh button
             \*   asked, shown     the last load begun and the one displayed
    paused, hidden,
    page,    \* "opening": before pageshow; "open"; "gone": after pagehide
    since    \* history: the loads begun when the user last clicked Pause
vars == <<view, paused, hidden, page, since>>

Empty == [loads |-> {}, request |-> FALSE, timer |-> FALSE,
          refreshDisabled |-> FALSE, asked |-> 0, shown |-> 0]

\* function load: one at a time, and none while the tab is hidden
Load(v, hid) ==
    IF v.request \/ hid THEN v
    ELSE [v EXCEPT !.timer = FALSE, !.request = TRUE, !.refreshDisabled = TRUE,
                   !.asked = v.asked + 1,
                   !.loads = v.loads \union {[n |-> v.asked + 1, stale |-> FALSE]}]

\* function stop
Stop(v) ==
    [v EXCEPT !.loads = {[l EXCEPT !.stale = TRUE] : l \in v.loads},
              !.timer = FALSE, !.request = FALSE, !.refreshDisabled = FALSE]

Init ==
    /\ hidden \in BOOLEAN /\ paused = FALSE /\ page = "opening" /\ since = 0
    /\ view = Load(Empty, hidden)

-----------------------------------------------------------------------------
\* Slips: finally, or the code before it, forgets that the load may be stale.
EndedAlways(v, l) ==
    [v EXCEPT !.loads = @ \ {l}, !.request = FALSE, !.refreshDisabled = FALSE,
              !.timer = ~ paused /\ ~ hidden]
DisplaysAlways(v, l) == [v EXCEPT !.shown = l.n]

\* The end of load: a stale one changes nothing; after an answer or an error the
\* next one is due in two seconds.
Ended(v, l) ==
    LET rest == [v EXCEPT !.loads = @ \ {l}] IN
    IF l.stale THEN rest
    ELSE [rest EXCEPT !.request = FALSE, !.refreshDisabled = FALSE,
                      !.timer = ~ paused /\ ~ hidden]

Displays(v, l) == IF l.stale THEN v ELSE [v EXCEPT !.shown = l.n]

\* The promise settles with the lines, or with an error: a refusal, an abort, 8 s.
Settles(l) ==
    /\ page # "gone"
    /\ view' \in {Ended(Displays(view, l), l), Ended(view, l)}
    /\ UNCHANGED <<paused, hidden, page, since>>

TimerFires ==
    /\ page # "gone" /\ view.timer
    /\ view' = Load([view EXCEPT !.timer = FALSE], hidden)
    /\ UNCHANGED <<paused, hidden, page, since>>

ClickPause ==
    /\ page # "gone"
    /\ paused' = ~ paused
    /\ view' = IF paused THEN Load(Stop(view), hidden) ELSE Stop(view)
    /\ since' = IF paused THEN since ELSE view.asked
    /\ UNCHANGED <<hidden, page>>

ClickRefresh ==
    /\ page # "gone" /\ ~ view.refreshDisabled
    /\ view' = Load(view, hidden)
    /\ UNCHANGED <<paused, hidden, page, since>>

VisibilityChange ==
    /\ hidden' = ~ hidden
    /\ view' = IF hidden /\ ~ paused THEN Load(Stop(view), FALSE) ELSE Stop(view)
    /\ UNCHANGED <<paused, page, since>>

PageHide ==
    /\ page # "gone" /\ page' = "gone"
    /\ view' = Stop(view)
    /\ UNCHANGED <<paused, hidden, since>>

PageShow ==
    /\ page # "open" /\ page' = "open"
    /\ view' = IF paused THEN view ELSE Load(view, hidden)
    /\ UNCHANGED <<paused, hidden, since>>

Next ==
    /\ \/ TimerFires \/ ClickPause \/ ClickRefresh
       \/ VisibilityChange \/ PageHide \/ PageShow
       \/ \E l \in view.loads : Settles(l)
    /\ view'.asked <= MaxLoads

-----------------------------------------------------------------------------
Live == {l \in view.loads : ~ l.stale}

\* There is one chain of loads: never two, none behind a paused or a hidden view,
\* and always one while the view is open, visible and not paused, whatever the
\* order in which clicks, tab switches and late answers come (hurd/logs.js:31-83).
OneChain ==
    /\ \A l, m \in Live : l = m
    /\ view.timer => Live = {}
    /\ paused \/ hidden => ~ view.timer
    /\ page # "gone" /\ ~ paused /\ ~ hidden => Live # {} \/ view.timer

\* The display never goes back to an older snapshot, and while it is paused only a
\* load the user asked for since then changes it ("Pause to read a fixed
\* snapshot", hurd/log_page.go:192).
SnapshotsAdvance ==
    [][view'.shown # view.shown =>
         /\ view'.shown > view.shown
         /\ paused => view'.shown > since]_vars
=============================================================================
