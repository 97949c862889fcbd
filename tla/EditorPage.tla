----------------------------- MODULE EditorPage -----------------------------
(***************************************************************************)
(* The configuration editor in the browser (hurd/editor.js): Save opens    *)
(* only for a text that the server has checked.  revision is not counted:  *)
(* an answer is stale when changed has run since its check began, which is *)
(* what version # revision says.  An abort only makes an answer arrive.    *)
(***************************************************************************)
CONSTANTS
    Drafts,  \* the texts the editor may hold
    Parses,  \* those that are a JSON object once comments are stripped
    None     \* no text

VARIABLES
    text,           \* the text area
    checkedText,    \* the text that a check has accepted
    checkDisabled,  \* the Check button
    saveDisabled,   \* the Save button
    calls,          \* the checks under way: their draft, the server's answer, stale
    page,           \* "loading": the script ran, pageshow did not; "open"; "away"
    passed          \* history: the text the server accepted since the last change or save
vars == <<text, checkedText, checkDisabled, saveDisabled, calls, page, passed>>

Call == [draft : Drafts, answer : {"none", "valid", "refused"}, stale : BOOLEAN]

Init ==
    /\ text \in Drafts /\ checkedText = None /\ passed = None
    /\ checkDisabled = (text \notin Parses) /\ saveDisabled = TRUE
    /\ calls = {} /\ page = "loading"

\* A slip: a change leaves the Check button to the check under way.
ChangedKeepsCheck(t) ==
    /\ text' = t
    /\ calls' = {[c EXCEPT !.stale = TRUE] : c \in calls}
    /\ checkedText' = None /\ passed' = None
    /\ saveDisabled' = TRUE
    /\ checkDisabled' = (checkDisabled \/ t \notin Parses)

\* function changed
Changed(t) ==
    /\ text' = t
    /\ calls' = {[c EXCEPT !.stale = TRUE] : c \in calls}
    /\ checkedText' = None /\ passed' = None
    /\ saveDisabled' = TRUE
    /\ checkDisabled' = (t \notin Parses)

-----------------------------------------------------------------------------
Input ==
    /\ page # "away"
    /\ \E t \in Drafts : Changed(t)
    /\ UNCHANGED page

\* The browser puts back the text of an earlier visit, without an input event,
\* before it fires pageshow.
Restores ==
    /\ page = "loading"
    /\ text' \in Drafts
    /\ UNCHANGED <<checkedText, checkDisabled, saveDisabled, calls, page, passed>>

ClickCheck ==
    /\ page # "away" /\ ~ checkDisabled
    /\ calls' = calls \union {[draft |-> text, answer |-> "none", stale |-> FALSE]}
    /\ checkDisabled' = TRUE /\ saveDisabled' = TRUE /\ checkedText' = None
    /\ UNCHANGED <<text, page, passed>>

\* The server validates the draft; what it says of one text changes with the files.
Validates(c) ==
    /\ c.answer = "none"
    /\ \E a \in {"valid", "refused"} :
         /\ calls' = (calls \ {c}) \union {[c EXCEPT !.answer = a]}
         /\ passed' = IF a = "valid" /\ ~ c.stale THEN c.draft ELSE passed
    /\ UNCHANGED <<text, checkedText, checkDisabled, saveDisabled, page>>

\* A slip: the text is read when the answer comes.
CheckedNow(c) == text

\* The text that an answer speaks of: draft, taken when the check began.
Checked(c) == c.draft

\* The check's promise settles: with the answer, or with an error when the request
\* fails, is aborted or has taken 10 s.
Settles(c) ==
    /\ page # "away"
    /\ calls' = calls \ {c}
    /\ IF c.stale THEN UNCHANGED <<checkedText, checkDisabled, saveDisabled>>
       ELSE /\ checkDisabled' = FALSE
            /\ \/ /\ c.answer = "valid"
                  /\ checkedText' = Checked(c) /\ saveDisabled' = FALSE
               \/ UNCHANGED <<checkedText, saveDisabled>>
    /\ UNCHANGED <<text, page, passed>>

SubmitAllowed == checkedText # None /\ checkedText = text /\ ~ saveDisabled

SubmitRefused ==
    /\ page # "away" /\ ~ SubmitAllowed
    /\ Changed(text)
    /\ UNCHANGED page

\* The form is sent; the page stays usable until the answer replaces it.
Submits ==
    /\ page # "away" /\ SubmitAllowed
    /\ saveDisabled' = TRUE /\ passed' = None
    /\ UNCHANGED <<text, checkedText, checkDisabled, calls, page>>

Leaves ==
    /\ page # "away" /\ page' = "away"
    /\ UNCHANGED <<text, checkedText, checkDisabled, saveDisabled, calls, passed>>

\* pageshow: the end of loading, or the return to a page the browser had kept.
PageShow ==
    /\ page # "open" /\ page' = "open"
    /\ Changed(text)

\* The page is loaded again: the script starts anew, with changed.  The calls of the
\* page that is gone may as well stay, stale.
Reloads ==
    /\ page = "away" /\ page' = "loading"
    /\ \E t \in Drafts : Changed(t)

Next ==
    \/ Input \/ Restores \/ ClickCheck \/ SubmitRefused \/ Submits
    \/ Leaves \/ PageShow \/ Reloads
    \/ \E c \in calls : Validates(c) \/ Settles(c)

-----------------------------------------------------------------------------
\* What is submitted is the text that the server has accepted, once for each
\* check and since the last change of any kind; and while the page is usable
\* Save is open only for the text in the editor.  The answer of a check of an
\* earlier text may still arrive, and the browser may put back a text without
\* telling the script (hurd/editor.js:85, 104, 113).
SaveIsChecked ==
    /\ SubmitAllowed => passed = text
    /\ ~ saveDisabled /\ page = "open" => checkedText = text

\* On an open page a check always gives the button back: no answer within 10 s aborts the request
\* (hurd/editor.js:73, 95-100).
CheckReturns ==
    checkDisabled /\ text \in Parses ~> ~ checkDisabled \/ text \notin Parses \/ page # "open"

\* The scheduling the browser guarantees: a request ends, at the latest by the abort.
CallsSettle == \E c \in calls : ~ c.stale /\ Settles(c)
=============================================================================
