---------------------------- MODULE PagesProofs ----------------------------
(***************************************************************************)
(* Proofs that the scripts of the setup pages are safe, for any texts,     *)
(* cells and tasks.  The scripts share no variable: each has an inductive  *)
(* invariant of its own, and a step of another script leaves it alone.     *)
(***************************************************************************)
EXTENDS Pages, TLAPS

(***************************************************************************)
(* The editor.                                                             *)
(***************************************************************************)

\* Only one check under way is not stale, and while there is one neither button is
\* open; what it has been told is what the server accepted last, and on an open page
\* it is about the text shown.
FreshCalls ==
    \A c \in calls : ~ c.stale =>
        /\ \A d \in calls : ~ d.stale => d = c
        /\ checkDisabled = TRUE /\ saveDisabled = TRUE
        /\ page = "open" => c.draft = text
        /\ c.answer = "valid" => passed = c.draft
\* Save is open for what the server accepted last.
SaveOpen ==
    \/ saveDisabled = TRUE
    \/ passed = checkedText /\ (page = "open" => checkedText = text)
EditorInv ==
    /\ text \in Drafts /\ calls \subseteq Editor!Call /\ saveDisabled \in BOOLEAN
    /\ FreshCalls /\ SaveOpen

\* What SaveIsChecked says of a state follows from the invariant.
LEMMA EditorInvImplies == EditorInv => SaveIsChecked
BY DEF EditorInv, SaveOpen, SaveIsChecked, Editor!SaveIsChecked, Editor!SubmitAllowed

\* changed ends every check that is under way, and closes Save.
LEMMA ChangedKeeps ==
    ASSUME EditorInv, NEW t \in Drafts, Editor!Changed(t)
    PROVE  EditorInv'
<1>1. calls' = {[c EXCEPT !.stale = TRUE] : c \in calls}
  BY DEF Editor!Changed
<1>2. \A c \in calls : [c EXCEPT !.stale = TRUE] \in Editor!Call /\ [c EXCEPT !.stale = TRUE].stale
  BY DEF EditorInv, Editor!Call
<1>3. calls' \subseteq Editor!Call /\ \A c \in calls' : c.stale
  BY <1>1, <1>2
<1>4. FreshCalls'
  BY <1>3 DEF FreshCalls
<1>5. text' \in Drafts /\ saveDisabled' = TRUE
  BY DEF Editor!Changed
<1> QED BY <1>3, <1>4, <1>5 DEF EditorInv, SaveOpen

\* A check begins when none is under way that is not stale, since Check is open.
LEMMA ClickCheckKeeps ==
    ASSUME EditorInv, Editor!ClickCheck
    PROVE  EditorInv'
<1> DEFINE new == [draft |-> text, answer |-> "none", stale |-> FALSE]
<1>1. \A c \in calls : c.stale
  BY DEF EditorInv, FreshCalls, Editor!ClickCheck, Editor!Call
<1>2. calls' = calls \union {new}
  BY DEF Editor!ClickCheck
<1>3. new \in Editor!Call
  BY DEF EditorInv, Editor!Call
<1>4. calls' \subseteq Editor!Call
  BY <1>2, <1>3 DEF EditorInv
<1>5. \A c \in calls' : ~ c.stale => c = new
  BY <1>1, <1>2
<1>6. /\ text' = text /\ text \in Drafts
      /\ checkDisabled' = TRUE /\ saveDisabled' = TRUE
  BY DEF Editor!ClickCheck, EditorInv
<1>7. new.draft = text' /\ new.answer # "valid"
  BY <1>6
<1>8. FreshCalls'
  <2> HIDE DEF new
  <2> QED BY <1>5, <1>6, <1>7 DEF FreshCalls
<1> QED BY <1>4, <1>6, <1>8 DEF EditorInv, SaveOpen

\* The server's answer to the check that is not stale is what it accepted last.
LEMMA ValidatesKeeps ==
    ASSUME EditorInv, NEW c \in calls, Editor!Validates(c)
    PROVE  EditorInv'
<1>1. PICK a \in {"valid", "refused"} :
        /\ calls' = (calls \ {c}) \union {[c EXCEPT !.answer = a]}
        /\ passed' = IF a = "valid" /\ ~ c.stale THEN c.draft ELSE passed
  BY DEF Editor!Validates
<1> DEFINE told == [c EXCEPT !.answer = a]
<1>2. UNCHANGED <<text, checkedText, checkDisabled, saveDisabled, page>>
  BY DEF Editor!Validates
<1>3. /\ told \in Editor!Call /\ told.draft = c.draft /\ told.answer = a
      /\ told.stale = c.stale
  BY DEF EditorInv, Editor!Call
<1>4. calls' \subseteq Editor!Call
  BY <1>1, <1>3 DEF EditorInv
<1>5. CASE c.stale
  <2>1. \A d \in calls' : ~ d.stale => d \in calls
    BY <1>1, <1>3, <1>5
  <2>2. passed' = passed
    BY <1>1, <1>5
  <2>3. FreshCalls' /\ SaveOpen'
    BY <1>2, <2>1, <2>2 DEF EditorInv, FreshCalls, SaveOpen
  <2> QED BY <1>2, <1>4, <2>3 DEF EditorInv
<1>6. CASE ~ c.stale
  <2>1. \A d \in calls : ~ d.stale => d = c
    BY <1>6 DEF EditorInv, FreshCalls
  <2>2. \A d \in calls' : ~ d.stale => d = told
    BY <1>1, <2>1
  <2>3. /\ checkDisabled = TRUE /\ saveDisabled = TRUE
        /\ page = "open" => c.draft = text
    BY <1>6 DEF EditorInv, FreshCalls
  <2>4. told.answer = "valid" => passed' = told.draft
    BY <1>1, <1>3, <1>6
  <2>5. FreshCalls' /\ SaveOpen'
    BY <1>2, <1>3, <2>2, <2>3, <2>4 DEF FreshCalls, SaveOpen
  <2> QED BY <1>2, <1>4, <2>5 DEF EditorInv
<1> QED BY <1>5, <1>6

\* Save opens with the answer of the one check that is not stale.
LEMMA EditorSettlesKeeps ==
    ASSUME EditorInv, NEW c \in calls, Editor!Settles(c)
    PROVE  EditorInv'
<1>1. calls' = calls \ {c} /\ UNCHANGED <<text, page, passed>>
  BY DEF Editor!Settles
<1>2. CASE c.stale
  <2>1. UNCHANGED <<checkedText, checkDisabled, saveDisabled>>
    BY <1>2 DEF Editor!Settles
  <2> QED BY <1>1, <2>1 DEF EditorInv, FreshCalls, SaveOpen
<1>3. CASE ~ c.stale
  <2>1. \A d \in calls' : d.stale
    BY <1>1, <1>3 DEF EditorInv, FreshCalls
  <2>2. /\ saveDisabled = TRUE
        /\ page = "open" => c.draft = text
        /\ c.answer = "valid" => passed = c.draft
    BY <1>3 DEF EditorInv, FreshCalls
  <2>3. \/ c.answer = "valid" /\ checkedText' = c.draft /\ saveDisabled' = FALSE
        \/ UNCHANGED <<checkedText, saveDisabled>>
    BY <1>3 DEF Editor!Settles, Editor!Checked
  <2>4. SaveOpen' /\ saveDisabled' \in BOOLEAN
    BY <1>1, <2>2, <2>3 DEF SaveOpen
  <2> QED BY <1>1, <2>1, <2>4 DEF EditorInv, FreshCalls
<1> QED BY <1>2, <1>3

\* Every step of the editor keeps its invariant.
LEMMA EditorStepKeeps == EditorInv /\ Editor!Next => EditorInv'
<1> SUFFICES ASSUME EditorInv, Editor!Next PROVE EditorInv'
  OBVIOUS
<1>1. CASE Editor!Input
  BY <1>1, ChangedKeeps DEF Editor!Input
<1>2. CASE Editor!Restores
  BY <1>2 DEF Editor!Restores, EditorInv, FreshCalls, SaveOpen
<1>3. CASE Editor!ClickCheck
  BY <1>3, ClickCheckKeeps
<1>4. CASE Editor!SubmitRefused
  BY <1>4, ChangedKeeps DEF Editor!SubmitRefused, EditorInv
<1>5. CASE Editor!Submits
  <2>1. \A c \in calls : c.stale
    BY <1>5 DEF Editor!Submits, Editor!SubmitAllowed, EditorInv, FreshCalls
  <2> QED BY <1>5, <2>1 DEF Editor!Submits, EditorInv, FreshCalls, SaveOpen
<1>6. CASE Editor!Leaves
  BY <1>6 DEF Editor!Leaves, EditorInv, FreshCalls, SaveOpen
<1>7. CASE Editor!PageShow
  BY <1>7, ChangedKeeps DEF Editor!PageShow, EditorInv
<1>8. CASE Editor!Reloads
  BY <1>8, ChangedKeeps DEF Editor!Reloads
<1>9. CASE \E c \in calls : Editor!Validates(c) \/ Editor!Settles(c)
  BY <1>9, ValidatesKeeps, EditorSettlesKeeps
<1> QED BY <1>1, <1>2, <1>3, <1>4, <1>5, <1>6, <1>7, <1>8, <1>9 DEF Editor!Next

\* In every reachable state what can be submitted is the text that the server has
\* accepted since the last change, and Save is open only for the text in the editor
\* (hurd/editor.js:85, 104, 113).
THEOREM SavesWhatWasChecked == Spec => []SaveIsChecked
<1>1. Init => EditorInv
  BY DEF Init, Editor!Init, EditorInv, FreshCalls, SaveOpen
<1>2. EditorInv /\ [Next]_vars => EditorInv'
  <2> SUFFICES ASSUME EditorInv, [Next]_vars PROVE EditorInv'
    OBVIOUS
  <2>1. Editor!Next \/ UNCHANGED EditorVars
    BY DEF Next, vars
  <2>2. CASE UNCHANGED EditorVars
    BY <2>2 DEF EditorVars, EditorInv, FreshCalls, SaveOpen
  <2> QED BY <2>1, <2>2, EditorStepKeeps
<1> QED BY <1>1, <1>2, EditorInvImplies, PTL DEF Spec

(***************************************************************************)
(* The readiness column.                                                   *)
(***************************************************************************)

Labels == Findings \union {Unverified}
SetupTypes ==
    /\ conf \in [Setup!Cells -> Findings] /\ badge \in [Setup!Cells -> Labels]
    /\ was \in [Setup!Cells -> SUBSET Findings]
    /\ next \in 1..(N + 1) /\ running \in BOOLEAN
    /\ doing \in [Tasks -> Setup!Cells \union {0}]
    /\ answer \in [Tasks -> Labels \union {None}]
\* The tasks of a round are at different cells, all behind next.
TasksApart ==
    /\ \A t \in Tasks : doing[t] # 0 => running /\ doing[t] < next
    /\ \A t, u \in Tasks : t # u /\ doing[t] # 0 => doing[t] # doing[u]
\* An answer is of what its device has been since the check began.
AnswersHold ==
    /\ \A c \in Setup!Cells : conf[c] \in was[c]
    /\ \A t \in Tasks : doing[t] = 0 => answer[t] = None
    /\ \A t \in Tasks : answer[t] # None => answer[t] \in was[doing[t]] \union {Unverified}
\* The cells behind next are updated, but for those that the tasks are at.
Behind(c) == c \in Setup!Cells /\ c < next /\ \A t \in Tasks : doing[t] # c
CoveredBehind ==
    \A c : c \in covered <=> IF running THEN Behind(c) ELSE c \in Setup!Cells
SetupInv ==
    /\ SetupTypes /\ TasksApart /\ AnswersHold /\ CoveredBehind
    /\ LabelsFresh

\* What RoundCovers says follows from the invariant.
LEMMA SetupInvImplies == SetupInv => LabelsFresh /\ RoundCovers
BY DEF SetupInv, TasksApart, CoveredBehind, RoundCovers, Setup!RoundCovers

\* A task begins with the first cell that no task has taken.
LEMMA TakesKeeps ==
    ASSUME SetupInv, NEW t \in Tasks, Setup!Takes(t)
    PROVE  SetupInv'
<1>1. /\ running /\ doing[t] = 0 /\ next <= N
      /\ doing' = [doing EXCEPT ![t] = next]
      /\ was' = [was EXCEPT ![next] = {conf[next]}]
      /\ next' = next + 1
      /\ UNCHANGED <<conf, badge, answer, running, covered>>
  BY DEF Setup!Takes, Setup!CellsLeft
<1>2. next \in Setup!Cells /\ N \in Nat
  BY <1>1, SetupAssumption DEF SetupInv, SetupTypes, Setup!Cells
<1>3. SetupTypes'
  BY <1>1, <1>2 DEF SetupInv, SetupTypes, Setup!Cells
<1>4. /\ doing'[t] = next
      /\ \A u \in Tasks \ {t} : doing'[u] = doing[u]
  BY <1>1 DEF SetupInv, SetupTypes
<1>5. \A u \in Tasks : doing[u] # next
  BY <1>2 DEF SetupInv, TasksApart, SetupTypes, Setup!Cells
<1>6. \A u \in Tasks : doing[u] \in Nat
  BY <1>2 DEF SetupInv, SetupTypes, Setup!Cells
<1>7. TasksApart'
  BY <1>1, <1>2, <1>4, <1>5, <1>6 DEF SetupInv, TasksApart, Setup!Cells
<1>8. was'[next] = {conf[next]} /\ \A c \in Setup!Cells \ {next} : was'[c] = was[c]
  BY <1>1, <1>2 DEF SetupInv, SetupTypes
<1>9. AnswersHold'
  <2>1. \A c \in Setup!Cells : conf'[c] \in was'[c]
    BY <1>1, <1>8 DEF SetupInv, AnswersHold
  <2>2. \A u \in Tasks : doing'[u] = 0 => answer'[u] = None
    BY <1>1, <1>4 DEF SetupInv, AnswersHold
  <2>3. ASSUME NEW u \in Tasks, answer'[u] # None
        PROVE  answer'[u] \in was'[doing'[u]] \union {Unverified}
    <3>1. u # t /\ doing'[u] = doing[u] /\ doing[u] # next /\ doing[u] \in Setup!Cells
      BY <1>1, <1>4, <1>5, <2>3 DEF SetupInv, SetupTypes, AnswersHold
    <3> QED BY <1>1, <1>8, <2>3, <3>1 DEF SetupInv, AnswersHold
  <2> QED BY <2>1, <2>2, <2>3 DEF AnswersHold
<1>10. \A c : Behind(c)' <=> Behind(c)
  <2> SUFFICES ASSUME NEW c \in Setup!Cells PROVE Behind(c)' <=> Behind(c)
    BY DEF Behind, Setup!Cells
  <2>1. CASE c = next
    <3>1. ~ Behind(c)
      BY <1>2, <2>1 DEF Behind, Setup!Cells
    <3>2. ~ Behind(c)'
      BY <1>4, <2>1 DEF Behind
    <3> QED BY <3>1, <3>2
  <2>2. CASE c # next
    <3>1. c < next' <=> c < next
      BY <1>1, <1>2, <2>2 DEF Setup!Cells
    <3>2. (\A u \in Tasks : doing'[u] # c) <=> (\A u \in Tasks : doing[u] # c)
      BY <1>1, <1>4, <2>2 DEF Setup!Cells
    <3> QED BY <3>1, <3>2 DEF Behind, Setup!Cells
  <2> QED BY <2>1, <2>2
<1>11. CoveredBehind'
  BY <1>1, <1>10 DEF SetupInv, CoveredBehind
<1>12. LabelsFresh'
  <2> SUFFICES ASSUME NEW c \in Setup!Cells, \A u \in Tasks : doing'[u] # c
               PROVE  badge'[c] \in was'[c] \union {Unverified}
    BY DEF LabelsFresh, Setup!LabelsFresh
  <2>1. c # next /\ \A u \in Tasks : doing[u] # c
    BY <1>1, <1>4 DEF Setup!Cells
  <2> QED BY <1>1, <1>8, <2>1 DEF SetupInv, LabelsFresh, Setup!LabelsFresh
<1> QED BY <1>3, <1>7, <1>9, <1>11, <1>12 DEF SetupInv

\* The server answers from what there is to find then.
LEMMA AnswersKeeps ==
    ASSUME SetupInv, NEW t \in Tasks, Setup!Answers(t)
    PROVE  SetupInv'
<1>1. /\ doing[t] # 0
      /\ \E s \in {conf[doing[t]], Unverified} : answer' = [answer EXCEPT ![t] = s]
      /\ UNCHANGED <<conf, badge, next, doing, running, covered, was>>
  BY DEF Setup!Answers
<1>2. PICK s \in {conf[doing[t]], Unverified} : answer' = [answer EXCEPT ![t] = s]
  BY <1>1
<1>3. doing[t] \in Setup!Cells /\ s \in Labels /\ s \in was[doing[t]] \union {Unverified}
  BY <1>1 DEF SetupInv, SetupTypes, AnswersHold, Labels
<1>4. SetupTypes'
  BY <1>1, <1>2, <1>3 DEF SetupInv, SetupTypes
<1>5. AnswersHold'
  BY <1>1, <1>2, <1>3 DEF SetupInv, SetupTypes, AnswersHold
<1> QED
  BY <1>1, <1>4, <1>5 DEF SetupInv, TasksApart, CoveredBehind, Behind, LabelsFresh,
     Setup!LabelsFresh

\* A cell is updated: with the answer, or as not verified.
LEMMA SetupSettlesKeeps ==
    ASSUME SetupInv, NEW t \in Tasks, Setup!Settles(t)
    PROVE  SetupInv'
<1>1. /\ doing[t] # 0
      /\ doing' = [doing EXCEPT ![t] = 0] /\ answer' = [answer EXCEPT ![t] = None]
      /\ covered' = covered \union {doing[t]}
      /\ UNCHANGED <<conf, next, running, was>>
  BY DEF Setup!Settles
<1>2. PICK s \in Labels : /\ s = Unverified \/ s = answer[t]
                         /\ badge' = [badge EXCEPT ![doing[t]] = s]
  <2>1. answer[t] \in Labels \/ answer[t] = None
    BY DEF SetupInv, SetupTypes
  <2>2. Unverified \in Labels
    BY DEF Labels
  <2>3. \/ answer[t] # None /\ badge' = [badge EXCEPT ![doing[t]] = answer[t]]
        \/ badge' = [badge EXCEPT ![doing[t]] = Unverified]
    BY DEF Setup!Settles, Setup!LabelOnError
  <2> QED BY <2>1, <2>2, <2>3
<1>3. doing[t] \in Setup!Cells /\ doing[t] < next /\ running
  BY <1>1 DEF SetupInv, SetupTypes, TasksApart
<1>4. /\ doing'[t] = 0 /\ answer'[t] = None
      /\ \A u \in Tasks \ {t} : doing'[u] = doing[u] /\ answer'[u] = answer[u]
  BY <1>1 DEF SetupInv, SetupTypes
<1>5. SetupTypes'
  BY <1>1, <1>2, <1>3 DEF SetupInv, SetupTypes
<1>6. TasksApart'
  BY <1>1, <1>4 DEF SetupInv, TasksApart
<1>7. AnswersHold'
  <2>1. \A c \in Setup!Cells : conf'[c] \in was'[c]
    BY <1>1 DEF SetupInv, AnswersHold
  <2>2. \A u \in Tasks : doing'[u] = 0 => answer'[u] = None
    BY <1>4 DEF SetupInv, AnswersHold
  <2>3. ASSUME NEW u \in Tasks, answer'[u] # None
        PROVE  answer'[u] \in was'[doing'[u]] \union {Unverified}
    BY <1>1, <1>4, <2>3 DEF SetupInv, AnswersHold
  <2> QED BY <2>1, <2>2, <2>3 DEF AnswersHold
<1>8. \A c : Behind(c)' <=> Behind(c) \/ c = doing[t]
  <2> SUFFICES ASSUME NEW c \in Setup!Cells PROVE Behind(c)' <=> Behind(c) \/ c = doing[t]
    BY <1>3 DEF Behind, Setup!Cells
  <2>1. c # 0
    BY DEF Setup!Cells
  <2>2. CASE c = doing[t]
    <3>1. \A u \in Tasks : doing'[u] # c
      BY <1>1, <1>4, <2>1, <2>2 DEF SetupInv, TasksApart
    <3> QED BY <1>1, <1>3, <2>2, <3>1 DEF Behind, Setup!Cells
  <2>3. CASE c # doing[t]
    <3>1. (\A u \in Tasks : doing'[u] # c) <=> (\A u \in Tasks : doing[u] # c)
      BY <1>4, <2>1, <2>3
    <3> QED BY <1>1, <2>3, <3>1 DEF Behind, Setup!Cells
  <2> QED BY <2>2, <2>3
<1>9. CoveredBehind'
  BY <1>1, <1>3, <1>8 DEF SetupInv, CoveredBehind
<1>10. LabelsFresh'
  <2> SUFFICES ASSUME NEW c \in Setup!Cells, \A u \in Tasks : doing'[u] # c
               PROVE  badge'[c] \in was[c] \union {Unverified}
    BY <1>1 DEF LabelsFresh, Setup!LabelsFresh
  <2>1. CASE c = doing[t]
    <3>1. badge'[c] = Unverified \/ (badge'[c] = answer[t] /\ badge'[c] \in Labels)
      BY <1>2, <1>3, <2>1 DEF SetupInv, SetupTypes
    <3>2. answer[t] # None => answer[t] \in was[c] \union {Unverified}
      BY <2>1 DEF SetupInv, AnswersHold
    <3>3. None \notin Labels
      BY SetupAssumption DEF Labels
    <3> QED BY <3>1, <3>2, <3>3
  <2>2. CASE c # doing[t]
    <3>1. badge'[c] = badge[c] /\ \A u \in Tasks : doing[u] # c
      BY <1>1, <1>2, <1>3, <1>4, <2>2 DEF SetupInv, SetupTypes
    <3> QED BY <3>1 DEF SetupInv, LabelsFresh, Setup!LabelsFresh
  <2> QED BY <2>1, <2>2
<1> QED BY <1>5, <1>6, <1>7, <1>9, <1>10 DEF SetupInv

\* A change adds to what a device has been.
LEMMA EntryChangesKeeps ==
    ASSUME SetupInv, NEW c \in Setup!Cells, Setup!EntryChanges(c)
    PROVE  SetupInv'
<1>1. UNCHANGED <<badge, next, doing, answer, running, covered>>
  BY DEF Setup!EntryChanges
<1>2. PICK k \in Findings : /\ conf' = [conf EXCEPT ![c] = k]
                           /\ was' = [was EXCEPT ![c] = @ \union {k}]
  BY DEF Setup!EntryChanges
<1>3. SetupTypes'
  BY <1>1, <1>2 DEF SetupInv, SetupTypes
<1>4. \A d \in Setup!Cells : was[d] \subseteq was'[d] /\ conf'[d] \in was'[d]
  BY <1>2 DEF SetupInv, SetupTypes, AnswersHold
<1>5. \A t \in Tasks : answer[t] # None => doing[t] \in Setup!Cells
  BY DEF SetupInv, SetupTypes, AnswersHold
<1>6. AnswersHold' /\ LabelsFresh'
  BY <1>1, <1>4, <1>5 DEF SetupInv, AnswersHold, LabelsFresh, Setup!LabelsFresh
<1> QED
  BY <1>1, <1>3, <1>6 DEF SetupInv, TasksApart, CoveredBehind, Behind, Setup!Cells

\* Every step of the readiness column keeps its invariant.
LEMMA SetupStepKeeps == SetupInv /\ Setup!Next => SetupInv'
<1> SUFFICES ASSUME SetupInv, Setup!Next PROVE SetupInv'
  OBVIOUS
<1>1. CASE Setup!RoundEnds
  <2>1. /\ ~ (next <= N) /\ \A t \in Tasks : doing[t] = 0
        /\ running /\ running' = FALSE
        /\ UNCHANGED <<conf, badge, next, doing, answer, covered, was>>
    BY <1>1 DEF Setup!RoundEnds, Setup!CellsLeft
  <2>2. \A c \in Setup!Cells : Behind(c)
    BY <2>1, SetupAssumption DEF SetupInv, SetupTypes, Behind, Setup!Cells
  <2>3. CoveredBehind'
    BY <2>1, <2>2 DEF SetupInv, CoveredBehind, Behind, Setup!Cells
  <2> QED
    BY <2>1, <2>3 DEF SetupInv, SetupTypes, TasksApart, AnswersHold, LabelsFresh,
       Setup!LabelsFresh
<1>2. CASE Setup!ClickRefresh
  <2>1. /\ running = FALSE /\ running' = TRUE
        /\ next' = 1 /\ covered' = {}
        /\ UNCHANGED <<conf, badge, doing, answer, was>>
    BY <1>2 DEF Setup!ClickRefresh, SetupInv, SetupTypes
  <2>2. \A t \in Tasks : doing[t] = 0
    BY <2>1 DEF SetupInv, TasksApart
  <2>3. SetupTypes' /\ TasksApart'
    BY <2>1, <2>2, SetupAssumption DEF SetupInv, SetupTypes, TasksApart
  <2>4. CoveredBehind'
    BY <2>1 DEF CoveredBehind, Behind, Setup!Cells
  <2> QED
    BY <2>1, <2>3, <2>4 DEF SetupInv, AnswersHold, LabelsFresh, Setup!LabelsFresh
<1>3. CASE \E t \in Tasks : Setup!Takes(t) \/ Setup!Answers(t) \/ Setup!Settles(t)
  BY <1>3, TakesKeeps, AnswersKeeps, SetupSettlesKeeps
<1>4. CASE \E c \in Setup!Cells : Setup!EntryChanges(c)
  BY <1>4, EntryChangesKeeps
<1> QED BY <1>1, <1>2, <1>3, <1>4 DEF Setup!Next

\* The readiness column's invariant holds in every reachable state.
LEMMA SetupInvariant == Spec => []SetupInv
<1>1. Init => SetupInv
  <2> SUFFICES ASSUME Setup!Init PROVE SetupInv
    BY DEF Init
  <2>1. SetupTypes /\ TasksApart /\ AnswersHold
    <3>1. (CHOOSE f \in Findings : TRUE) \in Findings
      BY SetupAssumption
    <3> QED BY <3>1, SetupAssumption DEF Setup!Init, SetupTypes, TasksApart, AnswersHold,
          Setup!Cells, Labels
  <2>2. CoveredBehind /\ LabelsFresh
    BY DEF Setup!Init, CoveredBehind, Behind, LabelsFresh, Setup!LabelsFresh, Setup!Cells
  <2> QED BY <2>1, <2>2 DEF SetupInv
<1>2. SetupInv /\ [Next]_vars => SetupInv'
  <2> SUFFICES ASSUME SetupInv, [Next]_vars PROVE SetupInv'
    OBVIOUS
  <2>1. Setup!Next \/ UNCHANGED SetupVars
    BY DEF Next, vars
  <2>2. CASE UNCHANGED SetupVars
    BY <2>2 DEF SetupVars, SetupInv, SetupTypes, TasksApart, AnswersHold, CoveredBehind, Behind,
       LabelsFresh, Setup!LabelsFresh, Setup!Cells
  <2> QED BY <2>1, <2>2, SetupStepKeeps
<1> QED BY <1>1, <1>2, PTL DEF Spec

\* Whatever fails and however often the devices change, a readiness label that is not
\* being updated says nothing older than its latest check (hurd/readiness.js:11-24).
THEOREM LabelsStayFresh == Spec => []LabelsFresh
BY SetupInvariant, SetupInvImplies, PTL

\* A round that has ended updated every cell, each by one task, however many tasks and
\* cells there are (hurd/readiness.js:29-33).
THEOREM RoundsCover == Spec => []RoundCovers
BY SetupInvariant, SetupInvImplies, PTL

(***************************************************************************)
(* The log view.                                                           *)
(***************************************************************************)

Request == [n : Nat, stale : BOOLEAN]
View == [loads : SUBSET Request, request : BOOLEAN, timer : BOOLEAN,
         refreshDisabled : BOOLEAN, asked : Nat, shown : Nat]
\* The variable request is set exactly while a load is under way that is not stale.
\* That load is the last one begun, is newer than what is shown, and excludes the timer.
Chain(v) ==
    /\ v \in View
    /\ \A l \in v.loads : l.stale = FALSE => v.request /\ l.n = v.asked
    /\ v.request => /\ \E l \in v.loads : l.stale = FALSE
                    /\ v.timer = FALSE /\ v.shown < v.asked
    /\ v.shown <= v.asked
\* The view polls when it should, and what is loaded behind a pause was asked for since.
Polls ==
    /\ paused \in BOOLEAN /\ hidden \in BOOLEAN /\ since \in Nat /\ since <= view.asked
    /\ view.timer => ~ paused /\ ~ hidden
    /\ logs # "gone" /\ ~ paused /\ ~ hidden => view.request \/ view.timer
    /\ paused /\ view.request => since < view.asked
LogInv == Chain(view) /\ Polls

\* load begins one request, or leaves everything as it is.
LEMMA LoadBegins ==
    ASSUME NEW v, Chain(v), NEW h \in BOOLEAN
    PROVE  LET w == Logs!Load(v, h) IN
           /\ Chain(w) /\ w.shown = v.shown /\ v.asked <= w.asked
           /\ w.request /\ ~ v.request => v.asked < w.asked
           /\ ~ h => w.request
           /\ h => w = v
           /\ w.timer => v.timer
<1> DEFINE w == Logs!Load(v, h)
           new == [n |-> v.asked + 1, stale |-> FALSE]
<1>1. CASE v.request \/ h
  <2>1. w = v
    BY <1>1 DEF Logs!Load
  <2> QED BY <1>1, <2>1 DEF Chain, View
<1>2. CASE ~ (v.request \/ h)
  <2>1. w = [v EXCEPT !.timer = FALSE, !.request = TRUE, !.refreshDisabled = TRUE,
                      !.asked = v.asked + 1, !.loads = v.loads \union {new}]
    BY <1>2 DEF Logs!Load
  <2>2. new \in Request /\ new.n = v.asked + 1 /\ new.stale = FALSE
    BY DEF Chain, View, Request
  <2> HIDE DEF new, w
  <2>3. v \in View /\ v.loads \union {new} \subseteq Request /\ v.asked + 1 \in Nat
    BY <2>2 DEF Chain, View
  <2>4. /\ w \in View /\ w.loads = v.loads \union {new} /\ w.request = TRUE
        /\ w.timer = FALSE /\ w.asked = v.asked + 1 /\ w.shown = v.shown
    BY <2>1, <2>3 DEF View
  <2>5. \A l \in v.loads : l.stale # FALSE
    BY <1>2 DEF Chain
  <2>6. v.shown <= v.asked /\ v.shown \in Nat /\ v.asked \in Nat
    BY DEF Chain, View
  <2>7. Chain(w)
    <3>1. \A l \in w.loads : l.stale = FALSE => w.request /\ l.n = w.asked
      BY <2>2, <2>4, <2>5
    <3>2. \E l \in w.loads : l.stale = FALSE
      BY <2>2, <2>4
    <3>3. w.shown < w.asked /\ w.shown <= w.asked
      BY <2>4, <2>6
    <3> QED BY <2>4, <3>1, <3>2, <3>3 DEF Chain
  <2> QED BY <1>2, <2>4, <2>6, <2>7 DEF w
<1> QED BY <1>1, <1>2

\* stop leaves no load under way but stale ones.
LEMMA StopEnds ==
    ASSUME NEW v, Chain(v)
    PROVE  LET w == Logs!Stop(v) IN
           /\ Chain(w) /\ ~ w.request /\ ~ w.timer
           /\ w.asked = v.asked /\ w.shown = v.shown
<1> DEFINE w == Logs!Stop(v)
           dead == {[l EXCEPT !.stale = TRUE] : l \in v.loads}
<1>1. \A l \in v.loads : [l EXCEPT !.stale = TRUE] \in Request /\ [l EXCEPT !.stale = TRUE].stale
  BY DEF Chain, View, Request
<1>2. dead \subseteq Request /\ \A l \in dead : l.stale
  BY <1>1
<1>3. w = [v EXCEPT !.loads = dead, !.timer = FALSE, !.request = FALSE,
                    !.refreshDisabled = FALSE]
  BY DEF Logs!Stop
<1> HIDE DEF dead
<1>4. /\ w \in View /\ w.loads = dead /\ w.request = FALSE /\ w.timer = FALSE
      /\ w.asked = v.asked /\ w.shown = v.shown
  BY <1>2, <1>3 DEF Chain, View
<1> HIDE DEF w
<1>5. Chain(w)
  BY <1>2, <1>4 DEF Chain
<1> QED BY <1>4, <1>5 DEF w

\* stop and then load begin a new chain.
LEMMA LoadBeginsAnew ==
    ASSUME NEW v, Chain(v), NEW h \in BOOLEAN
    PROVE  LET w == Logs!Load(Logs!Stop(v), h) IN
           /\ Chain(w) /\ w.shown = v.shown /\ v.asked <= w.asked
           /\ w.request => v.asked < w.asked
           /\ ~ h => w.request
           /\ ~ w.timer
<1>1. /\ Chain(Logs!Stop(v)) /\ ~ Logs!Stop(v).request /\ ~ Logs!Stop(v).timer
      /\ Logs!Stop(v).asked = v.asked /\ Logs!Stop(v).shown = v.shown
  BY StopEnds
<1> QED BY <1>1, LoadBegins

\* The end of a stale load changes nothing else; the end of the other one is the end
\* of the chain, but for the timer, and shows what it loaded or what was shown.
LEMMA LoadEnds ==
    ASSUME NEW v, Chain(v), NEW l \in v.loads, NEW w,
           w \in {Logs!Ended(Logs!Displays(v, l), l), Logs!Ended(v, l)},
           paused \in BOOLEAN, hidden \in BOOLEAN
    PROVE  /\ Chain(w) /\ w.asked = v.asked
           /\ l.stale => w.request = v.request /\ w.timer = v.timer /\ w.shown = v.shown
           /\ ~ l.stale => /\ ~ w.request /\ (w.timer <=> ~ paused /\ ~ hidden)
                           /\ w.shown \in {v.shown, v.asked}
                           /\ v.request
<1>1. v \in View /\ l \in Request /\ v.loads \subseteq Request
  BY DEF Chain, View
<1>2. CASE l.stale
  <2>1. w = [v EXCEPT !.loads = v.loads \ {l}]
    BY <1>1, <1>2 DEF Logs!Ended, Logs!Displays, View
  <2>2. /\ w \in View /\ w.loads = v.loads \ {l} /\ w.request = v.request
        /\ w.timer = v.timer /\ w.asked = v.asked /\ w.shown = v.shown
    BY <1>1, <2>1 DEF View
  <2>3. Chain(w)
    BY <1>2, <2>2 DEF Chain
  <2> QED BY <1>2, <2>2, <2>3
<1>3. CASE ~ l.stale
  <2>1. l.stale = FALSE /\ l.n = v.asked /\ v.request
    BY <1>1, <1>3 DEF Chain, Request
  <2>2. \A m \in v.loads : m.stale = FALSE => m = l
    BY <1>1, <2>1 DEF Chain, Request
  <2>3. PICK k \in {v.shown, v.asked} :
          w = [v EXCEPT !.shown = k, !.loads = v.loads \ {l}, !.request = FALSE,
                        !.refreshDisabled = FALSE, !.timer = ~ paused /\ ~ hidden]
    BY <1>1, <1>3, <2>1, ZenonT(60) DEF Logs!Ended, Logs!Displays, View
  <2>4. /\ w \in View /\ w.loads = v.loads \ {l} /\ w.request = FALSE
        /\ w.timer = (~ paused /\ ~ hidden) /\ w.asked = v.asked /\ w.shown = k
    BY <1>1, <2>3 DEF View
  <2>5. k <= v.asked
    BY <1>1 DEF Chain, View
  <2>6. Chain(w)
    BY <2>2, <2>4, <2>5 DEF Chain
  <2> QED BY <1>3, <2>1, <2>4, <2>6
<1> QED BY <1>2, <1>3

\* Every step of the log view keeps its invariant.
LEMMA LogStepKeeps == LogInv /\ Logs!Next => LogInv'
<1> SUFFICES ASSUME LogInv, Logs!Next PROVE LogInv'
  OBVIOUS
<1> USE DEF LogInv, Polls
<1>1. /\ view \in View /\ view.asked \in Nat
      /\ view.request => ~ view.timer
  BY DEF Chain, View
<1>2. \A v : Chain(v) => v.asked \in Nat
  BY DEF Chain, View
<1>3. CASE Logs!TimerFires
  <2> DEFINE v == [view EXCEPT !.timer = FALSE]
  <2>1. /\ view.timer /\ view' = Logs!Load(v, hidden)
        /\ UNCHANGED <<paused, hidden, logs, since>>
    BY <1>3 DEF Logs!TimerFires
  <2>2. v \in View /\ v.timer = FALSE /\ v.loads = view.loads /\ v.request = view.request
        /\ v.asked = view.asked /\ v.shown = view.shown
    BY <1>1 DEF View
  <2> HIDE DEF v
  <2>3. Chain(v)
    BY <2>2 DEF Chain
  <2>4. /\ Chain(view') /\ view.asked <= view'.asked /\ (~ hidden => view'.request)
        /\ view'.timer => view.timer
    BY <2>1, <2>2, <2>3, LoadBegins
  <2> QED BY <1>1, <1>2, <2>1, <2>4
<1>4. CASE Logs!ClickPause
  <2>1. UNCHANGED <<hidden, logs>> /\ paused' = ~ paused
    BY <1>4 DEF Logs!ClickPause
  <2>2. CASE paused
    <3>1. view' = Logs!Load(Logs!Stop(view), hidden) /\ since' = since /\ paused' = FALSE
      BY <1>4, <2>2 DEF Logs!ClickPause
    <3>2. /\ Chain(view') /\ view.asked <= view'.asked /\ (~ hidden => view'.request)
          /\ ~ view'.timer
      BY <3>1, LoadBeginsAnew
    <3> QED BY <1>1, <1>2, <2>1, <2>2, <3>1, <3>2
  <2>3. CASE ~ paused
    <3>1. view' = Logs!Stop(view) /\ since' = view.asked /\ paused' = TRUE
      BY <1>4, <2>3 DEF Logs!ClickPause
    <3>2. Chain(view') /\ ~ view'.request /\ ~ view'.timer /\ view'.asked = view.asked
      BY <3>1, StopEnds
    <3> QED BY <1>1, <2>1, <2>3, <3>1, <3>2
  <2> QED BY <2>2, <2>3
<1>5. CASE Logs!ClickRefresh
  <2>1. view' = Logs!Load(view, hidden) /\ UNCHANGED <<paused, hidden, logs, since>>
    BY <1>5 DEF Logs!ClickRefresh
  <2>2. /\ Chain(view') /\ view.asked <= view'.asked
        /\ view'.request /\ ~ view.request => view.asked < view'.asked
        /\ ~ hidden => view'.request
        /\ view'.timer => view.timer
    BY <2>1, LoadBegins
  <2>3. view.request => view' = view
    BY <2>1 DEF Logs!Load
  <2> QED BY <1>1, <1>2, <2>1, <2>2, <2>3
<1>6. CASE Logs!VisibilityChange
  <2>1. UNCHANGED <<paused, logs, since>> /\ hidden' = ~ hidden
    BY <1>6 DEF Logs!VisibilityChange
  <2>2. CASE hidden /\ ~ paused
    <3>1. view' = Logs!Load(Logs!Stop(view), FALSE)
      BY <1>6, <2>2 DEF Logs!VisibilityChange
    <3>2. Chain(view') /\ view.asked <= view'.asked /\ view'.request /\ ~ view'.timer
      BY <3>1, LoadBeginsAnew
    <3> QED BY <1>1, <1>2, <2>1, <2>2, <3>2
  <2>3. CASE ~ (hidden /\ ~ paused)
    <3>1. view' = Logs!Stop(view)
      BY <1>6, <2>3 DEF Logs!VisibilityChange
    <3>2. Chain(view') /\ ~ view'.request /\ ~ view'.timer /\ view'.asked = view.asked
      BY <3>1, StopEnds
    <3> QED BY <1>1, <2>1, <2>3, <3>2
  <2> QED BY <2>2, <2>3
<1>7. CASE Logs!PageHide
  <2>1. /\ view' = Logs!Stop(view) /\ logs' = "gone"
        /\ UNCHANGED <<paused, hidden, since>>
    BY <1>7 DEF Logs!PageHide
  <2> QED BY <1>1, <2>1, StopEnds
<1>8. CASE Logs!PageShow
  <2>1. UNCHANGED <<paused, hidden, since>>
    BY <1>8 DEF Logs!PageShow
  <2>2. CASE paused
    <3>1. view' = view
      BY <1>8, <2>2 DEF Logs!PageShow
    <3> QED BY <2>1, <2>2, <3>1 DEF Chain
  <2>3. CASE ~ paused
    <3>1. view' = Logs!Load(view, hidden)
      BY <1>8, <2>3 DEF Logs!PageShow
    <3>2. /\ Chain(view') /\ view.asked <= view'.asked /\ (~ hidden => view'.request)
          /\ view'.timer => view.timer
      BY <3>1, LoadBegins
    <3> QED BY <1>1, <1>2, <2>1, <2>3, <3>2
  <2> QED BY <2>2, <2>3
<1>9. CASE \E l \in view.loads : Logs!Settles(l)
  <2>1. PICK l \in view.loads : Logs!Settles(l)
    BY <1>9
  <2>2. /\ logs # "gone"
        /\ view' \in {Logs!Ended(Logs!Displays(view, l), l), Logs!Ended(view, l)}
        /\ UNCHANGED <<paused, hidden, logs, since>>
    BY <2>1 DEF Logs!Settles
  <2>3. /\ Chain(view') /\ view'.asked = view.asked
        /\ l.stale => view'.request = view.request /\ view'.timer = view.timer
        /\ ~ l.stale => ~ view'.request /\ (view'.timer <=> ~ paused /\ ~ hidden)
    BY <2>2, LoadEnds
  <2> QED BY <2>2, <2>3 DEF Chain
<1> QED BY <1>3, <1>4, <1>5, <1>6, <1>7, <1>8, <1>9 DEF Logs!Next

\* The invariant says that there is one chain of loads.
LEMMA LogInvImplies == LogInv => OneChain
<1> SUFFICES ASSUME LogInv PROVE OneChain
  OBVIOUS
<1>1. \A l \in view.loads : l.stale \in BOOLEAN
  BY DEF LogInv, Chain, View, Request
<1>2. view.request <=> Logs!Live # {}
  BY <1>1 DEF LogInv, Chain, Logs!Live
<1>3. \A l, m \in Logs!Live : l = m
  BY DEF LogInv, Chain, View, Request, Logs!Live
<1>4. view.timer => Logs!Live = {}
  BY <1>2 DEF LogInv, Chain
<1>5. paused \/ hidden => ~ view.timer
  BY DEF LogInv, Polls
<1>6. logs # "gone" /\ ~ paused /\ ~ hidden => Logs!Live # {} \/ view.timer
  BY <1>2 DEF LogInv, Polls
<1> QED BY <1>3, <1>4, <1>5, <1>6 DEF OneChain, Logs!OneChain

\* What a step may show: what was shown, or the last load begun, which is newer and,
\* behind a pause, was asked for since.
LEMMA ShowsNewer ==
    ASSUME LogInv, Logs!Next, view'.shown # view.shown
    PROVE  view'.shown > view.shown /\ (paused => view'.shown > since)
<1>1. view \in View /\ view.shown \in Nat /\ view.asked \in Nat
  BY DEF LogInv, Chain, View
<1>2. CASE \E l \in view.loads : Logs!Settles(l)
  <2>1. PICK l \in view.loads :
          view' \in {Logs!Ended(Logs!Displays(view, l), l), Logs!Ended(view, l)}
    BY <1>2 DEF Logs!Settles
  <2>2. view.request /\ view'.shown \in {view.shown, view.asked}
    BY <2>1, LoadEnds DEF LogInv, Polls
  <2> QED BY <1>1, <2>2 DEF LogInv, Chain, Polls
<1>3. CASE ~ \E l \in view.loads : Logs!Settles(l)
  <2>1. CASE Logs!TimerFires
    <3> DEFINE v == [view EXCEPT !.timer = FALSE]
    <3>1. view' = Logs!Load(v, hidden)
      BY <2>1 DEF Logs!TimerFires
    <3>2. v \in View /\ v.timer = FALSE /\ v.loads = view.loads /\ v.request = view.request
          /\ v.asked = view.asked /\ v.shown = view.shown
      BY <1>1 DEF View
    <3> HIDE DEF v
    <3>3. Chain(v)
      BY <3>2 DEF Chain, LogInv
    <3> QED BY <3>1, <3>2, <3>3, LoadBegins DEF LogInv, Polls
  <2>2. CASE Logs!ClickPause \/ Logs!ClickRefresh \/ Logs!VisibilityChange
             \/ Logs!PageHide \/ Logs!PageShow
    <3>1. view' \in {view, Logs!Stop(view)} \union {Logs!Load(view, h) : h \in BOOLEAN}
                    \union {Logs!Load(Logs!Stop(view), h) : h \in BOOLEAN}
      BY <2>2 DEF LogInv, Polls, Logs!ClickPause, Logs!ClickRefresh, Logs!VisibilityChange,
         Logs!PageHide, Logs!PageShow
    <3> QED BY <3>1, StopEnds, LoadBegins, LoadBeginsAnew DEF LogInv
  <2> QED BY <1>3, <2>1, <2>2 DEF Logs!Next
<1> QED BY <1>2, <1>3

\* The log view's invariant holds in every reachable state.
LEMMA LogInvariant == Spec => []LogInv
<1>1. Init => LogInv
  <2> SUFFICES ASSUME Logs!Init PROVE LogInv
    BY DEF Init
  <2>1. Logs!Empty \in View /\ Logs!Empty.loads = {} /\ Logs!Empty.request = FALSE
        /\ Logs!Empty.timer = FALSE /\ Logs!Empty.asked = 0 /\ Logs!Empty.shown = 0
    BY DEF Logs!Empty, View
  <2>2. Chain(Logs!Empty)
    BY <2>1 DEF Chain
  <2>3. /\ view = Logs!Load(Logs!Empty, hidden)
        /\ hidden \in BOOLEAN /\ paused = FALSE /\ since = 0
    BY DEF Logs!Init
  <2>4. Chain(view) /\ 0 <= view.asked /\ (~ hidden => view.request) /\ ~ view.timer
    BY <2>1, <2>2, <2>3, LoadBegins
  <2> QED BY <2>3, <2>4 DEF LogInv, Polls
<1>2. LogInv /\ [Next]_vars => LogInv'
  <2> SUFFICES ASSUME LogInv, [Next]_vars PROVE LogInv'
    OBVIOUS
  <2>1. Logs!Next \/ UNCHANGED LogVars
    BY DEF Next, vars
  <2>2. CASE UNCHANGED LogVars
    BY <2>2 DEF LogVars, LogInv, Chain, Polls
  <2> QED BY <2>1, <2>2, LogStepKeeps
<1> QED BY <1>1, <1>2, PTL DEF Spec

\* The log view polls in one chain that never stalls, whatever order clicks, tab
\* switches and late answers come in, and for any number of loads (hurd/logs.js:31-83).
THEOREM PollsInOneChain == Spec => []OneChain
BY LogInvariant, LogInvImplies, PTL

\* The display never goes back and keeps still behind a pause (hurd/logs.js:42, 67-73).
THEOREM DisplayAdvances == Spec => SnapshotsAdvance
<1>1. LogInv /\ [Next]_vars => [view'.shown # view.shown =>
         /\ view'.shown > view.shown
         /\ paused => view'.shown > since]_(Logs!vars)
  <2> SUFFICES ASSUME LogInv, [Next]_vars, view'.shown # view.shown
               PROVE  view'.shown > view.shown /\ (paused => view'.shown > since)
    OBVIOUS
  <2>1. Logs!Next \/ UNCHANGED LogVars
    BY DEF Next, vars
  <2>2. ~ UNCHANGED LogVars
    BY DEF LogVars
  <2> QED BY <2>1, <2>2, ShowsNewer
<1> QED BY <1>1, LogInvariant, PTL DEF Spec, SnapshotsAdvance, Logs!SnapshotsAdvance

=============================================================================
