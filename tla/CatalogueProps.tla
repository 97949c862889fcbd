--------------------------- MODULE CatalogueProps ---------------------------
(***************************************************************************)
(* What the catalogue of devices promises, and the fairness its requests   *)
(* may count on.                                                           *)
(***************************************************************************)
EXTENDS Catalogue

\* The requests that are adding instance i.
Adding(i) == {c \in Clients : req[c].op = "add" /\ req[c].inst = i}

\* An answer of the switch stands until the file is written again: "enabled"
\* leaves the file on and the unit on at boot; "disabled" leaves them off and no
\* driver running, however the requests before it are still being carried out
\* and whoever starts the unit afterwards.  setEnabled writes the file before it
\* stops the unit, and the launch refuses a disabled file (hurd/toggle.go:56,
\* hurd/launch.go:15-21).
SwitchIsReal ==
    \A i \in Instances :
        /\ shown[i] = "enabled" =>
             /\ disk[i] \in Text /\ disk[i].on
             /\ Kind(disk[i].body) = "installedBinary" => i \in boot
        /\ shown[i] = "disabled" =>
             /\ disk[i] \in Text /\ ~ disk[i].on
             /\ proc[i] # "up"
             /\ Kind(disk[i].body) = "installedBinary" => i \notin boot

\* No driver runs whose file is gone: deleteDevice removes the file of a stopped
\* device only, and nothing starts it between the check of its status and the
\* removal (hurd/delete.go:34-54).
NoOrphanProcess == \A i \in Instances : disk[i] = Absent => proc[i] # "up"

\* The page enables no device whose configuration has not passed its driver's
\* check, whatever requests overlap (README.md: "enabling requires a passing
\* configuration").
EnabledPasses ==
    \A i \in Instances : disk[i] \in Text /\ disk[i].on => disk[i].body \in Passing

\* Between locked sections the table agrees with the directory: one row for each
\* file that nobody is adding, none without a file, and with its body.  A driver with
\* its own binary that the row shows as enabled is enabled in its file; operators
\* may have enabled others.  o.cfg lists the same instances.
RowsMatchFiles ==
    Serving /\ Unlocked =>
        \A i \in Instances : Adding(i) = {} =>
            /\ Len(rows[i]) = (IF disk[i] \in Text THEN 1 ELSE 0)
            /\ Len(cfg[i]) = Len(rows[i])
            /\ Listed(i) => LET t == rows[i][1].text IN
                 /\ t.body = disk[i].body
                 /\ Kind(t.body) = "installedBinary" => (t.on => disk[i].on)

\* A device that is being added has no saved state to inherit: handleAdd looks for
\* it seconds before it writes the file, and no driver of that name may run in
\* between (hurd/orchestrator_page.go:393-400).
AddInheritsNothing == \A i \in Instances : Adding(i) # {} => i \notin state

-----------------------------------------------------------------------------
\* Handlers run; their calls to the driver and the service manager have
\* deadlines; a lock that is released again and again is obtained.
Fairness ==
    \A c \in Clients : /\ WF_vars(Continues(c))
                       /\ SF_vars(AddLists(c)) /\ SF_vars(EditSaves(c))
FairSpec == Spec /\ Fairness

\* Every request is answered, also when a step of it fails: no way out of a
\* handler keeps orchestrator.mu.
RequestsEnd == \A c \in Clients : req[c] # Idle ~> req[c] = Idle

=============================================================================
