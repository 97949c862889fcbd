--------------------------- MODULE DiscoveryProps ---------------------------
(***************************************************************************)
(* What discovery promises to a client and to the page.                    *)
(***************************************************************************)
EXTENDS Discovery

LoopType == [at : {"receive", "copy", "locals", "filter", "note"},
             out : Seq(Ports), left : SUBSET Ports, need : SUBSET Ports,
             moved : SUBSET Ports, entry : Registrations \union {None}]

\* Every variable keeps its type; static and staticSet list the same ports, and a
\* registration is kept under its own identity and instance.
TypeOK ==
    /\ static \in Seq(Ports) /\ staticSet = Elements(static)
    /\ heard \in [Ids -> Registrations \union {None}]
    /\ extra \in [Ids -> Registrations \union {None}]
    /\ rows \in [Insts -> Listings \union {None}]
    /\ loop \in [Loops -> LoopType]
    /\ switch \in [at : {"free", "hold", "write", "rows"},
                   inst : Insts \union {NoName}, port : Ports \union {0}]
    /\ reading \in BOOLEAN
    /\ \A i \in Ids : \A t \in {heard, extra} : t[i] # None => t[i].beat.id = i
    /\ \A i \in Insts : rows[i] # None /\ rows[i].reg # None => rows[i].reg.beat.inst = i

\* No answer names a port twice, although a port may be both a server's and a
\* registration's, and may become a server's between the copy of the static ports
\* and the look-up (hurd/discovery.go:60-61: "each port once").
AnswerOnce == \A l \in Loops : Distinct(loop[l].out)

\* An answer names every port that was announced from its probe's arrival to its end,
\* but for one kind: a registered port that addPort makes a server's after the copy of
\* the static ports and before the look-up is in neither list, although it was announced
\* all along (hurd/discovery.go:62-73).  Nothing else is missed: not a port whose
\* registration ends after it became static, nor one that moved before the copy.
AnswerComplete ==
    \A l \in Loops : Answered(l) => loop[l].need \ loop[l].moved \subseteq Elements(loop[l].out)

\* A device that registered before it was listed is shown twice, as a row and as an
\* extra one, for at most the life of a registration: after the row is there, no
\* heartbeat renews the extra one, though a loop may have received it long before
\* it gets the lock (hurd/orchestrator_page.go:64-82, 749-752).
ExtraFades ==
    \A i \in Ids : extra[i] # None /\ Listed(extra[i].beat) =>
        extra[i].age >= rows[extra[i].beat.inst].since

\* Only addPort and replies touch staticSet, and only under the responder's mutex
\* (hurd/discovery.go:26: "guards static and staticSet: addPort runs while probes
\* are served").  replies keeps the map and reads it after the Unlock.
MutexGuardsSet == ~ \E l \in Loops : AddPortHolds /\ At(l, "filter") /\ loop[l].left # {}

-----------------------------------------------------------------------------
\* Goroutines run, Go's mutexes are granted in the end, and what holds them is
\* bounded: a bind and a service manager call by enableTimeout, a page by the 5 s
\* of its status calls.
Fairness ==
    /\ \A l \in Loops : SF_vars(LoopSteps(l))
    /\ WF_vars(RenderEnds) /\ WF_vars(SwitchSteps)
FairSpec == Spec /\ Fairness

\* A receive loop always comes back to its socket, whatever the page does with the
\* locks that handle needs (hurd/discovery.go:77-96, hurd/toggle.go:36).
ReceiveResumes == \A l \in Loops : ~ At(l, "receive") ~> At(l, "receive")

=============================================================================
