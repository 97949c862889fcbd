-------------------------- MODULE DiscoveryProofs --------------------------
(***************************************************************************)
(* Proofs of what discovery promises, for any loops, ports, instances,     *)
(* heartbeats and life of a registration.  The two receive loops read the  *)
(* ports in three steps while the page changes them: the invariant says    *)
(* what a loop holds after each of the three.                              *)
(***************************************************************************)
EXTENDS DiscoveryProps, SequenceTheorems, TLAPS

\* What a receive loop carries: out names no port twice, and with left and moved covers
\* what its probe is owed; a port of left that out names already is a static port.
Carries(L) ==
    /\ L \in LoopType
    /\ L.at = "note" => L.entry # None
    /\ Distinct(L.out)
    /\ L.at = "copy" => L.need \subseteq Announced
    /\ L.at \in {"locals", "filter"} =>
         L.need \cap staticSet \subseteq Elements(L.out) \union L.moved
    /\ L.at = "locals" => /\ Elements(L.out) \subseteq staticSet
                          /\ L.need \subseteq Elements(L.out) \union LocalPorts \union L.moved
    /\ L.at = "filter" => /\ Elements(L.out) \cap L.left \subseteq staticSet
                          /\ L.need \subseteq Elements(L.out) \union L.left \union L.moved
LoopsOK == loop \in [Loops -> LoopType] /\ \A l \in Loops : Carries(loop[l])

StaticOK == static \in Seq(Ports) /\ staticSet = Elements(static) /\ Distinct(static)
HeardOK ==
    /\ heard \in [Ids -> Registrations \union {None}]
    /\ \A i \in Ids : heard[i] # None => heard[i].beat.id = i
PageOK ==
    /\ extra \in [Ids -> Registrations \union {None}]
    /\ rows \in [Insts -> Listings \union {None}]
    /\ \A i \in Ids : extra[i] # None => extra[i].beat.id = i
    /\ \A i \in Insts : rows[i] # None /\ rows[i].reg # None => rows[i].reg.beat.inst = i
\* A switch is of a device that has a row, for as long as it holds the lock.
LocksOK ==
    /\ switch \in [at : {"free", "hold", "write", "rows"},
                   inst : Insts \union {NoName}, port : Ports \union {0}]
    /\ reading \in BOOLEAN
    /\ switch.at # "free" => switch.inst \in Insts /\ rows[switch.inst] # None
    /\ switch.at = "write" => switch.port \in Ports
DiscoveryInv == LoopsOK /\ StaticOK /\ HeardOK /\ PageOK /\ LocksOK /\ ExtraFades

\* The invariant is stronger than what it is for.
LEMMA InvImplies == DiscoveryInv => TypeOK /\ AnswerOnce /\ AnswerComplete /\ ExtraFades
<1> SUFFICES ASSUME DiscoveryInv PROVE TypeOK /\ AnswerOnce /\ AnswerComplete
  BY DEF DiscoveryInv
<1>1. TypeOK
  BY DEF DiscoveryInv, LoopsOK, StaticOK, HeardOK, PageOK, LocksOK, TypeOK
<1>2. AnswerOnce
  BY DEF DiscoveryInv, LoopsOK, Carries, AnswerOnce
<1>3. AnswerComplete
  BY DEF DiscoveryInv, LoopsOK, Carries, AnswerComplete, Answered, At
<1> QED BY <1>1, <1>2, <1>3

-----------------------------------------------------------------------------
\* Append adds one element, and keeps a sequence without repetitions so when the
\* element is new.
LEMMA AppendAdds ==
    ASSUME NEW S, NEW s \in Seq(S), NEW p \in S
    PROVE  /\ Append(s, p) \in Seq(S)
           /\ Elements(Append(s, p)) = Elements(s) \union {p}
           /\ Distinct(s) /\ p \notin Elements(s) => Distinct(Append(s, p))
<1>1. /\ Append(s, p) \in Seq(S) /\ DOMAIN Append(s, p) = 1..(Len(s) + 1)
      /\ DOMAIN s = 1..Len(s) /\ Len(s) \in Nat
  OBVIOUS
<1>2. Append(s, p)[Len(s) + 1] = p /\ \A i \in DOMAIN s : Append(s, p)[i] = s[i]
  OBVIOUS
<1>3. \A i \in DOMAIN Append(s, p) : i \in DOMAIN s \/ i = Len(s) + 1
  BY <1>1
<1>4. DOMAIN s \subseteq DOMAIN Append(s, p) /\ Len(s) + 1 \in DOMAIN Append(s, p)
  BY <1>1
<1>5. Elements(Append(s, p)) = Elements(s) \union {p}
  BY <1>2, <1>3, <1>4 DEF Elements
<1>6. Distinct(s) /\ p \notin Elements(s) => Distinct(Append(s, p))
  BY <1>2, <1>3 DEF Elements, Distinct
<1> QED BY <1>1, <1>5, <1>6

\* The heartbeats this host holds name ports of its servers.
LEMMA LocalPortsArePorts == HeardOK => LocalPorts \subseteq Ports
<1>1. \A b \in Beats : b.port \in Ports
  BY BeatsAssumption
<1>2. \A r \in Registrations : r.beat \in Beats
  BY DEF Registrations
<1> QED BY <1>1, <1>2 DEF HeardOK, LocalPorts, Alive

\* A loop that takes a step of its own leaves the others as they are.
LEMMA OneLoopSteps ==
    ASSUME LoopsOK, NEW l \in Loops, NEW L, Carries(L),
           loop' = [loop EXCEPT ![l] = L], UNCHANGED responder
    PROVE  LoopsOK'
<1>1. loop' \in [Loops -> LoopType]
  BY DEF LoopsOK, Carries
<1>2. \A k \in Loops : loop'[k] = IF k = l THEN L ELSE loop[k]
  BY DEF LoopsOK
<1>3. \A K : Carries(K) => Carries(K)'
  BY DEF Carries, responder, Announced, LocalPorts
<1> QED BY <1>1, <1>2, <1>3 DEF LoopsOK

\* Ports that are no longer owed may leave the announcement; a static one stays in it.
LEMMA OwedKeeps ==
    ASSUME NEW lps, \A l \in Loops : Carries(lps[l]), loop' = Owed(lps, Ended),
           staticSet = Elements(static), UNCHANGED <<static, staticSet>>
    PROVE  LoopsOK'
<1> SUFFICES ASSUME NEW l \in Loops PROVE Carries(loop[l])'
  <2>1. loop' \in [Loops -> LoopType]
    BY DEF Owed, Carries, LoopType
  <2> QED BY <2>1 DEF LoopsOK
<1> DEFINE lost == Ended
           L == lps[l]
           M == loop'[l]
<1>1. M = [L EXCEPT !.need = @ \ lost] /\ Carries(L)
  BY DEF Owed
<1>2. LocalPorts \ LocalPorts' \subseteq lost \union staticSet
  BY DEF Ended
<1> HIDE DEF lost
<1>3. /\ M \in LoopType
      /\ M.at = L.at /\ M.out = L.out /\ M.left = L.left /\ M.entry = L.entry
      /\ M.moved = L.moved /\ M.need = L.need \ lost
  BY <1>1 DEF Carries, LoopType
<1> HIDE DEF L, M
<1>4. M.at = "copy" => M.need \subseteq Announced'
  BY <1>1, <1>2, <1>3 DEF Carries, Announced
<1>5. M.at \in {"locals", "filter"} =>
        M.need \cap staticSet' \subseteq Elements(M.out) \union M.moved
  BY <1>1, <1>3 DEF Carries
<1>6. M.at = "locals" => /\ Elements(M.out) \subseteq staticSet'
                         /\ M.need \subseteq Elements(M.out) \union LocalPorts' \union M.moved
  BY <1>1, <1>2, <1>3 DEF Carries
<1>7. M.at = "filter" => /\ Elements(M.out) \cap M.left \subseteq staticSet'
                         /\ M.need \subseteq Elements(M.out) \union M.left \union M.moved
  BY <1>1, <1>3 DEF Carries
<1>8. Distinct(M.out) /\ (M.at = "note" => M.entry # None)
  BY <1>1, <1>3 DEF Carries
<1> QED BY <1>3, <1>4, <1>5, <1>6, <1>7, <1>8 DEF Carries, M

\* A port that addPort makes static after the copy may be missed, and nothing else.
LEMMA MovedKeeps ==
    ASSUME LoopsOK, NEW p \in Ports, loop' = Moved(p), UNCHANGED heard,
           staticSet' = staticSet \union {p}, Elements(static) \subseteq Elements(static')
    PROVE  LoopsOK'
<1>1. loop' \in [Loops -> LoopType]
  <2> DEFINE more == {p} \ staticSet
  <2>1. more \subseteq Ports /\ \A l \in Loops : loop[l] \in LoopType
    BY DEF LoopsOK
  <2>2. loop' = [l \in Loops |-> IF loop[l].at \in {"locals", "filter"}
                                THEN [loop[l] EXCEPT !.moved = @ \union more] ELSE loop[l]]
    BY DEF Moved
  <2> HIDE DEF more
  <2>3. \A L \in LoopType : [L EXCEPT !.moved = @ \union more] \in LoopType
    BY <2>1 DEF LoopType
  <2> QED BY <2>1, <2>2, <2>3
<1>2. LocalPorts' = LocalPorts
  BY DEF LocalPorts
<1> SUFFICES ASSUME NEW l \in Loops PROVE Carries(loop[l])'
  BY <1>1 DEF LoopsOK
<1> DEFINE L == loop[l]
           M == loop'[l]
<1>3. Carries(L) /\ L \in LoopType /\ M \in LoopType
  BY <1>1 DEF LoopsOK
<1>4. /\ M.at = L.at /\ M.out = L.out /\ M.left = L.left /\ M.entry = L.entry
      /\ M.need = L.need /\ L.moved \subseteq M.moved
      /\ L.at \in {"locals", "filter"} => {p} \ staticSet \subseteq M.moved
  BY <1>3 DEF Moved, LoopType
<1> HIDE DEF L, M
<1>5. M.at = "copy" => M.need \subseteq Announced'
  BY <1>2, <1>3, <1>4 DEF Carries, Announced
<1>6. M.at \in {"locals", "filter"} =>
        M.need \cap staticSet' \subseteq Elements(M.out) \union M.moved
  BY <1>3, <1>4 DEF Carries
<1>7. M.at = "locals" => /\ Elements(M.out) \subseteq staticSet'
                         /\ M.need \subseteq Elements(M.out) \union LocalPorts' \union M.moved
  BY <1>2, <1>3, <1>4 DEF Carries
<1>8. M.at = "filter" => /\ Elements(M.out) \cap M.left \subseteq staticSet'
                         /\ M.need \subseteq Elements(M.out) \union M.left \union M.moved
  BY <1>3, <1>4 DEF Carries
<1>9. Distinct(M.out) /\ (M.at = "note" => M.entry # None)
  BY <1>3, <1>4 DEF Carries
<1> QED BY <1>3, <1>5, <1>6, <1>7, <1>8, <1>9 DEF Carries, M

\* A loop that waits for the next datagram owes nothing.
LEMMA ReceivingCarries == Carries(Receiving)
<1>1. Receiving \in LoopType
  BY DEF Receiving, LoopType
<1>2. Receiving.at = "receive" /\ Receiving.out = <<>>
  BY DEF Receiving
<1>3. Distinct(<<>>)
  BY DEF Distinct
<1> QED BY <1>1, <1>2, <1>3 DEF Carries

\* serve hands the responder a list that names no port twice.
LEMMA StartPortsOK == \A s \in StartPorts : s \in Seq(Ports) /\ Distinct(s)
<1> SUFFICES ASSUME NEW s \in StartPorts PROVE s \in Seq(Ports)
  BY DEF StartPorts
<1>1. PICK n \in 0..1 : s \in [1..n -> Ports]
  BY DEF StartPorts
<1> QED BY <1>1, SeqDef

\* Neither an empty table nor a row without a registration breaks the types.
LEMMA EmptyIsTyped ==
    /\ 0 \in 0..Old /\ Old \in 0..Old
    /\ \A n \in 0..Old : [reg |-> None, since |-> n] \in Listings
    /\ \A n : [reg |-> None, since |-> n].reg = None /\ [reg |-> None, since |-> n].since = n
    /\ None \notin Listings /\ None \notin Registrations
BY TTLAssumption, NamesAssumption DEF Old, Listings

-----------------------------------------------------------------------------
(* The receive loops.                                                       *)

\* A probe is owed what is announced when it arrives.
LEMMA ReceiveProbeKeeps ==
    ASSUME DiscoveryInv, NEW l \in Loops, ReceiveProbe(l)
    PROVE  LoopsOK'
<1> DEFINE L == [loop[l] EXCEPT !.at = "copy", !.need = Announced]
<1>1. loop[l] \in LoopType /\ Carries(loop[l])
  BY DEF DiscoveryInv, LoopsOK
<1>2. Announced \subseteq Ports
  <2>1. Elements(static) \subseteq Ports
    BY DEF DiscoveryInv, StaticOK, Elements
  <2> QED BY <2>1, LocalPortsArePorts DEF DiscoveryInv, Announced
<1>3. /\ L \in LoopType /\ L.at = "copy" /\ L.need = Announced
      /\ L.out = loop[l].out
  BY <1>1, <1>2 DEF LoopType
<1>4. Carries(L)
  BY <1>1, <1>3 DEF Carries
<1>5. loop' = [loop EXCEPT ![l] = L]
  BY <1>1 DEF ReceiveProbe, DiscoveryInv, LoopsOK
<1> QED BY <1>4, <1>5, OneLoopSteps DEF ReceiveProbe, DiscoveryInv

\* A heartbeat may take away a port that is owed to the other loop.
LEMMA ReceiveHeartbeatKeeps ==
    ASSUME DiscoveryInv, NEW l \in Loops, NEW b \in Beats, ReceiveHeartbeat(l, b)
    PROVE  LoopsOK' /\ HeardOK'
<1> DEFINE r == [beat |-> b, age |-> 0]
           L == [loop[l] EXCEPT !.at = "note", !.entry = r]
           mid == [loop EXCEPT ![l] = L]
<1>1. r \in Registrations /\ r.beat = b /\ r # None
  BY TTLAssumption, EmptyIsTyped DEF Registrations, Old
<1>2. b.id \in Ids
  BY DEF Ids
<1>3. HeardOK'
  <2>1. heard' = [heard EXCEPT ![b.id] = IF b.local THEN r ELSE None]
    BY DEF ReceiveHeartbeat
  <2> QED BY <1>1, <1>2, <2>1 DEF DiscoveryInv, HeardOK
<1>4. loop[l] \in LoopType /\ Carries(loop[l])
  BY DEF DiscoveryInv, LoopsOK
<1>5. /\ L \in LoopType /\ L.at = "note" /\ L.entry = r /\ L.out = loop[l].out
  BY <1>1, <1>4 DEF LoopType
<1>6. Carries(L)
  BY <1>1, <1>4, <1>5 DEF Carries
<1>7. mid \in [Loops -> LoopType] /\ \A k \in Loops : Carries(mid[k])
  BY <1>5, <1>6 DEF DiscoveryInv, LoopsOK
<1>8. loop' = Owed(mid, Ended) /\ UNCHANGED <<static, staticSet>>
  <2>1. mid = [loop EXCEPT ![l].at = "note", ![l].entry = r]
    BY <1>4 DEF DiscoveryInv, LoopsOK
  <2> QED BY <2>1 DEF ReceiveHeartbeat
<1> HIDE DEF mid
<1>9. LoopsOK'
  BY <1>7, <1>8, OwedKeeps DEF DiscoveryInv, StaticOK
<1> QED BY <1>3, <1>9

\* The copy of the static ports covers what is owed, but for the registrations.
LEMMA CopyStaticKeeps ==
    ASSUME DiscoveryInv, NEW l \in Loops, CopyStatic(l)
    PROVE  LoopsOK'
<1> DEFINE L == [loop[l] EXCEPT !.at = "locals", !.out = static]
<1>1. loop[l] \in LoopType /\ Carries(loop[l]) /\ loop[l].at = "copy"
  BY DEF DiscoveryInv, LoopsOK, CopyStatic, At
<1>2. /\ L \in LoopType /\ L.at = "locals" /\ L.out = static /\ L.need = loop[l].need
  BY <1>1 DEF LoopType, DiscoveryInv, StaticOK
<1>3. Carries(L)
  BY <1>1, <1>2 DEF Carries, DiscoveryInv, StaticOK, Announced
<1>4. loop' = [loop EXCEPT ![l] = L]
  BY <1>1 DEF CopyStatic, DiscoveryInv, LoopsOK
<1> QED BY <1>3, <1>4, OneLoopSteps DEF CopyStatic, DiscoveryInv

\* What is owed is in out, or among the registrations still to be looked up.
LEMMA ReadLocalsKeeps ==
    ASSUME DiscoveryInv, NEW l \in Loops, ReadLocals(l)
    PROVE  LoopsOK'
<1> DEFINE L == [loop[l] EXCEPT !.at = "filter", !.left = LocalPorts]
<1>1. loop[l] \in LoopType /\ Carries(loop[l]) /\ loop[l].at = "locals"
  BY DEF DiscoveryInv, LoopsOK, ReadLocals, At
<1>2. LocalPorts \subseteq Ports
  BY LocalPortsArePorts DEF DiscoveryInv
<1>3. /\ L \in LoopType /\ L.at = "filter" /\ L.left = LocalPorts
      /\ L.out = loop[l].out /\ L.need = loop[l].need /\ L.moved = loop[l].moved
  BY <1>1, <1>2 DEF LoopType
<1>4. Carries(L)
  BY <1>1, <1>3 DEF Carries
<1>5. loop' = [loop EXCEPT ![l] = L]
  BY <1>1 DEF ReadLocals, DiscoveryInv, LoopsOK
<1> QED BY <1>4, <1>5, OneLoopSteps DEF ReadLocals, DiscoveryInv

\* A port is left out only when the set has it, and then out has it if it is owed.
LEMMA FilterKeeps ==
    ASSUME DiscoveryInv, NEW l \in Loops, Filter(l)
    PROVE  LoopsOK'
<1>1. loop[l] \in LoopType /\ Carries(loop[l]) /\ loop[l].at = "filter"
  BY DEF DiscoveryInv, LoopsOK, Filter, At
<1>2. PICK p \in loop[l].left :
        loop' = [loop EXCEPT ![l].left = @ \ {p},
                             ![l].out = IF p \in staticSet THEN @ ELSE Append(@, p)]
  BY DEF Filter
<1>3. p \in Ports /\ loop[l].out \in Seq(Ports)
  BY <1>1 DEF LoopType
<1> DEFINE out == IF p \in staticSet THEN loop[l].out ELSE Append(loop[l].out, p)
           L == [loop[l] EXCEPT !.left = @ \ {p}, !.out = out]
<1>4. /\ out \in Seq(Ports) /\ Distinct(out)
      /\ Elements(out) = Elements(loop[l].out) \union (IF p \in staticSet THEN {} ELSE {p})
  <2>1. CASE p \in staticSet
    BY <1>1, <1>3, <2>1 DEF Carries
  <2>2. CASE p \notin staticSet
    <3>1. p \notin Elements(loop[l].out) /\ Distinct(loop[l].out)
      BY <1>1, <2>2 DEF Carries
    <3> QED BY <1>3, <2>2, <3>1, AppendAdds
  <2> QED BY <2>1, <2>2
<1> HIDE DEF out
<1>5. /\ L \in LoopType /\ L.at = "filter" /\ L.out = out /\ L.left = loop[l].left \ {p}
      /\ L.need = loop[l].need /\ L.moved = loop[l].moved
  BY <1>1, <1>4 DEF LoopType
<1>6. Carries(L)
  BY <1>1, <1>4, <1>5 DEF Carries
<1>7. loop' = [loop EXCEPT ![l] = L]
  BY <1>1, <1>2 DEF out, DiscoveryInv, LoopsOK
<1> QED BY <1>6, <1>7, OneLoopSteps DEF Filter, DiscoveryInv

\* A registration reaches the page under its own identity and instance.
LEMMA NoteRegistrationKeeps ==
    ASSUME DiscoveryInv, NEW l \in Loops, NoteRegistration(l)
    PROVE  LoopsOK' /\ PageOK' /\ LocksOK' /\ ExtraFades'
<1> DEFINE r == loop[l].entry
<1>1. r \in Registrations /\ r # None
  BY DEF DiscoveryInv, LoopsOK, Carries, LoopType, NoteRegistration, At
<1>2. r.beat \in Beats /\ r.beat.id \in Ids /\ r.age \in 0..Old
  BY <1>1 DEF Registrations, Ids
<1>3. LoopsOK'
  BY ReceivingCarries, OneLoopSteps DEF DiscoveryInv, NoteRegistration
<1>4. UNCHANGED locks
  BY DEF NoteRegistration
<1> HIDE DEF r
<1>5. CASE Listed(r.beat)
  <2> DEFINE i == r.beat.inst
  <2>1. rows' = [rows EXCEPT ![i].reg = r] /\ extra' = extra
    BY <1>5 DEF NoteRegistration, Recorded, r
  <2>2. i \in Insts /\ rows[i] # None /\ rows[i] \in Listings
    BY <1>5 DEF Listed, DiscoveryInv, PageOK
  <2>3. [rows[i] EXCEPT !.reg = r] \in Listings
    BY <1>1, <2>2 DEF Listings
  <2>4. [rows[i] EXCEPT !.reg = r].reg = r /\ [rows[i] EXCEPT !.reg = r].since = rows[i].since
    BY <2>2 DEF Listings
  <2> DEFINE row == [rows[i] EXCEPT !.reg = r]
  <2>5. rows' = [rows EXCEPT ![i] = row]
    BY <2>1
  <2> HIDE DEF row
  <2>6. row \in Listings /\ row # None /\ row.reg = r /\ row.since = rows[i].since
    BY <2>3, <2>4, EmptyIsTyped DEF row
  <2>7. PageOK'
    BY <1>1, <2>1, <2>2, <2>5, <2>6 DEF DiscoveryInv, PageOK
  <2>8. \A j \in Insts : (rows'[j] # None <=> rows[j] # None) /\ (rows[j] # None => rows'[j].since = rows[j].since)
    BY <2>2, <2>5, <2>6 DEF DiscoveryInv, PageOK
  <2>9. LocksOK' /\ ExtraFades'
    BY <1>4, <2>1, <2>8 DEF locks, DiscoveryInv, LocksOK, ExtraFades, Listed
  <2> QED BY <1>3, <2>7, <2>9
<1>6. CASE ~ Listed(r.beat)
  <2>1. extra' = [extra EXCEPT ![r.beat.id] = r] /\ rows' = rows
    BY <1>6 DEF NoteRegistration, Recorded, r
  <2>2. PageOK'
    BY <1>1, <1>2, <2>1 DEF DiscoveryInv, PageOK
  <2>3. LocksOK' /\ ExtraFades'
    BY <1>2, <1>4, <1>6, <2>1 DEF locks, DiscoveryInv, LocksOK, PageOK, ExtraFades, Listed
  <2> QED BY <1>3, <2>2, <2>3
<1> QED BY <1>5, <1>6

-----------------------------------------------------------------------------
(* The page, the clock and a restart.                                       *)

\* A row that is added is younger than every registration that names it.
LEMMA AddRowKeeps ==
    ASSUME DiscoveryInv, NEW i \in Insts, AddRow(i)
    PROVE  PageOK' /\ LocksOK' /\ ExtraFades'
<1> DEFINE row == [reg |-> None, since |-> 0]
<1>1. /\ rows' = [rows EXCEPT ![i] = row] /\ UNCHANGED <<extra, locks>>
      /\ switch.at = "free"
  BY DEF AddRow, CanLock
<1>2. row \in Listings /\ row # None /\ row.reg = None /\ row.since = 0
  BY EmptyIsTyped
<1> HIDE DEF row
<1>3. PageOK'
  BY <1>1, <1>2 DEF DiscoveryInv, PageOK
<1>4. LocksOK'
  BY <1>1 DEF locks, DiscoveryInv, LocksOK
<1>5. \A r \in Registrations : r.age \in Nat
  BY TTLAssumption DEF Registrations, Old
<1>6. ExtraFades'
  BY <1>1, <1>2, <1>5 DEF DiscoveryInv, PageOK, ExtraFades, Listed
<1> QED BY <1>3, <1>4, <1>6

\* A row is deleted while no switch holds the lock.
LEMMA DeleteRowKeeps ==
    ASSUME DiscoveryInv, NEW i \in Insts, DeleteRow(i)
    PROVE  PageOK' /\ LocksOK' /\ ExtraFades'
<1>1. /\ rows' = [rows EXCEPT ![i] = None] /\ UNCHANGED <<extra, locks>>
      /\ switch.at = "free"
  BY DEF DeleteRow, CanLock
<1> QED BY <1>1 DEF locks, DiscoveryInv, PageOK, LocksOK, ExtraFades, Listed

\* A port becomes static once; a loop that has its copy already may miss it.
LEMMA AddPortWritesKeeps ==
    ASSUME DiscoveryInv, AddPortWrites
    PROVE  LoopsOK' /\ StaticOK' /\ LocksOK'
<1> DEFINE p == switch.port
<1>1. /\ static' = IF p \in staticSet THEN static ELSE Append(static, p)
      /\ staticSet' = staticSet \union {p}
      /\ loop' = Moved(p)
      /\ switch' = [switch EXCEPT !.at = "rows"]
      /\ UNCHANGED <<heard, page, reading>>
      /\ switch.at = "write" /\ p \in Ports
  BY DEF AddPortWrites, DiscoveryInv, LocksOK
<1>2. StaticOK' /\ Elements(static) \subseteq Elements(static')
  <2>1. CASE p \in staticSet
    BY <1>1, <2>1 DEF DiscoveryInv, StaticOK
  <2>2. CASE p \notin staticSet
    <3>1. /\ Append(static, p) \in Seq(Ports)
          /\ Elements(Append(static, p)) = Elements(static) \union {p}
          /\ Distinct(Append(static, p))
      BY <1>1, <2>2, AppendAdds DEF DiscoveryInv, StaticOK
    <3> QED BY <1>1, <2>2, <3>1 DEF DiscoveryInv, StaticOK
  <2> QED BY <2>1, <2>2
<1>3. LoopsOK'
  BY <1>1, <1>2, MovedKeeps DEF DiscoveryInv
<1>4. LocksOK'
  BY <1>1 DEF page, DiscoveryInv, LocksOK
<1> QED BY <1>2, <1>3, <1>4

\* A row that is put in place keeps the time it is listed, and its instance.
LEMMA SwitchEndsKeeps ==
    ASSUME DiscoveryInv, SwitchEnds
    PROVE  PageOK' /\ LocksOK' /\ ExtraFades'
<1> DEFINE i == switch.inst
           row == [rows[i] EXCEPT !.reg = None]
<1>1. i \in Insts /\ rows[i] # None /\ rows[i] \in Listings
  BY DEF SwitchEnds, DiscoveryInv, LocksOK, PageOK
<1>2. /\ rows' \in {rows, [rows EXCEPT ![i] = row]}
      /\ switch' = Released /\ UNCHANGED <<extra, reading>>
  BY DEF SwitchEnds
<1>3. row \in Listings /\ row # None /\ row.reg = None /\ row.since = rows[i].since
  BY <1>1, EmptyIsTyped DEF Listings
<1> HIDE DEF row
<1>4. PageOK'
  BY <1>1, <1>2, <1>3 DEF DiscoveryInv, PageOK
<1>5. \A j \in Insts : /\ rows'[j] # None <=> rows[j] # None
                       /\ rows[j] # None => rows'[j].since = rows[j].since
  BY <1>1, <1>2, <1>3 DEF DiscoveryInv, PageOK
<1>6. ExtraFades'
  BY <1>2, <1>5 DEF DiscoveryInv, ExtraFades, Listed
<1>7. LocksOK'
  BY <1>2 DEF Released, DiscoveryInv, LocksOK
<1> QED BY <1>4, <1>6, <1>7

\* What ages stays what it is, and ages keep their order.
LEMMA LaterKeeps ==
    /\ Later(None) = None
    /\ \A r \in Registrations :
         /\ Later(r) \in Registrations /\ Later(r) # None /\ Later(r).beat = r.beat
         /\ Later(r).age = IF r.age = Old THEN Old ELSE r.age + 1
<1>1. Old \in Nat /\ \A r \in Registrations : r.age \in 0..Old /\ r # None
  BY TTLAssumption, EmptyIsTyped DEF Old, Registrations
<1> QED BY <1>1 DEF Later, Registrations

\* The same for rows.
LEMMA LaterRowKeeps ==
    /\ LaterRow(None) = None
    /\ \A w \in Listings :
         /\ LaterRow(w) \in Listings /\ LaterRow(w) # None /\ LaterRow(w).reg = Later(w.reg)
         /\ LaterRow(w).since = IF w.since = Old THEN Old ELSE w.since + 1
<1>1. Old \in Nat /\ \A w \in Listings : w.since \in 0..Old /\ w # None
  BY TTLAssumption, EmptyIsTyped DEF Old, Listings
<1>2. \A w \in Listings : w.reg \in Registrations \union {None}
  BY DEF Listings
<1>3. \A w \in Listings : Later(w.reg) \in Registrations \union {None}
  BY <1>2, LaterKeeps
<1>4. \A w \in Listings : LaterRow(w) \in Listings
  BY <1>1, <1>3 DEF LaterRow, Listings
<1> QED BY <1>1, <1>4 DEF LaterRow

\* The clock ages a row and an extra registration alike, and ends registrations.
LEMMA TickKeeps == DiscoveryInv /\ Tick => DiscoveryInv'
<1> SUFFICES ASSUME DiscoveryInv, Tick PROVE DiscoveryInv'
  OBVIOUS
<1> DEFINE lps == [l \in Loops |-> [loop[l] EXCEPT !.entry = Later(@)]]
<1>1. /\ heard' = [i \in Ids |-> Later(heard[i])]
      /\ rows' = [i \in Insts |-> LaterRow(rows[i])]
      /\ extra' = [i \in Ids |-> Later(extra[i])]
      /\ loop' = Owed(lps, Ended)
      /\ UNCHANGED <<static, staticSet, locks>>
  BY DEF Tick
<1>2. \A l \in Loops : Carries(lps[l])
  <2> SUFFICES ASSUME NEW l \in Loops PROVE Carries(lps[l])
    OBVIOUS
  <2>1. loop[l] \in LoopType /\ Carries(loop[l])
    BY DEF DiscoveryInv, LoopsOK
  <2>2. loop[l].entry \in Registrations \union {None}
    BY <2>1 DEF LoopType
  <2>3. /\ Later(loop[l].entry) \in Registrations \union {None}
        /\ loop[l].entry # None => Later(loop[l].entry) # None
    BY <2>2, LaterKeeps
  <2>4. /\ lps[l] \in LoopType
        /\ lps[l].at = loop[l].at /\ lps[l].out = loop[l].out /\ lps[l].left = loop[l].left
        /\ lps[l].need = loop[l].need /\ lps[l].moved = loop[l].moved
        /\ lps[l].entry = Later(loop[l].entry)
    BY <2>1, <2>3 DEF LoopType
  <2> HIDE DEF lps
  <2> QED BY <2>1, <2>3, <2>4 DEF Carries
<1> HIDE DEF lps
<1>3. LoopsOK'
  BY <1>1, <1>2, OwedKeeps DEF DiscoveryInv, StaticOK
<1>4. StaticOK' /\ HeardOK'
  BY <1>1, LaterKeeps DEF DiscoveryInv, StaticOK, HeardOK
<1>5. PageOK'
  <2>1. /\ extra' \in [Ids -> Registrations \union {None}]
        /\ \A i \in Ids : extra'[i] # None => extra'[i].beat.id = i
    BY <1>1, LaterKeeps DEF DiscoveryInv, PageOK
  <2>2. rows' \in [Insts -> Listings \union {None}]
    BY <1>1, LaterRowKeeps DEF DiscoveryInv, PageOK
  <2>3. ASSUME NEW i \in Insts, rows'[i] # None, rows'[i].reg # None
        PROVE  rows'[i].reg.beat.inst = i
    <3>1. rows[i] \in Listings /\ rows[i] # None /\ rows'[i].reg = Later(rows[i].reg)
      BY <1>1, <2>3, LaterRowKeeps DEF DiscoveryInv, PageOK
    <3>2. rows[i].reg \in Registrations
      BY <2>3, <3>1, LaterKeeps DEF Listings
    <3> QED BY <3>1, <3>2, LaterKeeps, EmptyIsTyped DEF DiscoveryInv, PageOK
  <2> QED BY <2>1, <2>2, <2>3 DEF PageOK
<1>6. LocksOK'
  BY <1>1, LaterRowKeeps DEF locks, DiscoveryInv, LocksOK, PageOK
<1>7. ExtraFades'
  <2> SUFFICES ASSUME NEW i \in Ids, extra'[i] # None, Listed(extra[i].beat)'
               PROVE  extra'[i].age >= rows'[extra'[i].beat.inst].since
    BY DEF ExtraFades
  <2>1. extra[i] \in Registrations /\ extra[i] # None /\ extra'[i] = Later(extra[i])
    BY <1>1, LaterKeeps, EmptyIsTyped DEF DiscoveryInv, PageOK
  <2> DEFINE j == extra[i].beat.inst
  <2>2. extra'[i].beat.inst = j /\ extra'[i].age = IF extra[i].age = Old THEN Old ELSE extra[i].age + 1
    BY <2>1, LaterKeeps
  <2>3. j \in Insts /\ rows'[j] # None
    BY <2>2 DEF Listed
  <2>4. rows[j] \in Listings /\ rows[j] # None
    BY <1>1, <2>3, LaterRowKeeps, EmptyIsTyped DEF DiscoveryInv, PageOK
  <2>5. rows'[j].since = IF rows[j].since = Old THEN Old ELSE rows[j].since + 1
    BY <1>1, <2>3, <2>4, LaterRowKeeps
  <2>6. extra[i].age >= rows[j].since
    BY <2>1, <2>3, <2>4 DEF DiscoveryInv, ExtraFades, Listed
  <2>7. Old \in Nat /\ extra[i].age \in 0..Old /\ rows[j].since \in 0..Old
    BY <2>1, <2>4, TTLAssumption DEF Old, Registrations, Listings
  <2> HIDE DEF j
  <2> QED BY <2>2, <2>5, <2>6, <2>7
<1> QED BY <1>3, <1>4, <1>5, <1>6, <1>7 DEF DiscoveryInv

\* What is in memory is gone, and the invariant holds of what is left.
LEMMA RestartedKeeps == DiscoveryInv /\ Restarted => DiscoveryInv'
<1> SUFFICES ASSUME DiscoveryInv, Restarted PROVE DiscoveryInv'
  OBVIOUS
<1>1. StaticOK'
  BY StartPortsOK DEF Restarted, StaticOK
<1>2. HeardOK' /\ ExtraFades'
  BY DEF Restarted, HeardOK, ExtraFades
<1>3. PageOK'
  BY EmptyIsTyped DEF Restarted, PageOK, DiscoveryInv
<1>4. LocksOK'
  BY DEF Restarted, LocksOK, Released
<1>5. LoopsOK'
  <2>1. Carries(Receiving)'
    BY ReceivingCarries DEF Carries, Receiving
  <2>2. loop' = [l \in Loops |-> Receiving]
    BY DEF Restarted
  <2> QED BY <2>1, <2>2, ReceivingCarries DEF LoopsOK, Carries
<1> QED BY <1>1, <1>2, <1>3, <1>4, <1>5 DEF DiscoveryInv

-----------------------------------------------------------------------------
\* Every step keeps the invariant.
LEMMA StepKeeps == DiscoveryInv /\ Next => DiscoveryInv'
<1> SUFFICES ASSUME DiscoveryInv, Next PROVE DiscoveryInv'
  OBVIOUS
<1>1. UNCHANGED responder => StaticOK' /\ HeardOK'
  BY DEF responder, DiscoveryInv, StaticOK, HeardOK
<1>2. UNCHANGED page => PageOK' /\ ExtraFades'
  BY DEF page, DiscoveryInv, PageOK, ExtraFades, Listed
<1>3. UNCHANGED <<rows, locks>> => LocksOK'
  BY DEF locks, DiscoveryInv, LocksOK
<1>4. UNCHANGED <<responder, loop>> => LoopsOK'
  BY DEF responder, DiscoveryInv, LoopsOK, Carries, Announced, LocalPorts
<1>5. ASSUME NEW l \in Loops, ReceiveProbe(l) PROVE DiscoveryInv'
  BY <1>1, <1>2, <1>3, <1>5, ReceiveProbeKeeps DEF ReceiveProbe, page, DiscoveryInv
<1>6. ASSUME NEW l \in Loops, NEW b \in Beats, ReceiveHeartbeat(l, b) PROVE DiscoveryInv'
  <2>1. StaticOK'
    BY <1>6 DEF ReceiveHeartbeat, DiscoveryInv, StaticOK
  <2> QED BY <1>2, <1>3, <1>6, <2>1, ReceiveHeartbeatKeeps DEF ReceiveHeartbeat, page, DiscoveryInv
<1>7. ASSUME NEW l \in Loops, CopyStatic(l) \/ ReadLocals(l) \/ Filter(l) PROVE DiscoveryInv'
  <2>1. LoopsOK'
    BY <1>7, CopyStaticKeeps, ReadLocalsKeeps, FilterKeeps
  <2> QED BY <1>1, <1>2, <1>3, <1>7, <2>1 DEF CopyStatic, ReadLocals, Filter, page, DiscoveryInv
<1>8. ASSUME NEW l \in Loops, Answer(l) PROVE DiscoveryInv'
  <2>1. LoopsOK'
    BY <1>8, ReceivingCarries, OneLoopSteps DEF Answer, DiscoveryInv
  <2> QED BY <1>1, <1>2, <1>3, <1>8, <2>1 DEF Answer, page, DiscoveryInv
<1>9. ASSUME NEW l \in Loops, NoteRegistration(l) PROVE DiscoveryInv'
  BY <1>1, <1>9, NoteRegistrationKeeps DEF NoteRegistration, DiscoveryInv
<1>10. CASE RenderBegins \/ RenderEnds
  <2>1. LocksOK'
    BY <1>10 DEF RenderBegins, RenderEnds, page, DiscoveryInv, LocksOK
  <2> QED BY <1>1, <1>2, <1>4, <1>10, <2>1 DEF RenderBegins, RenderEnds, DiscoveryInv
<1>11. ASSUME NEW i \in Insts, AddRow(i) \/ DeleteRow(i) PROVE DiscoveryInv'
  <2>1. PageOK' /\ LocksOK' /\ ExtraFades'
    BY <1>11, AddRowKeeps, DeleteRowKeeps
  <2> QED BY <1>1, <1>4, <1>11, <2>1 DEF AddRow, DeleteRow, DiscoveryInv
<1>12. ASSUME NEW i \in Insts, SwitchBegins(i) PROVE DiscoveryInv'
  <2>1. LocksOK'
    BY <1>12 DEF SwitchBegins, Released, page, DiscoveryInv, LocksOK
  <2> QED BY <1>1, <1>2, <1>4, <1>12, <2>1 DEF SwitchBegins, DiscoveryInv
<1>13. ASSUME NEW p \in Ports, AddPortLocks(p) PROVE DiscoveryInv'
  <2>1. LocksOK'
    BY <1>13 DEF AddPortLocks, page, DiscoveryInv, LocksOK
  <2> QED BY <1>1, <1>2, <1>4, <1>13, <2>1 DEF AddPortLocks, DiscoveryInv
<1>14. CASE AddPortWrites
  <2>1. HeardOK'
    BY <1>14 DEF AddPortWrites, DiscoveryInv, HeardOK
  <2> QED BY <1>2, <1>14, <2>1, AddPortWritesKeeps DEF AddPortWrites, DiscoveryInv
<1>15. CASE SwitchEnds
  BY <1>1, <1>4, <1>15, SwitchEndsKeeps DEF SwitchEnds, DiscoveryInv
<1> QED
  BY <1>5, <1>6, <1>7, <1>8, <1>9, <1>10, <1>11, <1>12, <1>13, <1>14, <1>15, TickKeeps,
     RestartedKeeps DEF Next, Receives, LoopSteps, SwitchSteps, ReadDuringWrite

\* The invariant holds in every reachable state.
LEMMA Invariant == Spec => []DiscoveryInv
<1>1. Init => DiscoveryInv
  <2> SUFFICES ASSUME Init PROVE DiscoveryInv
    OBVIOUS
  <2>1. StaticOK /\ HeardOK /\ ExtraFades
    BY StartPortsOK DEF Init, StaticOK, HeardOK, ExtraFades
  <2>2. PageOK
    <3> DEFINE row == [reg |-> None, since |-> Old]
    <3>1. row \in Listings /\ row.reg = None
      BY EmptyIsTyped
    <3>2. rows \in [Insts -> {None, row}] /\ extra = [i \in Ids |-> None]
      BY DEF Init
    <3> HIDE DEF row
    <3> QED BY <3>1, <3>2 DEF PageOK
  <2>3. LocksOK
    BY DEF Init, LocksOK, Released
  <2>4. LoopsOK
    BY ReceivingCarries DEF Init, LoopsOK, Carries
  <2> QED BY <2>1, <2>2, <2>3, <2>4 DEF DiscoveryInv
<1>2. DiscoveryInv /\ [Next]_vars => DiscoveryInv'
  <2>1. DiscoveryInv /\ UNCHANGED vars => DiscoveryInv'
    BY DEF vars, responder, page, locks, DiscoveryInv, LoopsOK, Carries, StaticOK, HeardOK,
       PageOK, LocksOK, ExtraFades, Announced, LocalPorts, Listed
  <2> QED BY <2>1, StepKeeps
<1> QED BY <1>1, <1>2, PTL DEF Spec

\* Every variable keeps its type in every behaviour, static and staticSet list the same
\* ports, and registrations stay under their own identity and instance.
THEOREM TypeCorrect == Spec => []TypeOK
BY Invariant, InvImplies, PTL

\* For any number of loops, ports and heartbeats no answer names a port twice
\* (hurd/discovery.go:60-61).
THEOREM AnswersOnce == Spec => []AnswerOnce
BY Invariant, InvImplies, PTL

\* An answer misses none of the ports that stayed announced while it was put together,
\* although addPort and heartbeats come between its three reads, unless addPort made the
\* port static after the first of them (hurd/discovery.go:62-73).
THEOREM AnswersComplete == Spec => []AnswerComplete
BY Invariant, InvImplies, PTL

\* No heartbeat renews the extra registration of a device that has its row, however
\* long a loop has carried it (hurd/orchestrator_page.go:64-82).
THEOREM ExtrasFade == Spec => []ExtraFades
BY Invariant, InvImplies, PTL

=============================================================================
