-------------------------- MODULE CatalogueProofs --------------------------
(***************************************************************************)
(* Proofs of the types and the safety properties of Catalogue, for any     *)
(* instances, clients, drivers and device files: IInv is inductive.        *)
(***************************************************************************)
EXTENDS CatalogueInv, TLAPS

(***************************************************************************)
(* Type correctness: what each step makes of the requests, the files and   *)
(* the table.                                                              *)
(***************************************************************************)

Request == [op : Ops, at : Points, inst : Instances \union {Nobody},
            text : Text \union {Absent}, ok : BOOLEAN]

\* What a step does to the record of a request keeps it one.
LEMMA SwitchedIsText ==
    ASSUME NEW t \in Text, NEW b \in BOOLEAN
    PROVE  /\ Switched(t, b) \in Text
           /\ Switched(t, b).body = t.body /\ Switched(t, b).on = b
BY DEF Switched, Text

LEMMA RowOfIsRow ==
    ASSUME NEW t \in Text, NEW b \in BOOLEAN
    PROVE  /\ RowOf(t) \in Row /\ RowOf(t).text = t /\ RowOf(t).inProcess = FALSE
           /\ LET r == [RowOf(t) EXCEPT !.inProcess = b]
              IN  r \in Row /\ r.text = t /\ r.inProcess = b
           /\ LET r == [text |-> t, inProcess |-> b]
              IN  r \in Row /\ r.text = t /\ r.inProcess = b
BY DEF RowOf, Row

LEMMA IdleIsRequest == Idle \in Request /\ Idle.op = "none" /\ Idle.inst = Nobody
BY DEF Idle, Request, Ops, Points

LEMMA EndsTyped ==
    ASSUME TypeInv, NEW c \in Clients, Ends(c)
    PROVE  /\ req' \in [Clients -> Request] /\ \A d \in Clients : ReqOK(d)'
           /\ req'[c] = Idle
           /\ \A d \in Clients : d # c => req'[d] = req[d]
<1>1. req \in [Clients -> Request] /\ \A d \in Clients : ReqOK(d)
  BY DEF TypeInv, TypeOK, Request
<1>2. req' = [req EXCEPT ![c] = Idle]
  BY DEF Ends
<1> QED BY <1>1, <1>2, IdleIsRequest DEF ReqOK

LEMMA GoesTyped ==
    ASSUME TypeInv, NEW c \in Clients, req[c].op # "none", NEW p \in Points, Goes(c, p)
    PROVE  /\ req' \in [Clients -> Request] /\ \A d \in Clients : ReqOK(d)'
           /\ req'[c].op = req[c].op /\ req'[c].inst = req[c].inst /\ req'[c].at = p
           /\ req'[c].text = req[c].text /\ req'[c].ok = req[c].ok
           /\ \A d \in Clients : d # c => req'[d] = req[d]
<1>1. req \in [Clients -> Request] /\ \A d \in Clients : ReqOK(d)
  BY DEF TypeInv, TypeOK, Request
<1>2. req' = [req EXCEPT ![c].at = p]
  BY DEF Goes
<1>3. \A d \in Clients : d # c => req'[d] = req[d]
  BY <1>1, <1>2
<1>4. req'[c] = [req[c] EXCEPT !.at = p]
  BY <1>1, <1>2
<1>5. /\ req'[c] \in Request
      /\ req'[c].op = req[c].op /\ req'[c].inst = req[c].inst /\ req'[c].at = p
      /\ req'[c].text = req[c].text /\ req'[c].ok = req[c].ok
  BY <1>1, <1>4 DEF Request
<1>6. req' \in [Clients -> Request]
  BY <1>1, <1>2, <1>5
<1>7. ReqOK(c)'
  BY <1>1, <1>5 DEF ReqOK
<1>8. \A d \in Clients : d # c => ReqOK(d)'
  BY <1>1, <1>3 DEF ReqOK
<1> QED BY <1>3, <1>5, <1>6, <1>7, <1>8

LEMMA BeginsTyped ==
    ASSUME TypeInv, NEW c \in Clients, NEW op \in Ops \ {"none"}, NEW p \in Points,
           NEW i \in Instances, NEW t \in Text \union {Absent},
           op \in {"add", "edit"} => t \in Text, Begins(c, op, p, i, t)
    PROVE  /\ req' \in [Clients -> Request] /\ \A d \in Clients : ReqOK(d)'
           /\ req'[c].op = op /\ req'[c].inst = i /\ req'[c].at = p
           /\ req'[c].text = t /\ req'[c].ok = TRUE
           /\ \A d \in Clients : d # c => req'[d] = req[d]
<1>1. req \in [Clients -> Request] /\ \A d \in Clients : ReqOK(d)
  BY DEF TypeInv, TypeOK, Request
<1> DEFINE new == [op |-> op, at |-> p, inst |-> i, text |-> t, ok |-> TRUE]
<1>2. new \in Request /\ new.op = op /\ new.inst = i /\ new.at = p /\ new.text = t /\ new.ok = TRUE
  BY DEF Request
<1>3. req' = [req EXCEPT ![c] = new]
  BY DEF Begins
<1> HIDE DEF new
<1>4. req'[c] = new /\ \A d \in Clients : d # c => req'[d] = req[d]
  BY <1>1, <1>3
<1>5. req' \in [Clients -> Request]
  BY <1>1, <1>2, <1>3
<1>6. ReqOK(c)'
  BY <1>2, <1>4 DEF ReqOK
<1>7. \A d \in Clients : d # c => ReqOK(d)'
  BY <1>1, <1>4 DEF ReqOK
<1> QED BY <1>2, <1>4, <1>5, <1>6, <1>7

LEMMA InitTyped == Init => TypeInv
<1> SUFFICES ASSUME Init PROVE TypeInv
  OBVIOUS
<1>1. disk \in [Instances -> Text \union {Absent, Torn}]
  BY DiskAssumption DEF Init
<1>2. /\ state \subseteq Instances /\ toStart \subseteq Instances /\ boot \subseteq Instances
      /\ hurd \in {"down", "up", "refused"} /\ lock \in Clients \union {Nobody}
      /\ proc \in [Instances -> {"off", "loading", "up", "waiting"}]
      /\ shown \in [Instances -> {"nothing", "enabled", "disabled"}]
  BY DEF Init
<1>3. rows \in [Instances -> Seq(Row)] /\ cfg \in [Instances -> Seq(Text)]
  BY DEF Init
<1>4. req \in [Clients -> Request] /\ \A c \in Clients : req[c] = Idle
  BY IdleIsRequest DEF Init
<1>5. \A c \in Clients : ReqOK(c)
  BY <1>4, IdleIsRequest DEF ReqOK
<1> QED BY <1>1, <1>2, <1>3, <1>4, <1>5 DEF TypeInv, TypeOK, Request

\* What a step leaves of a well-typed state, when its request is as it should be.
ReqTyped == req \in [Clients -> Request] /\ \A c \in Clients : ReqOK(c)

LEMMA RestTyped ==
    ASSUME TypeInv, ReqTyped', lock' \in Clients \union {Nobody},
           disk' \in [Instances -> Text \union {Absent, Torn}],
           state' \subseteq Instances, toStart' \subseteq Instances, boot' \subseteq Instances,
           hurd' \in {"down", "up", "refused"},
           rows' \in [Instances -> Seq(Row)], cfg' \in [Instances -> Seq(Text)],
           proc' \in [Instances -> {"off", "loading", "up", "waiting"}],
           shown' \in [Instances -> {"nothing", "enabled", "disabled"}]
    PROVE  TypeInv'
BY DEF TypeInv, TypeOK, ReqTyped, Request

LEMMA WritesTyped ==
    ASSUME TypeOK, NEW i \in Instances, NEW t \in Text \union {Absent, Torn}, Writes(i, t)
    PROVE  /\ disk' \in [Instances -> Text \union {Absent, Torn}]
           /\ shown' \in [Instances -> {"nothing", "enabled", "disabled"}]
           /\ disk'[i] = t /\ shown'[i] = "nothing"
           /\ \A j \in Instances : j # i => disk'[j] = disk[j] /\ shown'[j] = shown[j]
<1> DEFINE Texts == Text \union {Absent, Torn}
<1>1. t \in Texts /\ disk \in [Instances -> Texts] /\ disk' = [disk EXCEPT ![i] = t]
  BY DEF TypeOK, Writes
<1> HIDE DEF Texts
<1>2. disk' \in [Instances -> Texts] /\ disk'[i] = t /\ \A j \in Instances : j # i => disk'[j] = disk[j]
  BY <1>1
<1> QED BY <1>2 DEF TypeOK, Writes, Texts

\* A request begins.
LEMMA RequestsTyped ==
    ASSUME TypeInv, NEW c \in Clients, NEW i \in Instances,
           AddChecks(c, i) \/ EditChecks(c, i) \/ EnableChecks(c, i) \/ DeleteChecks(c, i) \/ Asks(c, i)
    PROVE  TypeInv'
<1>1. ReqTyped'
  <2>1. CASE AddChecks(c, i)
    <3>1. PICK b \in Templates : Begins(c, "add", "write", i, [on |-> FALSE, body |-> b])
      BY <2>1 DEF AddChecks
    <3>2. [on |-> FALSE, body |-> b] \in Text
      BY BodiesAssumption DEF Text
    <3> QED BY <3>1, <3>2, BeginsTyped DEF Ops, Points, ReqTyped
  <2>2. CASE EditChecks(c, i)
    <3>1. PICK t \in Text : Begins(c, "edit", "save", i, t)
      BY <2>2 DEF EditChecks
    <3> QED BY <3>1, BeginsTyped DEF Ops, Points, ReqTyped
  <2>3. CASE EnableChecks(c, i)
    BY <2>3, BeginsTyped DEF EnableChecks, Ops, Points, ReqTyped
  <2>4. CASE DeleteChecks(c, i)
    BY <2>4, BeginsTyped DEF DeleteChecks, Ops, Points, ReqTyped
  <2>5. CASE Asks(c, i)
    <3>1. \/ Begins(c, "start", "run", i, Absent)
          \/ Begins(c, "stop", "halt", i, Absent)
          \/ Begins(c, "restart", "run", i, Absent)
      BY <2>5 DEF Asks
    <3> QED BY <3>1, BeginsTyped DEF Ops, Points, ReqTyped
  <2> QED BY <2>1, <2>2, <2>3, <2>4, <2>5
<1>2. lock' \in {lock, c}
  BY DEF AddChecks, EditChecks, EnableChecks, DeleteChecks, Asks
<1>3. UNCHANGED <<disk, state, hurd, toStart, rows, cfg, proc, boot, shown>>
  BY DEF AddChecks, EditChecks, EnableChecks, DeleteChecks, Asks, tables, manager
<1>4. TypeOK
  BY DEF TypeInv
<1> QED BY <1>1, <1>2, <1>3, <1>4, RestTyped DEF TypeOK

LEMMA AddTyped ==
    ASSUME TypeInv, NEW c \in Clients,
           AddTruncates(c) \/ AddFills(c) \/ AddLoads(c) \/ AddLists(c)
    PROVE  TypeInv'
<1> DEFINE i == req[c].inst
           t == req[c].text
<1>0. req[c].op = "add" /\ i \in Instances /\ t \in Text /\ TypeOK
  BY DEF AddTruncates, AddFills, AddLoads, AddLists, At, TypeInv, ReqOK
<1>1. ReqTyped'
  <2>1. CASE Ends(c)
    BY <2>1, EndsTyped DEF ReqTyped
  <2>2. CASE Goes(c, "fill") \/ Goes(c, "load")
    BY <1>0, <2>2, GoesTyped DEF ReqTyped, Points
  <2>3. CASE AddLoads(c) /\ disk[i] \in Text
    <3>1. req \in [Clients -> Request] /\ \A d \in Clients : ReqOK(d)
      BY DEF TypeInv, TypeOK, Request
    <3>2. req' = [req EXCEPT ![c].at = "list", ![c].text = disk[i]]
      BY <2>3 DEF AddLoads
    <3>3. req'[c] = [req[c] EXCEPT !.at = "list", !.text = disk[i]]
      BY <3>1, <3>2
    <3>4. /\ req'[c] \in Request /\ req'[c].op = "add" /\ req'[c].inst = i
          /\ req'[c].text \in Text
      <4> DEFINE u == disk[i]
      <4>1. u \in Text /\ req[c] \in Request /\ "list" \in Points
        BY <2>3, <3>1 DEF Points
      <4>2. req'[c] = [req[c] EXCEPT !.at = "list", !.text = u]
        BY <3>3
      <4> HIDE DEF u
      <4> QED BY <1>0, <4>1, <4>2 DEF Request
    <3>5. req' \in [Clients -> Request] /\ \A d \in Clients : d # c => req'[d] = req[d]
      BY <3>1, <3>2, <3>4
    <3>6. ReqOK(c)'
      BY <1>0, <3>4 DEF ReqOK
    <3>7. \A d \in Clients : d # c => ReqOK(d)'
      BY <3>1, <3>5 DEF ReqOK
    <3> QED BY <3>5, <3>6, <3>7 DEF ReqTyped
  <2> QED BY <2>1, <2>2, <2>3 DEF AddTruncates, AddFills, AddLoads, AddLists
<1>2. UNCHANGED <<state, hurd, toStart, lock, proc, boot>>
  BY DEF AddTruncates, AddFills, AddLoads, AddLists, manager
<1>3. \/ UNCHANGED <<disk, shown>>
      \/ \E u \in Text \union {Torn} : Writes(i, u)
  BY <1>0 DEF AddTruncates, AddFills, AddLoads, AddLists
<1>4. disk' \in [Instances -> Text \union {Absent, Torn}]
      /\ shown' \in [Instances -> {"nothing", "enabled", "disabled"}]
  <2>1. CASE UNCHANGED <<disk, shown>>
    BY <1>0, <2>1 DEF TypeOK
  <2>2. ASSUME NEW u \in Text \union {Torn}, Writes(i, u)
        PROVE  disk' \in [Instances -> Text \union {Absent, Torn}]
               /\ shown' \in [Instances -> {"nothing", "enabled", "disabled"}]
    BY <1>0, <2>2, WritesTyped
  <2> QED BY <1>3, <2>1, <2>2
<1>5. rows' \in [Instances -> Seq(Row)] /\ cfg' \in [Instances -> Seq(Text)]
  <2>1. CASE AddLists(c)
    <3>1. RowOf(t) \in Row
      BY <1>0, RowOfIsRow
    <3>2. rows[i] \in Seq(Row) /\ cfg[i] \in Seq(Text)
      BY <1>0 DEF TypeOK
    <3>3. Append(rows[i], RowOf(t)) \in Seq(Row) /\ Append(cfg[i], t) \in Seq(Text)
      BY <1>0, <3>1, <3>2
    <3> QED BY <1>0, <2>1, <3>3 DEF AddLists, TypeOK
  <2>2. CASE ~ AddLists(c)
    BY <1>0, <2>2 DEF AddTruncates, AddFills, AddLoads, tables, TypeOK
  <2> QED BY <2>1, <2>2
<1> QED BY <1>0, <1>1, <1>2, <1>4, <1>5, RestTyped DEF TypeOK

\* The switch replaces the row of an instance by one.
LEMMA RowReplaced ==
    ASSUME TypeOK, NEW i \in Instances, NEW r \in Row, rows' = [rows EXCEPT ![i] = <<r>>]
    PROVE  /\ rows' \in [Instances -> Seq(Row)]
           /\ Len(rows'[i]) = 1 /\ rows'[i] # <<>> /\ rows'[i][1] = r
           /\ \A j \in Instances : j # i => rows'[j] = rows[j]
<1>1. <<r>> \in Seq(Row) /\ Len(<<r>>) = 1 /\ <<r>>[1] = r /\ <<r>> # <<>>
  OBVIOUS
<1>2. rows \in [Instances -> Seq(Row)]
  BY DEF TypeOK
<1> DEFINE s == <<r>>
<1>3. s \in Seq(Row) /\ rows' = [rows EXCEPT ![i] = s]
  BY <1>1
<1>4. Len(s) = 1 /\ s[1] = r /\ s # <<>>
  BY <1>1
<1> HIDE DEF s
<1>5. rows' \in [Instances -> Seq(Row)] /\ rows'[i] = s /\ \A j \in Instances : j # i => rows'[j] = rows[j]
  BY <1>2, <1>3
<1> QED BY <1>4, <1>5

\* An edit changes the text of the row it finds, and every entry of the configuration.
LEMMA RowEdited ==
    ASSUME TypeOK, NEW i \in Instances, NEW t \in Text, Listed(i),
           rows' = [rows EXCEPT ![i][1].text = t],
           cfg'  = [cfg EXCEPT ![i] = [k \in DOMAIN @ |-> t]]
    PROVE  /\ rows' \in [Instances -> Seq(Row)] /\ cfg' \in [Instances -> Seq(Text)]
           /\ Len(rows'[i]) = Len(rows[i]) /\ rows'[i] # <<>> /\ rows'[i][1].text = t
           /\ rows'[i][1].inProcess = rows[i][1].inProcess
           /\ Len(cfg'[i]) = Len(cfg[i])
           /\ \A j \in Instances : j # i => rows'[j] = rows[j] /\ cfg'[j] = cfg[j]
<1> DEFINE s == rows[i]
           old == s[1]
           new == [old EXCEPT !.text = t]
           s2 == [s EXCEPT ![1] = new]
<1>1. rows \in [Instances -> Seq(Row)] /\ s \in Seq(Row) /\ s # <<>>
  BY DEF TypeOK, Listed
<1>2. Len(s) \in Nat /\ DOMAIN s = 1..Len(s) /\ 1 \in 1..Len(s) /\ old \in Row
  BY <1>1
<1>3. new \in Row /\ new.text = t /\ new.inProcess = old.inProcess
  BY <1>2 DEF Row
<1>4. rows' = [rows EXCEPT ![i] = s2]
  BY <1>1
<1> HIDE DEF new
<1>5. s2 \in Seq(Row) /\ Len(s2) = Len(s) /\ s2[1] = new
  <2> HIDE DEF s
  <2> QED BY <1>1, <1>2, <1>3
<1> HIDE DEF s2
<1>6. rows' \in [Instances -> Seq(Row)] /\ rows'[i] = s2 /\ \A j \in Instances : j # i => rows'[j] = rows[j]
  BY <1>1, <1>4, <1>5
<1>7. s2 # <<>>
  BY <1>2, <1>5
<1> DEFINE q == cfg[i]
           q2 == [k \in DOMAIN q |-> t]
<1>8. cfg \in [Instances -> Seq(Text)] /\ q \in Seq(Text)
  BY DEF TypeOK
<1>9. q2 \in Seq(Text) /\ Len(q2) = Len(q)
  <2> HIDE DEF q
  <2>1. Len(q) \in Nat /\ DOMAIN q = 1..Len(q)
    BY <1>8
  <2> QED BY <2>1
<1>10. cfg' = [cfg EXCEPT ![i] = q2]
  BY <1>8
<1> HIDE DEF q2
<1>11. cfg' \in [Instances -> Seq(Text)] /\ cfg'[i] = q2 /\ \A j \in Instances : j # i => cfg'[j] = cfg[j]
  BY <1>8, <1>9, <1>10
<1> QED BY <1>3, <1>5, <1>6, <1>7, <1>9, <1>11

LEMMA EditTyped ==
    ASSUME TypeInv, NEW c \in Clients, EditSaves(c)
    PROVE  TypeInv'
<1> DEFINE i == req[c].inst
           t == req[c].text
<1>0. i \in Instances /\ t \in Text /\ TypeOK
  BY DEF EditSaves, At, TypeInv, ReqOK
<1>1. ReqTyped'
  BY EndsTyped DEF EditSaves, ReqTyped
<1>2. UNCHANGED <<state, hurd, toStart, lock, proc, boot>>
  BY DEF EditSaves, manager
<1>3. CASE UNCHANGED <<disk, shown, tables>>
  BY <1>0, <1>1, <1>2, <1>3, RestTyped DEF TypeOK, tables
<1>4. CASE ~ UNCHANGED <<disk, shown, tables>>
  <2>1. /\ Listed(i) /\ Writes(i, t) /\ rows' = [rows EXCEPT ![i][1].text = t]
        /\ cfg'  = [cfg EXCEPT ![i] = [k \in DOMAIN @ |-> t]]
    BY <1>4 DEF EditSaves, StillListed
  <2>2. rows' \in [Instances -> Seq(Row)] /\ cfg' \in [Instances -> Seq(Text)]
    BY <1>0, <2>1, RowEdited
  <2>3. disk' \in [Instances -> Text \union {Absent, Torn}]
        /\ shown' \in [Instances -> {"nothing", "enabled", "disabled"}]
    BY <1>0, <2>1, WritesTyped
  <2> QED BY <1>0, <1>1, <1>2, <2>2, <2>3, RestTyped DEF TypeOK
<1> QED BY <1>3, <1>4

LEMMA EnableTyped ==
    ASSUME TypeInv, NEW c \in Clients, EnableSwitches(c)
    PROVE  TypeInv'
<1> DEFINE i == req[c].inst
           cur == Switched(disk[i], TRUE)
<1>0. req[c].op = "enable" /\ i \in Instances /\ TypeOK
  BY DEF EnableSwitches, At, TypeInv, ReqOK
<1>1. ReqTyped' /\ lock' \in Clients \union {Nobody}
  <2>1. CASE Ends(c) /\ lock' = Nobody
    BY <2>1, EndsTyped DEF ReqTyped
  <2>2. CASE Goes(c, "install") /\ lock' = lock
    BY <1>0, <2>2, GoesTyped DEF ReqTyped, Points, TypeOK
  <2> QED BY <2>1, <2>2 DEF EnableSwitches, Answers
<1>2. UNCHANGED <<state, hurd, toStart, cfg, proc, boot>>
  BY DEF EnableSwitches, manager
<1>3. CASE UNCHANGED <<disk, shown, rows>>
  BY <1>0, <1>1, <1>2, <1>3, RestTyped DEF TypeOK
<1>4. CASE disk[i] \in Text /\ ~ UNCHANGED <<disk, shown, rows>>
  <2>1. cur \in Text /\ Switched(cur, FALSE) \in Text
    BY <1>4, SwitchedIsText
  <2>2. \/ rows' = rows
        \/ \E r \in Row : rows' = [rows EXCEPT ![i] = <<r>>]
    <3>1. RowOf(cur) \in Row /\ [RowOf(cur) EXCEPT !.inProcess = TRUE] \in Row
      BY <2>1, RowOfIsRow
    <3> HIDE DEF cur
    <3> QED BY <1>4, <3>1 DEF EnableSwitches, cur
  <2>3. rows' \in [Instances -> Seq(Row)]
    BY <1>0, <2>2, RowReplaced DEF TypeOK
  <2>4. \/ \E t \in Text : Writes(i, t)
        \/ disk' = [disk EXCEPT ![i] = cur] /\ Shows(i, "enabled")
    <3> HIDE DEF cur
    <3> QED BY <1>4, <2>1 DEF EnableSwitches, cur
  <2>5. disk' \in [Instances -> Text \union {Absent, Torn}]
        /\ shown' \in [Instances -> {"nothing", "enabled", "disabled"}]
    <3>1. CASE \E t \in Text : Writes(i, t)
      BY <1>0, <3>1, WritesTyped
    <3>2. CASE disk' = [disk EXCEPT ![i] = cur] /\ Shows(i, "enabled")
      <4> HIDE DEF cur
      <4> QED BY <1>0, <2>1, <3>2 DEF Shows, TypeOK
    <3> QED BY <2>4, <3>1, <3>2
  <2> QED BY <1>0, <1>1, <1>2, <2>3, <2>5, RestTyped DEF TypeOK
<1>5. disk[i] \in Text \/ UNCHANGED <<disk, shown, rows>>
  BY DEF EnableSwitches
<1> QED BY <1>3, <1>4, <1>5

LEMMA SwitchTyped ==
    ASSUME TypeInv, NEW c \in Clients,
           EnableInstalls(c) \/ EnableBoots(c) \/ EnableStarts(c) \/ EnableGivesUp(c)
    PROVE  TypeInv'
<1>0. req[c].op = "enable" /\ req[c].inst \in Instances /\ TypeOK
  BY DEF EnableInstalls, EnableBoots, EnableStarts, EnableGivesUp, GivesUpLeaving, At, TypeInv, ReqOK
<1>1. ReqTyped'
  <2>1. CASE Ends(c)
    BY <2>1, EndsTyped DEF ReqTyped
  <2>2. CASE Goes(c, "boot") \/ Goes(c, "run")
    BY <1>0, <2>2, GoesTyped DEF ReqTyped, Points
  <2> QED BY <2>1, <2>2 DEF EnableInstalls, EnableBoots, EnableStarts, EnableGivesUp, GivesUpLeaving, Answers
<1>2. UNCHANGED <<disk, state, hurd, toStart, rows, cfg>> /\ lock' \in {lock, Nobody}
  BY DEF EnableInstalls, EnableBoots, EnableStarts, EnableGivesUp, GivesUpLeaving, Answers, tables
<1>3. boot' \subseteq Instances
  BY <1>0 DEF EnableInstalls, EnableBoots, EnableStarts, EnableGivesUp, GivesUpLeaving, manager, TypeOK
<1>4. proc' \in [Instances -> {"off", "loading", "up", "waiting"}]
      /\ shown' \in [Instances -> {"nothing", "enabled", "disabled"}]
  BY <1>0 DEF EnableInstalls, EnableBoots, EnableStarts, EnableGivesUp, GivesUpLeaving, manager,
     Started, Shows, TypeOK
<1> QED BY <1>0, <1>1, <1>2, <1>3, <1>4, RestTyped DEF TypeOK

LEMMA DisableTyped ==
    ASSUME TypeInv, NEW c \in Clients, NEW i \in Instances, DisableSwitches(c, i)
    PROVE  TypeInv'
<1> DEFINE cur == Switched(disk[i], FALSE)
<1>0. TypeOK /\ ReqTyped /\ cur \in Text /\ RowOf(cur) \in Row
  BY SwitchedIsText, RowOfIsRow DEF TypeInv, TypeOK, ReqTyped, Request, DisableSwitches
<1> HIDE DEF cur
<1>1. ReqTyped' /\ lock' \in Clients \union {Nobody}
  <2>1. CASE Begins(c, "disable", "halt", i, Absent) /\ lock' = c
    BY <2>1, BeginsTyped DEF Ops, Points, ReqTyped
  <2>2. CASE UNCHANGED <<req, lock>>
    BY <1>0, <2>2 DEF ReqTyped, ReqOK, TypeOK
  <2> QED BY <2>1, <2>2 DEF DisableSwitches
<1>2. rows' = [rows EXCEPT ![i] = <<RowOf(cur)>>] /\ disk' = [disk EXCEPT ![i] = cur]
  BY DEF DisableSwitches, cur
<1>3. Shows(i, "nothing") \/ Shows(i, "disabled")
  BY DEF DisableSwitches
<1>4. rows' \in [Instances -> Seq(Row)]
  BY <1>0, <1>2, RowReplaced
<1>5. disk' \in [Instances -> Text \union {Absent, Torn}]
      /\ shown' \in [Instances -> {"nothing", "enabled", "disabled"}]
  BY <1>0, <1>2, <1>3 DEF TypeOK, Shows
<1>6. UNCHANGED <<state, hurd, toStart, cfg, proc, boot>>
  BY DEF DisableSwitches, manager
<1> QED BY <1>0, <1>1, <1>4, <1>5, <1>6, RestTyped DEF TypeOK

LEMMA StopTyped ==
    ASSUME TypeInv, NEW c \in Clients,
           DisableStops(c) \/ DisableUnboots(c) \/ Starts(c) \/ Stops(c) \/ Restarts(c)
    PROVE  TypeInv'
<1>0. req[c].op # "none" /\ req[c].op \notin {"add", "edit"} /\ req[c].inst \in Instances /\ TypeOK
  BY DEF DisableStops, DisableUnboots, Starts, Stops, Restarts, At, TypeInv, ReqOK
<1>1. ReqTyped'
  <2>1. CASE Ends(c)
    BY <2>1, EndsTyped DEF ReqTyped
  <2>2. CASE Goes(c, "unboot")
    BY <1>0, <2>2, GoesTyped DEF ReqTyped, Points
  <2>3. CASE req' = [req EXCEPT ![c].at = "unboot", ![c].ok = FALSE]
    <3>1. req \in [Clients -> Request] /\ \A d \in Clients : ReqOK(d)
      BY DEF TypeInv, TypeOK, Request
    <3>2. req'[c] = [req[c] EXCEPT !.at = "unboot", !.ok = FALSE]
      BY <3>1, <2>3
    <3>3. req'[c] \in Request /\ req'[c].op = req[c].op /\ req'[c].inst = req[c].inst
      <4>1. req[c] \in Request /\ "unboot" \in Points /\ FALSE \in BOOLEAN
        BY <3>1 DEF Points
      <4> QED BY <3>2, <4>1 DEF Request
    <3>4. req' \in [Clients -> Request] /\ \A d \in Clients : d # c => req'[d] = req[d]
      BY <3>1, <2>3, <3>3
    <3>5. ReqOK(c)'
      BY <1>0, <3>3 DEF ReqOK
    <3>6. \A d \in Clients : d # c => ReqOK(d)'
      BY <3>1, <3>4 DEF ReqOK
    <3> QED BY <3>4, <3>5, <3>6 DEF ReqTyped
  <2> QED BY <2>1, <2>2, <2>3 DEF DisableStops, DisableUnboots, Starts, Stops, Restarts, Answers
<1>2. UNCHANGED <<disk, state, hurd, toStart, rows, cfg>> /\ lock' \in {lock, Nobody}
  BY DEF DisableStops, DisableUnboots, Starts, Stops, Restarts, Answers, tables
<1>3. boot' \subseteq Instances
  BY <1>0 DEF DisableStops, DisableUnboots, Starts, Stops, Restarts, TypeOK
<1>4. proc' \in [Instances -> {"off", "loading", "up", "waiting"}]
      /\ shown' \in [Instances -> {"nothing", "enabled", "disabled"}]
  BY <1>0 DEF DisableStops, DisableUnboots, Starts, Stops, Restarts, Started, Shows, TypeOK
<1> QED BY <1>0, <1>1, <1>2, <1>3, <1>4, RestTyped DEF TypeOK

LEMMA DeleteTyped ==
    ASSUME TypeInv, NEW c \in Clients, DeleteRemoves(c)
    PROVE  TypeInv'
<1> DEFINE i == req[c].inst
<1>0. i \in Instances /\ TypeOK
  BY DEF DeleteRemoves, At, TypeInv, ReqOK
<1>1. ReqTyped' /\ lock' = Nobody
  BY EndsTyped DEF DeleteRemoves, Answers, ReqTyped
<1>2. UNCHANGED <<state, hurd, toStart, proc, boot>>
  BY DEF DeleteRemoves, manager
<1>3. CASE UNCHANGED <<disk, shown, tables>>
  BY <1>0, <1>1, <1>2, <1>3, RestTyped DEF TypeOK, tables
<1>4. CASE ~ UNCHANGED <<disk, shown, tables>>
  <2>1. /\ Writes(i, Absent)
        /\ rows' = [rows EXCEPT ![i] = <<>>] /\ cfg' = [cfg EXCEPT ![i] = <<>>]
    BY <1>4 DEF DeleteRemoves
  <2>2. rows' \in [Instances -> Seq(Row)] /\ cfg' \in [Instances -> Seq(Text)]
    BY <1>0, <2>1 DEF TypeOK
  <2>3. disk' \in [Instances -> Text \union {Absent, Torn}]
        /\ shown' \in [Instances -> {"nothing", "enabled", "disabled"}]
    BY <1>0, <2>1, WritesTyped
  <2> QED BY <1>0, <1>1, <1>2, <2>2, <2>3, RestTyped DEF TypeOK
<1> QED BY <1>3, <1>4

LEMMA ProcessTyped ==
    ASSUME TypeInv, NEW i \in Instances, Processes(i) \/ StartsSeparate(i)
    PROVE  TypeInv'
<1>0. TypeOK /\ ReqTyped
  BY DEF TypeInv, TypeOK, ReqTyped, Request
<1>1. UNCHANGED <<hurd, rows, cfg, lock, req, boot>>
  BY DEF Processes, Launches, Exits, Retries, ManagerStarts, SavesState, AdminEnables, StartsSeparate,
     tables, manager
<1>2. ReqTyped'
  BY <1>0, <1>1 DEF ReqTyped, ReqOK
<1>3. state' \subseteq Instances /\ toStart' \subseteq Instances
  BY <1>0 DEF Processes, Launches, Exits, Retries, ManagerStarts, SavesState, AdminEnables, StartsSeparate,
     TypeOK
<1>4. proc' \in [Instances -> {"off", "loading", "up", "waiting"}]
  BY <1>0 DEF Processes, Launches, Exits, Retries, ManagerStarts, SavesState, AdminEnables, StartsSeparate,
     manager, Started, TypeOK
<1>5. disk' \in [Instances -> Text \union {Absent, Torn}]
      /\ shown' \in [Instances -> {"nothing", "enabled", "disabled"}]
  <2>1. CASE AdminEnables(i)
    <3>1. Switched(disk[i], TRUE) \in Text
      BY <2>1, SwitchedIsText DEF AdminEnables
    <3> QED BY <1>0, <2>1, <3>1, WritesTyped DEF AdminEnables
  <2>2. CASE ~ AdminEnables(i)
    BY <1>0, <2>2 DEF Processes, Launches, Exits, Retries, ManagerStarts, SavesState, StartsSeparate, TypeOK
  <2> QED BY <2>1, <2>2
<1> QED BY <1>0, <1>1, <1>2, <1>3, <1>4, <1>5, RestTyped DEF TypeOK

\* What start-up makes of the directory: a row for each file.
LEMMA BootTables ==
    ASSUME TypeOK, Boots, Loadable
    PROVE  /\ rows' \in [Instances -> Seq(Row)] /\ cfg' \in [Instances -> Seq(Text)]
           /\ toStart' \subseteq Instances /\ hurd' = "up"
           /\ \A i \in Instances : disk[i] \notin Text => rows'[i] = <<>> /\ cfg'[i] = <<>>
           /\ \A i \in Instances : disk[i] \in Text =>
                /\ Len(rows'[i]) = 1 /\ rows'[i] # <<>> /\ Len(cfg'[i]) = 1
                /\ rows'[i][1].text = disk[i]
                /\ rows'[i][1].inProcess => disk[i].on /\ Kind(disk[i].body) = "compiledIn"
<1> DEFINE on(kind) == {i \in ParsedFiles : disk[i] \in Text /\ disk[i].on /\ Kind(disk[i].body) = kind}
           row(i, running) == [text |-> disk[i], inProcess |-> i \in running]
<1>1. PICK running \in SUBSET on("compiledIn") :
        /\ rows' = [i \in Instances |-> IF i \in ParsedFiles THEN <<row(i, running)>> ELSE <<>>]
        /\ cfg' = [i \in Instances |-> IF i \in ParsedFiles THEN <<disk[i]>> ELSE <<>>]
        /\ toStart' = on("installedBinary") /\ hurd' = "up"
  BY DEF Boots
<1>2. \A i \in Instances : i \in ParsedFiles <=> disk[i] \in Text
  BY DEF ParsedFiles
<1>3. \A i \in ParsedFiles : row(i, running) \in Row /\ row(i, running).text = disk[i]
                             /\ (row(i, running).inProcess <=> i \in running)
  <2> SUFFICES ASSUME NEW i \in ParsedFiles
               PROVE  row(i, running) \in Row /\ row(i, running).text = disk[i]
                      /\ (row(i, running).inProcess <=> i \in running)
    OBVIOUS
  <2>1. disk[i] \in Text /\ (i \in running) \in BOOLEAN
    BY <1>2 DEF ParsedFiles
  <2> QED BY <2>1, RowOfIsRow
<1> HIDE DEF row
<1>4. rows' \in [Instances -> Seq(Row)] /\ cfg' \in [Instances -> Seq(Text)]
  BY <1>1, <1>2, <1>3
<1>5. \A i \in Instances : disk[i] \notin Text => rows'[i] = <<>> /\ cfg'[i] = <<>>
  BY <1>1, <1>2
<1>6. \A i \in Instances : disk[i] \in Text => rows'[i] = <<row(i, running)>> /\ cfg'[i] = <<disk[i]>>
  BY <1>1, <1>2
<1>7. \A i \in running : disk[i].on /\ Kind(disk[i].body) = "compiledIn"
  OBVIOUS
<1>8. ASSUME NEW i \in Instances, disk[i] \in Text
      PROVE  /\ Len(rows'[i]) = 1 /\ rows'[i] # <<>> /\ Len(cfg'[i]) = 1
             /\ rows'[i][1].text = disk[i]
             /\ rows'[i][1].inProcess => disk[i].on /\ Kind(disk[i].body) = "compiledIn"
  <2>1. rows'[i][1] = row(i, running) /\ Len(rows'[i]) = 1 /\ rows'[i] # <<>> /\ Len(cfg'[i]) = 1
    <3> DEFINE r == row(i, running)
    <3>1. rows'[i] = <<r>> /\ cfg'[i] = <<disk[i]>>
      BY <1>6, <1>8
    <3> HIDE DEF r
    <3>2. rows'[i][1] = r /\ Len(rows'[i]) = 1 /\ rows'[i] # <<>> /\ Len(cfg'[i]) = 1
      BY <3>1
    <3> QED BY <3>2 DEF r
  <2>2. i \in ParsedFiles
    BY <1>2, <1>8
  <2> QED BY <1>3, <1>7, <2>1, <2>2
<1>9. toStart' \subseteq Instances
  BY <1>1 DEF ParsedFiles
<1> QED BY <1>1, <1>4, <1>5, <1>8, <1>9

LEMMA BootsTyped == ASSUME TypeInv, Boots PROVE TypeInv'
<1>0. TypeOK /\ ReqTyped
  BY DEF TypeInv, TypeOK, ReqTyped, Request
<1>1. UNCHANGED <<disk, state, lock, req, proc, boot, shown>> /\ hurd' \in {"up", "refused"}
  BY DEF Boots, manager
<1>2. ReqTyped'
  BY <1>0, <1>1 DEF ReqTyped, ReqOK
<1>3. rows' \in [Instances -> Seq(Row)] /\ cfg' \in [Instances -> Seq(Text)] /\ toStart' \subseteq Instances
  <2>1. CASE Loadable
    BY <1>0, <2>1, BootTables
  <2>2. CASE ~ Loadable
    BY <1>0, <2>2 DEF Boots, tables, TypeOK
  <2> QED BY <2>1, <2>2
<1> QED BY <1>0, <1>1, <1>2, <1>3, RestTyped DEF TypeOK

LEMMA DiesTyped == ASSUME TypeInv, Dies PROVE TypeInv'
<1>0. TypeOK
  BY DEF TypeInv
<1>1. req' \in [Clients -> Request] /\ \A c \in Clients : req'[c] = Idle
  BY IdleIsRequest DEF Dies
<1>2. ReqTyped'
  BY <1>1, IdleIsRequest DEF ReqTyped, ReqOK
<1>3. UNCHANGED <<disk, state, boot, shown>> /\ hurd' = "down" /\ toStart' = {} /\ lock' = Nobody
  BY DEF Dies
<1>4. rows' \in [Instances -> Seq(Row)] /\ cfg' \in [Instances -> Seq(Text)]
  BY DEF Dies
<1>5. proc' \in [Instances -> {"off", "loading", "up", "waiting"}]
  BY <1>0 DEF Dies, TypeOK
<1> QED BY <1>0, <1>2, <1>3, <1>4, <1>5, RestTyped DEF TypeOK

LEMMA NextTyped == ASSUME TypeInv, [Next]_vars PROVE TypeInv'
<1>1. CASE UNCHANGED vars
  BY <1>1 DEF vars, tables, manager, TypeInv, TypeOK, ReqOK
<1>2. ASSUME NEW c \in Clients, Requests(c) PROVE TypeInv'
  BY <1>2, RequestsTyped, DisableTyped DEF Requests
<1>3. ASSUME NEW c \in Clients, Continues(c) PROVE TypeInv'
  BY <1>3, AddTyped, EditTyped, EnableTyped, SwitchTyped, StopTyped, DeleteTyped DEF Continues
<1>4. ASSUME NEW i \in Instances, Processes(i) \/ StartsSeparate(i) PROVE TypeInv'
  BY <1>4, ProcessTyped
<1> QED BY <1>1, <1>2, <1>3, <1>4, BootsTyped, DiesTyped DEF Next

\* Every variable of Catalogue has its type (disk, orchestrator.rows and cfg, the
\* requests, the service manager), for any directory, drivers and failures.
THEOREM TypeCorrect == Spec => []TypeOK
<1>1. Init => TypeInv
  BY InitTyped
<1>2. TypeInv /\ [Next]_vars => TypeInv'
  BY NextTyped
<1>3. TypeInv => TypeOK
  BY DEF TypeInv
<1> QED BY <1>1, <1>2, <1>3, PTL DEF Spec

(***************************************************************************)
(* Framing: a step is about one instance and one request.                  *)
(***************************************************************************)

\* A step leaves instance i alone, or starts no driver of it and only forgets the
\* last answer of its switch.
Same(i) ==
    /\ disk'[i] = disk[i] /\ rows'[i] = rows[i] /\ cfg'[i] = cfg[i]
    /\ proc'[i] = "up" => proc[i] = "up"
    /\ i \in boot' <=> i \in boot
    /\ shown'[i] \in {shown[i], "nothing"}

LEMMA FileKept ==
    ASSUME NEW i \in Instances, FileOK(i), Same(i), hurd' = hurd,
           hurd = "up" /\ disk[i] \in Text /\ Adding(i)' = {} => Listed(i) \/ Adding(i) = {}
    PROVE  FileOK(i)'
<1>1. RowOK(i)'
  BY DEF FileOK, Same, RowOK
<1>2. FileListed(i)'
  BY DEF FileOK, Same, FileListed, Listed
<1>3. ProcOK(i)'
  BY DEF FileOK, Same, ProcOK, HasBinary
<1>4. EnabledIsReal(i)'
  BY DEF FileOK, Same, EnabledIsReal
<1>5. DisabledIsReal(i)'
  BY DEF FileOK, Same, DisabledIsReal
<1> QED BY <1>1, <1>2, <1>3, <1>4, <1>5 DEF FileOK

LEMMA PointKept ==
    ASSUME NEW d \in Clients, PointOK(d), req'[d] = req[d], Serving => Serving',
           lock = d => lock' = d,
           req[d].op # "none" => Same(req[d].inst),
           req[d].op = "add" => \A e \in Clients : req'[e].inst = req[d].inst => req[e].inst = req[d].inst
    PROVE  PointOK(d)'
<1>1. CASE req[d].op = "none"
  BY <1>1 DEF PointOK, HoldsOK, AddOK, EditOK, EnableOK, DisableOK, DeleteOK
<1>2. CASE req[d].op # "none"
  <2> DEFINE i == req[d].inst
  <2>1. Same(i)
    BY <1>2
  <2>2. HoldsOK(d)'
    BY <2>1 DEF PointOK, HoldsOK, Same, Listed
  <2>3. AddOK(d)'
    BY <2>1 DEF PointOK, AddOK, Same, Listed
  <2>4. EditOK(d)'
    BY <2>1 DEF PointOK, EditOK, Same, Listed
  <2>5. EnableOK(d)'
    BY <2>1 DEF PointOK, EnableOK, Same
  <2>6. DisableOK(d)'
    BY <2>1 DEF PointOK, DisableOK, Same
  <2>7. DeleteOK(d)'
    BY <2>1 DEF PointOK, DeleteOK, Same
  <2> QED BY <2>2, <2>3, <2>4, <2>5, <2>6, <2>7 DEF PointOK
<1> QED BY <1>1, <1>2

\* A step of request c for instance i: what is left to show is about these two and
\* the other requests for i.
LEMMA RequestStep ==
    ASSUME IInv, TypeInv', NEW c \in Clients, NEW i \in Instances,
           UNCHANGED <<hurd, toStart>>, \A j \in Instances : j # i => Same(j),
           \A d \in Clients : d # c => req'[d] = req[d] /\ (lock = d => lock' = d),
           req[c].inst \in {i, Nobody}, req'[c].inst \in {i, Nobody},
           FileOK(i)', PointOK(c)',
           \A d \in Clients : d # c /\ req[d].inst = i => PointOK(d)'
    PROVE  IInv'
<1>1. ASSUME NEW j \in Instances PROVE FileOK(j)'
  <2>1. CASE j = i
    BY <2>1
  <2>2. CASE j # i
    <3>1. req[c].inst # j /\ req'[c].inst # j
      BY <2>2, NobodyAssumption
    <3>2. Adding(j)' = Adding(j)
      BY <3>1 DEF Adding
    <3> QED BY <2>2, <3>2, FileKept DEF IInv
  <2> QED BY <2>1, <2>2
<1>2. ASSUME NEW d \in Clients PROVE PointOK(d)'
  <2>1. CASE d = c \/ req[d].inst = i
    BY <2>1
  <2>2. CASE d # c /\ req[d].inst # i
    <3>1. req[d].op # "none" => req[d].inst \in Instances
      BY DEF IInv, TypeInv, ReqOK
    <3>2. req[d].op # "none" => Same(req[d].inst)
      BY <2>2, <3>1
    <3>3. req[d].op = "add" => \A e \in Clients : req'[e].inst = req[d].inst => req[e].inst = req[d].inst
      BY <2>2, <3>1, NobodyAssumption
    <3>4. PointOK(d) /\ (Serving => Serving')
      BY DEF IInv, Serving
    <3> QED BY <2>2, <3>2, <3>3, <3>4, PointKept
  <2> QED BY <2>1, <2>2
<1> QED BY <1>1, <1>2 DEF IInv

\* A step of request c that leaves every instance alone.
LEMMA QuietStep ==
    ASSUME IInv, TypeInv', NEW c \in Clients, NEW i \in Instances,
           UNCHANGED <<hurd, toStart>>, \A j \in Instances : Same(j),
           \A d \in Clients : d # c => req'[d] = req[d] /\ (lock = d => lock' = d),
           req[c].inst \in {i, Nobody}, req'[c].inst \in {i, Nobody},
           PointOK(c)',
           hurd = "up" /\ disk[i] \in Text /\ Adding(i)' = {} => Listed(i) \/ Adding(i) = {},
           req'[c].inst = i /\ req[c].inst # i => Adding(i) = {}
    PROVE  IInv'
<1>1. FileOK(i)'
  BY FileKept DEF IInv
<1>2. ASSUME NEW d \in Clients, d # c, req[d].inst = i PROVE PointOK(d)'
  <2>1. PointOK(d) /\ (Serving => Serving') /\ req'[d] = req[d] /\ (lock = d => lock' = d) /\ Same(i)
    BY <1>2 DEF IInv, Serving
  <2>2. req[d].op = "add" => \A e \in Clients : req'[e].inst = i => req[e].inst = i
    BY <1>2 DEF Adding
  <2> QED BY <1>2, <2>1, <2>2, PointKept
<1> QED BY <1>1, <1>2, RequestStep

\* A step that is no request's leaves the requests as they are.
LEMMA OtherStep ==
    ASSUME IInv, TypeInv', NEW i \in Instances,
           UNCHANGED <<hurd, req, lock>>, Serving => Serving',
           \A j \in Instances : j # i => Same(j), FileOK(i)',
           \A d \in Clients : req[d].inst = i => PointOK(d)'
    PROVE  IInv'
<1>1. ASSUME NEW j \in Instances, j # i PROVE FileOK(j)'
  <2>1. Adding(j)' = Adding(j)
    BY DEF Adding
  <2> QED BY <1>1, <2>1, FileKept DEF IInv
<1>2. ASSUME NEW d \in Clients, req[d].inst # i PROVE PointOK(d)'
  <2>1. req[d].op # "none" => req[d].inst \in Instances
    BY DEF IInv, TypeInv, ReqOK
  <2>2. req[d].op # "none" => Same(req[d].inst)
    BY <1>2, <2>1
  <2> QED BY <1>2, <2>2, PointKept DEF IInv
<1> QED BY <1>1, <1>2 DEF IInv

\* An instance with a row is not being added.
LEMMA ListedNotAdded ==
    ASSUME IInv, NEW i \in Instances, Listed(i)
    PROVE  Adding(i) = {}
BY DEF IInv, PointOK, AddOK, Adding

\* While nobody else has orchestrator.mu, only edits, Start, Stop and Restart of a
\* listed instance are under way.
LEMMA Alone ==
    ASSUME IInv, NEW c \in Clients, NEW d \in Clients, d # c, lock \in {c, Nobody},
           req[d].inst \in Instances, Listed(req[d].inst)
    PROVE  req[d].op \in {"edit", "start", "stop", "restart"}
<1>1. req[d].op \in Ops /\ req[d].op # "none"
  BY NobodyAssumption DEF IInv, TypeInv, TypeOK, ReqOK, Idle
<1>2. req[d].op # "add"
  BY DEF IInv, PointOK, AddOK
<1>3. req[d].op \notin {"enable", "disable", "delete"}
  BY NobodyAssumption DEF IInv, PointOK, HoldsOK
<1> QED BY <1>1, <1>2, <1>3 DEF Ops

\* Of those, only an edit relies on the file, and only on its driver.
LEMMA UnlockedKept ==
    ASSUME NEW d \in Clients, PointOK(d), req'[d] = req[d], Serving => Serving',
           req[d].op \in {"edit", "start", "stop", "restart"},
           Listed(req[d].inst)' => /\ Listed(req[d].inst)
                                   /\ DriverKept => DriverOf[disk'[req[d].inst].body]
                                                       = DriverOf[disk[req[d].inst].body]
    PROVE  PointOK(d)'
<1>1. HoldsOK(d)' /\ AddOK(d)' /\ EnableOK(d)' /\ DisableOK(d)' /\ DeleteOK(d)'
  BY DEF PointOK, HoldsOK, AddOK, EnableOK, DisableOK, DeleteOK
<1>2. EditOK(d)'
  BY DEF PointOK, EditOK, Listed
<1> QED BY <1>1, <1>2 DEF PointOK

(***************************************************************************)
(* Requests begin.                                                         *)
(***************************************************************************)

LEMMA AddChecksKeeps ==
    ASSUME NoOverlap, IInv, TypeInv', NEW c \in Clients, NEW i \in Instances, AddChecks(c, i)
    PROVE  IInv'
<1>1. PICK t \in Text : Begins(c, "add", "write", i, t) /\ t.body \in Templates /\ ~ t.on
  <2>1. PICK b \in Templates : Begins(c, "add", "write", i, [on |-> FALSE, body |-> b])
    BY DEF AddChecks
  <2>2. [on |-> FALSE, body |-> b] \in Text
    BY BodiesAssumption DEF Text
  <2> QED BY <2>1, <2>2
<1>2. t \in Text /\ t.body \in Templates /\ ~ t.on
  BY <1>1
<1>3. /\ req'[c].op = "add" /\ req'[c].inst = i /\ req'[c].at = "write" /\ req'[c].text = t
      /\ \A d \in Clients : d # c => req'[d] = req[d]
  <2>1. TypeInv /\ Begins(c, "add", "write", i, t) /\ "add" \in Ops \ {"none"} /\ "write" \in Points
    BY <1>1 DEF Ops, Points, IInv
  <2> QED BY <2>1, BeginsTyped, ZenonT(60)
<1>4. /\ \A j \in Instances : Same(j)
      /\ UNCHANGED <<hurd, toStart, lock, rows, disk>> /\ Serving
      /\ disk[i] = Absent /\ \A d \in Clients : req[d].inst # i
  BY DEF AddChecks, Same, tables, manager, Arrives, NoTrace, NoFile, NoOverlap
<1>5. disk[i] \notin Text /\ ~ Listed(i)
  BY <1>4, NoTextAssumption DEF IInv, FileOK, RowOK, Listed
<1>6. PointOK(c)'
  <2>1. HoldsOK(c)'
    BY <1>3, <1>4 DEF HoldsOK, Serving
  <2>2. AddOK(c)'
    BY <1>2, <1>3, <1>4, <1>5 DEF AddOK, Listed
  <2>3. EditOK(c)' /\ EnableOK(c)' /\ DisableOK(c)' /\ DeleteOK(c)'
    BY <1>3 DEF EditOK, EnableOK, DisableOK, DeleteOK
  <2> QED BY <2>1, <2>2, <2>3 DEF PointOK
<1>7. req[c].inst = Nobody
  BY IdleIsRequest DEF AddChecks, Arrives
<1> QED BY <1>3, <1>4, <1>5, <1>6, <1>7, QuietStep DEF Adding

LEMMA EditChecksKeeps ==
    ASSUME IInv, TypeInv', NEW c \in Clients, NEW i \in Instances, EditChecks(c, i)
    PROVE  IInv'
<1>1. PICK t \in Text : /\ Accepted(rows[i][1], t)
                        /\ DriverKept => DriverOf[t.body] = DriverOf[rows[i][1].text.body]
                        /\ Begins(c, "edit", "save", i, t)
  BY DEF EditChecks, DriverKept
<1>2. /\ req'[c].op = "edit" /\ req'[c].inst = i /\ req'[c].at = "save" /\ req'[c].text = t
      /\ \A d \in Clients : d # c => req'[d] = req[d]
  <2>1. TypeInv /\ Begins(c, "edit", "save", i, t) /\ "edit" \in Ops \ {"none"} /\ "save" \in Points
    BY <1>1 DEF Ops, Points, IInv
  <2> QED BY <2>1, BeginsTyped, ZenonT(60)
<1>3. /\ \A j \in Instances : Same(j)
      /\ UNCHANGED <<hurd, toStart, lock, rows, disk>> /\ Serving /\ Listed(i)
  BY DEF EditChecks, Same, tables, manager, Arrives
<1>4. disk[i].body = rows[i][1].text.body
  BY <1>3 DEF IInv, FileOK, RowOK, Listed
<1>5. PointOK(c)'
  <2>1. HoldsOK(c)'
    BY <1>2, <1>3 DEF HoldsOK, Serving
  <2>2. EditOK(c)'
    BY <1>1, <1>2, <1>3, <1>4 DEF EditOK, Accepted
  <2>3. AddOK(c)' /\ EnableOK(c)' /\ DisableOK(c)' /\ DeleteOK(c)'
    BY <1>2 DEF AddOK, EnableOK, DisableOK, DeleteOK
  <2> QED BY <2>1, <2>2, <2>3 DEF PointOK
<1>6. req[c].inst = Nobody
  BY IdleIsRequest DEF EditChecks, Arrives
<1>7. Adding(i) = {}
  BY <1>3, ListedNotAdded
<1> QED BY <1>2, <1>3, <1>5, <1>6, <1>7, QuietStep

LEMMA EnableChecksKeeps ==
    ASSUME IInv, TypeInv', NEW c \in Clients, NEW i \in Instances, EnableChecks(c, i)
    PROVE  IInv'
<1>1. /\ req'[c].op = "enable" /\ req'[c].inst = i /\ req'[c].at = "switch"
      /\ \A d \in Clients : d # c => req'[d] = req[d]
  BY BeginsTyped DEF EnableChecks, Ops, Points, IInv
<1>2. /\ \A j \in Instances : Same(j)
      /\ UNCHANGED <<hurd, toStart, rows, disk>> /\ Serving /\ Listed(i) /\ lock = Nobody /\ lock' = c
  BY DEF EnableChecks, Same, tables, manager, Arrives, Unlocked
<1>3. disk[i].body \in Passing
  BY SwitchedIsText DEF EnableChecks, Accepted
<1>4. PointOK(c)'
  <2>1. HoldsOK(c)'
    BY <1>1, <1>2 DEF HoldsOK, Serving, Listed
  <2>2. EnableOK(c)'
    BY <1>1, <1>2, <1>3 DEF EnableOK
  <2>3. AddOK(c)' /\ EditOK(c)' /\ DisableOK(c)' /\ DeleteOK(c)'
    BY <1>1 DEF AddOK, EditOK, DisableOK, DeleteOK
  <2> QED BY <2>1, <2>2, <2>3 DEF PointOK
<1>5. req[c].inst = Nobody
  BY IdleIsRequest DEF EnableChecks, Arrives
<1>6. Adding(i) = {}
  BY <1>2, ListedNotAdded
<1>7. \A d \in Clients : d # c => (lock = d => lock' = d)
  BY <1>2, NobodyAssumption
<1> QED BY <1>1, <1>2, <1>4, <1>5, <1>6, <1>7, QuietStep

LEMMA DeleteChecksKeeps ==
    ASSUME IInv, TypeInv', NEW c \in Clients, NEW i \in Instances, DeleteChecks(c, i)
    PROVE  IInv'
<1>1. /\ req'[c].op = "delete" /\ req'[c].inst = i
      /\ \A d \in Clients : d # c => req'[d] = req[d]
  <2>1. TypeInv /\ Begins(c, "delete", "remove", i, Absent)
        /\ "delete" \in Ops \ {"none"} /\ "remove" \in Points
    BY DEF DeleteChecks, Ops, Points, IInv
  <2> QED BY <2>1, BeginsTyped
<1>2. /\ \A j \in Instances : Same(j)
      /\ UNCHANGED <<hurd, toStart, rows, disk, proc>> /\ Serving /\ Listed(i) /\ lock = Nobody /\ lock' = c
  BY DEF DeleteChecks, Same, tables, manager, Arrives, Unlocked
<1>3. DriverKept => proc'[i] # "up"
  <2> SUFFICES ASSUME DriverKept, proc[i] = "up" PROVE FALSE
    BY <1>2
  <2>1. HasBinary(i)
    BY DEF IInv, FileOK, ProcOK
  <2>2. disk[i].body = rows[i][1].text.body
    BY <1>2 DEF IInv, FileOK, RowOK, Listed
  <2> QED BY <2>1, <2>2 DEF DeleteChecks, HasBinary
<1>4. PointOK(c)'
  <2>1. HoldsOK(c)'
    BY <1>1, <1>2 DEF HoldsOK, Serving, Listed
  <2>2. DeleteOK(c)'
    BY <1>1, <1>3 DEF DeleteOK
  <2>3. AddOK(c)' /\ EditOK(c)' /\ DisableOK(c)' /\ EnableOK(c)'
    BY <1>1 DEF AddOK, EditOK, DisableOK, EnableOK
  <2> QED BY <2>1, <2>2, <2>3 DEF PointOK
<1>5. req[c].inst = Nobody
  BY IdleIsRequest DEF DeleteChecks, Arrives
<1>6. Adding(i) = {}
  BY <1>2, ListedNotAdded
<1>7. \A d \in Clients : d # c => (lock = d => lock' = d)
  BY <1>2, NobodyAssumption
<1> QED BY <1>1, <1>2, <1>4, <1>5, <1>6, <1>7, QuietStep

LEMMA AsksKeeps ==
    ASSUME IInv, TypeInv', NEW c \in Clients, NEW i \in Instances, Asks(c, i)
    PROVE  IInv'
<1>1. /\ req'[c].op \in {"start", "stop", "restart"} /\ req'[c].inst = i
      /\ \A d \in Clients : d # c => req'[d] = req[d]
  <2>1. \/ Begins(c, "start", "run", i, Absent)
        \/ Begins(c, "stop", "halt", i, Absent)
        \/ Begins(c, "restart", "run", i, Absent)
    BY DEF Asks
  <2> QED BY <2>1, BeginsTyped, ZenonT(60) DEF Ops, Points, IInv
<1>2. /\ \A j \in Instances : Same(j)
      /\ UNCHANGED <<hurd, toStart, lock>> /\ Serving /\ Listed(i)
  BY DEF Asks, Same, tables, manager, Arrives
<1>3. PointOK(c)'
  BY <1>1, <1>2 DEF PointOK, HoldsOK, Serving, AddOK, EditOK, EnableOK, DisableOK, DeleteOK
<1>4. req[c].inst = Nobody
  BY IdleIsRequest DEF Asks, Arrives
<1>5. Adding(i) = {}
  BY <1>2, ListedNotAdded
<1> QED BY <1>1, <1>2, <1>3, <1>4, <1>5, QuietStep

\* A switch from the page goes off: the file, then the row.
LEMMA DisableSwitchesKeeps ==
    ASSUME IInv, TypeInv', NEW c \in Clients, NEW i \in Instances, DisableSwitches(c, i)
    PROVE  IInv'
<1> DEFINE cur == Switched(disk[i], FALSE)
<1>1. cur \in Text /\ cur.body = disk[i].body /\ ~ cur.on /\ RowOf(cur) \in Row
      /\ RowOf(cur).text = cur /\ RowOf(cur).inProcess = FALSE
  BY SwitchedIsText, RowOfIsRow DEF DisableSwitches
<1> HIDE DEF cur
<1>2. /\ rows' = [rows EXCEPT ![i] = <<RowOf(cur)>>] /\ disk' = [disk EXCEPT ![i] = cur]
      /\ UNCHANGED <<hurd, toStart, cfg, proc, boot>>
      /\ Serving /\ Listed(i) /\ lock = Nobody /\ disk[i] \in Text
  BY DEF DisableSwitches, cur, manager, Arrives, Unlocked
<1>3. TypeOK /\ FileOK(i) /\ RowOK(i)
  BY DEF IInv, TypeInv, FileOK
<1>4. /\ rows'[i][1] = RowOf(cur) /\ Len(rows'[i]) = 1 /\ rows'[i] # <<>>
      /\ \A j \in Instances : j # i => rows'[j] = rows[j]
  BY <1>1, <1>2, <1>3, RowReplaced
<1>5. disk'[i] = cur /\ \A j \in Instances : j # i => disk'[j] = disk[j]
  BY <1>2, <1>3 DEF TypeOK
<1> DEFINE separate == Kind(cur.body) = "installedBinary" /\ ~ RunsHere(i)
<1>6. /\ shown'[i] = (IF separate THEN "nothing" ELSE "disabled")
      /\ \A j \in Instances : j # i => shown'[j] = shown[j]
  BY <1>3 DEF DisableSwitches, Shows, TypeOK, cur
<1>7. IF separate THEN Begins(c, "disable", "halt", i, Absent) /\ lock' = c ELSE UNCHANGED <<req, lock>>
  BY DEF DisableSwitches, cur
<1>8. DriverKept /\ ~ separate => Kind(cur.body) # "installedBinary" /\ proc[i] # "up"
  <2> SUFFICES ASSUME DriverKept, ~ separate
               PROVE  Kind(cur.body) # "installedBinary" /\ proc[i] # "up"
    OBVIOUS
  <2>1. Kind(cur.body) # "installedBinary"
    <3>1. ASSUME RunsHere(i) PROVE Kind(cur.body) = "compiledIn"
      <4>1. Len(rows[i]) = 1 /\ rows[i] \in Seq(Row)
        BY <1>2, <1>3 DEF RowOK, Listed, TypeOK
      <4>2. DOMAIN rows[i] = {1}
        BY <4>1
      <4>3. rows[i][1].inProcess
        BY <3>1, <4>2 DEF RunsHere
      <4> QED BY <1>1, <1>2, <1>3, <4>3 DEF RowOK, Listed
    <3> QED BY <3>1
  <2> QED BY <1>1, <1>3, <2>1 DEF FileOK, ProcOK, HasBinary
<1> HIDE DEF separate
<1>9. /\ \A d \in Clients : d # c => req'[d] = req[d]
      /\ \/ separate /\ lock' = c /\ req'[c].op = "disable" /\ req'[c].at = "halt" /\ req'[c].inst = i
         \/ ~ separate /\ req' = req /\ lock' = lock
  BY <1>7, BeginsTyped DEF Ops, Points, IInv
<1>10. req[c].op = "none" /\ req[c].inst = Nobody
  BY IdleIsRequest DEF DisableSwitches, Arrives
<1>11. Adding(i) = {}
  BY <1>2, ListedNotAdded
<1>12. FileOK(i)'
  <2>1. RowOK(i)'
    BY <1>1, <1>2, <1>3, <1>4, <1>5 DEF RowOK, Serving, Listed
  <2>2. FileListed(i)'
    BY <1>4 DEF FileListed, Listed
  <2>3. ProcOK(i)'
    BY <1>1, <1>2, <1>3, <1>5 DEF FileOK, ProcOK, HasBinary
  <2>4. EnabledIsReal(i)'
    BY <1>6 DEF EnabledIsReal
  <2>5. DisabledIsReal(i)'
    BY <1>1, <1>2, <1>5, <1>6, <1>8 DEF DisabledIsReal
  <2> QED BY <2>1, <2>2, <2>3, <2>4, <2>5 DEF FileOK
<1>13. PointOK(c)'
  <2>1. CASE separate
    <3>1. HoldsOK(c)'
      BY <1>2, <1>4, <1>9, <2>1 DEF HoldsOK, Serving, Listed
    <3>2. DisableOK(c)'
      BY <1>1, <1>4, <1>6, <1>9, <2>1 DEF DisableOK
    <3>3. AddOK(c)' /\ EditOK(c)' /\ DeleteOK(c)' /\ EnableOK(c)'
      BY <1>9, <2>1 DEF AddOK, EditOK, DeleteOK, EnableOK
    <3> QED BY <3>1, <3>2, <3>3 DEF PointOK
  <2>2. CASE ~ separate
    BY <1>9, <1>10, <2>2 DEF PointOK, HoldsOK, AddOK, EditOK, EnableOK, DisableOK, DeleteOK
  <2> QED BY <2>1, <2>2
<1>14. ASSUME NEW d \in Clients, d # c, req[d].inst = i PROVE PointOK(d)'
  <2>1. req[d].op \in {"edit", "start", "stop", "restart"}
    BY <1>2, <1>14, Alone
  <2>2. PointOK(d) /\ req'[d] = req[d] /\ (Serving => Serving')
    BY <1>2, <1>9, <1>14 DEF IInv, Serving
  <2> QED BY <1>1, <1>2, <1>5, <1>14, <2>1, <2>2, UnlockedKept
<1>15. \A d \in Clients : d # c => (lock = d => lock' = d)
  BY <1>2, NobodyAssumption
<1>16. \A j \in Instances : j # i => Same(j)
  BY <1>2, <1>4, <1>5, <1>6 DEF Same
<1> QED BY <1>2, <1>9, <1>10, <1>12, <1>13, <1>14, <1>15, <1>16, RequestStep

(***************************************************************************)
(* Requests go on.                                                         *)
(***************************************************************************)

\* What an add relies on at each of its points.
LEMMA AddRelies ==
    ASSUME IInv, NEW c \in Clients, req[c].op = "add"
    PROVE  LET i == req[c].inst
               t == req[c].text IN
           /\ i \in Instances /\ t \in Text /\ t.body \in Templates
           /\ rows[i] = <<>> /\ cfg[i] = <<>> /\ Serving
           /\ req[c].at \in {"write", "fill", "load", "list"}
           /\ \A d \in Clients : req[d].inst = i => d = c
           /\ req[c].at = "write" => disk[i] = Absent
           /\ req[c].at = "fill" => disk[i] = Torn /\ ~ t.on
           /\ req[c].at \in {"write", "fill"} => (DriverKept => proc[i] # "up")
           /\ req[c].at \in {"load", "list"} =>
                /\ disk[i] \in Text /\ disk[i].body = t.body /\ (t.on => disk[i].on)
                /\ DriverKept /\ (disk[i].on \/ proc[i] = "up") =>
                     "admin" \in Faults /\ t.body \in Passing
<1> DEFINE i == req[c].inst
           t == req[c].text
<1>1. i \in Instances /\ t \in Text
  BY DEF IInv, TypeInv, ReqOK
<1>2. AddOK(c) /\ HoldsOK(c) /\ RowOK(i) /\ ProcOK(i)
  BY <1>1 DEF IInv, PointOK, FileOK
<1>3. ~ Listed(i) /\ Serving
  BY <1>2 DEF AddOK, HoldsOK
<1>4. rows[i] = <<>> /\ cfg[i] = <<>>
  BY <1>2, <1>3 DEF RowOK, Listed
<1>5. req[c].at \in {"write", "fill"} => (DriverKept => proc[i] # "up")
  BY <1>2, NoTextAssumption DEF AddOK, ProcOK, HasBinary
<1> QED BY <1>1, <1>2, <1>3, <1>4, <1>5 DEF AddOK

LEMMA AddTruncatesKeeps ==
    ASSUME IInv, TypeInv', NEW c \in Clients, AddTruncates(c)
    PROVE  IInv'
<1> DEFINE t == req[c].text
<1>0. PICK i \in Instances : i = req[c].inst
  BY AddRelies DEF AddTruncates, At
<1>1. /\ i = req[c].inst /\ t.body \in Templates /\ rows[i] = <<>> /\ cfg[i] = <<>> /\ Serving
      /\ \A d \in Clients : req[d].inst = i => d = c
      /\ DriverKept => proc[i] # "up"
      /\ req[c].op = "add" /\ ~ t.on
  BY <1>0, AddRelies DEF AddTruncates, At, IInv, PointOK, AddOK
<1>2. TypeInv /\ TypeOK
  BY DEF IInv, TypeInv
<1>3. /\ disk'[i] = Torn /\ shown'[i] = "nothing"
      /\ \A j \in Instances : j # i => disk'[j] = disk[j] /\ shown'[j] = shown[j]
  BY <1>1, <1>2, WritesTyped DEF AddTruncates
<1>4. UNCHANGED <<hurd, toStart, rows, cfg, lock, proc, boot>>
  BY DEF AddTruncates, tables, manager
<1>5. /\ req'[c].op = "add" /\ req'[c].inst = i /\ req'[c].at = "fill" /\ req'[c].text = t
      /\ \A d \in Clients : d # c => req'[d] = req[d]
  BY <1>1, <1>2, GoesTyped DEF AddTruncates, Points
<1>6. FileOK(i)'
  BY <1>1, <1>3, <1>4, NoTextAssumption
     DEF FileOK, RowOK, FileListed, ProcOK, EnabledIsReal, DisabledIsReal
<1>7. PointOK(c)'
  <2>1. HoldsOK(c)'
    BY <1>1, <1>4, <1>5 DEF HoldsOK, Serving
  <2>2. AddOK(c)'
    BY <1>1, <1>3, <1>4, <1>5 DEF AddOK, Listed
  <2>3. EditOK(c)' /\ EnableOK(c)' /\ DisableOK(c)' /\ DeleteOK(c)'
    BY <1>5 DEF EditOK, EnableOK, DisableOK, DeleteOK
  <2> QED BY <2>1, <2>2, <2>3 DEF PointOK
<1>8. \A j \in Instances : j # i => Same(j)
  BY <1>3, <1>4 DEF Same
<1> QED BY <1>1, <1>4, <1>5, <1>6, <1>7, <1>8, RequestStep

LEMMA AddFillsKeeps ==
    ASSUME IInv, TypeInv', NEW c \in Clients, AddFills(c)
    PROVE  IInv'
<1> DEFINE t == req[c].text
<1>0. PICK i \in Instances : i = req[c].inst
  BY AddRelies DEF AddFills, At
<1>1. /\ i = req[c].inst /\ t \in Text /\ t.body \in Templates /\ rows[i] = <<>> /\ cfg[i] = <<>> /\ Serving
      /\ \A d \in Clients : req[d].inst = i => d = c
      /\ disk[i] = Torn /\ ~ t.on /\ (DriverKept => proc[i] # "up") /\ req[c].op = "add"
  BY <1>0, AddRelies DEF AddFills, At
<1>2. TypeInv /\ TypeOK
  BY DEF IInv, TypeInv
<1>3. UNCHANGED <<hurd, toStart, rows, cfg, lock, proc, boot>>
  BY DEF AddFills, tables, manager
<1>4. /\ FileOK(i)' /\ PointOK(c)' /\ req'[c].inst \in {i, Nobody}
      /\ \A d \in Clients : d # c => req'[d] = req[d]
      /\ \A j \in Instances : j # i => Same(j)
  <2>1. CASE Writes(i, t) /\ Goes(c, "load")
    <3>1. /\ disk'[i] = t /\ shown'[i] = "nothing"
          /\ \A j \in Instances : j # i => disk'[j] = disk[j] /\ shown'[j] = shown[j]
      BY <1>1, <1>2, <2>1, WritesTyped
    <3>2. /\ req'[c].op = "add" /\ req'[c].inst = i /\ req'[c].at = "load" /\ req'[c].text = t
          /\ \A d \in Clients : d # c => req'[d] = req[d]
      BY <1>1, <1>2, <2>1, GoesTyped DEF Points
    <3>3. c \in Adding(i)'
      BY <3>2 DEF Adding
    <3>4. FileOK(i)'
      BY <1>1, <1>3, <3>1, <3>3 DEF FileOK, RowOK, FileListed, ProcOK, EnabledIsReal, DisabledIsReal
    <3>5. HoldsOK(c)'
      BY <1>1, <1>3, <3>2 DEF HoldsOK, Serving
    <3>6. AddOK(c)'
      BY <1>1, <1>3, <3>1, <3>2 DEF AddOK, Listed
    <3>7. EditOK(c)' /\ EnableOK(c)' /\ DisableOK(c)' /\ DeleteOK(c)'
      BY <3>2 DEF EditOK, EnableOK, DisableOK, DeleteOK
    <3> QED BY <1>3, <3>1, <3>2, <3>4, <3>5, <3>6, <3>7 DEF PointOK, Same
  <2>2. CASE Ends(c) /\ UNCHANGED <<disk, shown>>
    <3>1. req'[c] = Idle /\ \A d \in Clients : d # c => req'[d] = req[d]
      BY <1>2, <2>2, EndsTyped
    <3>2. PointOK(c)'
      BY <3>1, IdleIsRequest DEF PointOK, HoldsOK, AddOK, EditOK, EnableOK, DisableOK, DeleteOK
    <3>3. FileOK(i)'
      BY <1>1, <1>2, <1>3, <2>2, NoTextAssumption
         DEF IInv, FileOK, RowOK, FileListed, ProcOK, EnabledIsReal, DisabledIsReal
    <3> QED BY <1>3, <2>2, <3>1, <3>2, <3>3, IdleIsRequest DEF Same
  <2> QED BY <1>1, <2>1, <2>2 DEF AddFills
<1> QED BY <1>1, <1>3, <1>4, RequestStep

LEMMA AddLoadsKeeps ==
    ASSUME IInv, TypeInv', NEW c \in Clients, AddLoads(c)
    PROVE  IInv'
<1> DEFINE t == req[c].text
<1>0. PICK i \in Instances : i = req[c].inst
  BY AddRelies DEF AddLoads, At
<1> DEFINE u == disk[i]
<1>1. /\ i = req[c].inst /\ t \in Text /\ t.body \in Templates /\ rows[i] = <<>> /\ Serving
      /\ \A d \in Clients : req[d].inst = i => d = c
      /\ req[c].op = "add"
      /\ u \in Text /\ u.body = t.body
      /\ DriverKept /\ (u.on \/ proc[i] = "up") => "admin" \in Faults /\ t.body \in Passing
  BY <1>0, AddRelies DEF AddLoads, At
<1>2. req \in [Clients -> Request]
  BY DEF IInv, TypeInv, TypeOK, Request
<1>3. UNCHANGED <<disk, hurd, toStart, rows, cfg, lock, proc, boot, shown>>
  BY DEF AddLoads, tables, manager
<1>4. /\ req'[c].op = "add" /\ req'[c].inst = i /\ req'[c].at = "list" /\ req'[c].text = u
      /\ \A d \in Clients : d # c => req'[d] = req[d]
  <2>1. req' = [req EXCEPT ![c].at = "list", ![c].text = u]
    BY <1>1 DEF AddLoads
  <2>2. req'[c] = [req[c] EXCEPT !.at = "list", !.text = u]
    BY <1>2, <2>1
  <2>3. req[c] \in Request
    BY <1>2
  <2> HIDE DEF u
  <2> QED BY <1>1, <1>2, <2>1, <2>2, <2>3 DEF Request
<1>5. PointOK(c)'
  <2>1. HoldsOK(c)'
    BY <1>1, <1>3, <1>4 DEF HoldsOK, Serving
  <2>2. AddOK(c)'
    BY <1>1, <1>3, <1>4 DEF AddOK, Listed
  <2>3. EditOK(c)' /\ EnableOK(c)' /\ DisableOK(c)' /\ DeleteOK(c)'
    BY <1>4 DEF EditOK, EnableOK, DisableOK, DeleteOK
  <2> QED BY <2>1, <2>2, <2>3 DEF PointOK
<1>6. \A j \in Instances : Same(j)
  BY <1>3 DEF Same
<1>7. Adding(i)' # {}
  <2>1. c \in Adding(i)'
    BY <1>4 DEF Adding
  <2> QED BY <2>1
<1>8. UNCHANGED <<hurd, toStart, lock>> /\ req[c].inst = i /\ req'[c].inst = i
  BY <1>1, <1>3, <1>4
<1> HIDE DEF u, t
<1> QED BY <1>4, <1>5, <1>6, <1>7, <1>8, QuietStep

LEMMA AddListsKeeps ==
    ASSUME IInv, TypeInv', NEW c \in Clients, AddLists(c)
    PROVE  IInv'
<1> DEFINE t == req[c].text
<1>0. PICK i \in Instances : i = req[c].inst
  BY AddRelies DEF AddLists, At
<1> DEFINE r == RowOf(t)
<1>1. /\ i = req[c].inst /\ t \in Text /\ rows[i] = <<>> /\ cfg[i] = <<>> /\ Serving
      /\ \A d \in Clients : req[d].inst = i => d = c
      /\ disk[i] \in Text /\ disk[i].body = t.body /\ (t.on => disk[i].on)
  BY <1>0, AddRelies DEF AddLists, At
<1>2. TypeInv /\ TypeOK /\ FileOK(i)
  BY <1>1 DEF IInv, TypeInv
<1>3. r \in Row /\ r.text = t /\ r.inProcess = FALSE
  BY <1>1, RowOfIsRow
<1> HIDE DEF r
<1>4. rows' = [rows EXCEPT ![i] = <<r>>] /\ cfg' = [cfg EXCEPT ![i] = <<t>>]
  <2>1. rows' = [rows EXCEPT ![i] = Append(rows[i], r)] /\ cfg' = [cfg EXCEPT ![i] = Append(cfg[i], t)]
    BY <1>1 DEF AddLists, r
  <2>2. Append(rows[i], r) = <<r>> /\ Append(cfg[i], t) = <<t>>
    BY <1>1
  <2> QED BY <2>1, <2>2
<1>5. /\ Len(rows'[i]) = 1 /\ rows'[i] # <<>> /\ rows'[i][1] = r
      /\ \A j \in Instances : j # i => rows'[j] = rows[j]
  BY <1>1, <1>2, <1>3, <1>4, RowReplaced
<1>6. Len(cfg'[i]) = 1 /\ \A j \in Instances : j # i => cfg'[j] = cfg[j]
  BY <1>1, <1>2, <1>4 DEF TypeOK
<1>7. UNCHANGED <<disk, hurd, toStart, lock, proc, boot, shown>>
  BY DEF AddLists, manager
<1>8. req'[c] = Idle /\ \A d \in Clients : d # c => req'[d] = req[d]
  BY <1>2, EndsTyped DEF AddLists
<1>9. FileOK(i)'
  <2>1. RowOK(i)'
    BY <1>1, <1>3, <1>5, <1>6, <1>7 DEF RowOK, Serving
  <2>2. FileListed(i)'
    BY <1>5 DEF FileListed, Listed
  <2>3. ProcOK(i)' /\ EnabledIsReal(i)' /\ DisabledIsReal(i)'
    BY <1>2, <1>7 DEF FileOK, ProcOK, HasBinary, EnabledIsReal, DisabledIsReal
  <2> QED BY <2>1, <2>2, <2>3 DEF FileOK
<1>10. PointOK(c)'
  BY <1>8, IdleIsRequest DEF PointOK, HoldsOK, AddOK, EditOK, EnableOK, DisableOK, DeleteOK
<1>11. \A j \in Instances : j # i => Same(j)
  BY <1>5, <1>6, <1>7 DEF Same
<1> QED BY <1>1, <1>7, <1>8, <1>9, <1>10, <1>11, IdleIsRequest, RequestStep

\* A step about a listed instance keeps what the other requests for it rely on, when
\* nobody else has orchestrator.mu and the driver stays.
LEMMA OthersKept ==
    ASSUME IInv, NEW c \in Clients, NEW i \in Instances, lock \in {c, Nobody}, Listed(i),
           UNCHANGED <<hurd, toStart>>, \A d \in Clients : d # c => req'[d] = req[d],
           DriverKept /\ rows'[i] # <<>> => DriverOf[disk'[i].body] = DriverOf[disk[i].body]
    PROVE  \A d \in Clients : d # c /\ req[d].inst = i => PointOK(d)'
<1> SUFFICES ASSUME NEW d \in Clients, d # c, req[d].inst = i PROVE PointOK(d)'
  OBVIOUS
<1>1. req[d].op \in {"edit", "start", "stop", "restart"}
  BY Alone
<1>2. PointOK(d) /\ (Serving => Serving') /\ req'[d] = req[d]
  BY DEF IInv, Serving
<1>3. Listed(i)' => rows'[i] # <<>>
  BY DEF Listed
<1> QED BY <1>1, <1>2, <1>3, UnlockedKept

LEMMA EditSavesKeeps ==
    ASSUME IInv, TypeInv', NEW c \in Clients, EditSaves(c)
    PROVE  IInv'
<1> DEFINE t == req[c].text
<1>1. t \in Text /\ req[c].op = "edit" /\ lock = Nobody /\ TypeInv /\ TypeOK
  BY DEF EditSaves, At, Unlocked, IInv, TypeInv, ReqOK
<1>2. PICK i \in Instances : i = req[c].inst
  BY <1>1 DEF TypeInv, ReqOK
<1>3. EditOK(c) /\ HoldsOK(c) /\ FileOK(i)
  BY DEF IInv, PointOK
<1>4. UNCHANGED <<hurd, toStart, lock, proc, boot>>
  BY DEF EditSaves, manager
<1>5. /\ req'[c].inst = Nobody /\ req'[c].op = "none"
      /\ \A d \in Clients : d # c => req'[d] = req[d]
  BY <1>1, EndsTyped, IdleIsRequest DEF EditSaves
<1>6. PointOK(c)'
  BY <1>5 DEF PointOK, HoldsOK, AddOK, EditOK, EnableOK, DisableOK, DeleteOK
<1>7. /\ FileOK(i)' /\ \A j \in Instances : j # i => Same(j)
      /\ \A d \in Clients : d # c /\ req[d].inst = i => PointOK(d)'
  <2>1. CASE UNCHANGED <<disk, shown, tables>>
    <3>1. Adding(i)' = Adding(i)
      BY <1>1, <1>5 DEF Adding
    <3>2. \A j \in Instances : Same(j)
      BY <1>4, <2>1 DEF Same, tables
    <3>3. FileOK(i)'
      BY <1>3, <1>4, <3>1, <3>2, FileKept
    <3>4. ASSUME NEW d \in Clients, d # c, req[d].inst = i PROVE PointOK(d)'
      <4>1. PointOK(d) /\ (Serving => Serving') /\ Same(i) /\ req'[d] = req[d] /\ (lock = d => lock' = d)
        BY <1>4, <1>5, <3>2, <3>4 DEF IInv, Serving
      <4>2. \A e \in Clients : req'[e].inst = i => req[e].inst = i
        BY <1>5, NobodyAssumption
      <4> QED BY <3>4, <4>1, <4>2, PointKept
    <3> QED BY <3>2, <3>3, <3>4
  <2>2. CASE ~ UNCHANGED <<disk, shown, tables>>
    <3>1. /\ Listed(i) /\ Writes(i, t) /\ rows' = [rows EXCEPT ![i][1].text = t]
          /\ cfg'  = [cfg EXCEPT ![i] = [k \in DOMAIN @ |-> t]]
      BY <1>2, <2>2 DEF EditSaves, StillListed
    <3>2. /\ disk'[i] = t /\ shown'[i] = "nothing"
          /\ \A j \in Instances : j # i => disk'[j] = disk[j] /\ shown'[j] = shown[j]
      BY <1>1, <3>1, WritesTyped
    <3>3. /\ Len(rows'[i]) = Len(rows[i]) /\ rows'[i] # <<>> /\ rows'[i][1].text = t
          /\ rows'[i][1].inProcess = rows[i][1].inProcess /\ Len(cfg'[i]) = Len(cfg[i])
          /\ \A j \in Instances : j # i => rows'[j] = rows[j] /\ cfg'[j] = cfg[j]
      BY <1>1, <3>1, RowEdited
    <3>4. DriverKept => DriverOf[t.body] = DriverOf[disk[i].body]
      BY <1>1, <1>2, <1>3, <3>1 DEF EditOK
    <3>5. DriverKept => Kind(t.body) = Kind(disk[i].body)
      BY <3>4 DEF Kind
    <3>6. RowOK(i)'
      BY <1>1, <1>3, <1>4, <3>1, <3>2, <3>3, <3>5 DEF FileOK, RowOK, Listed
    <3>7. FileListed(i)'
      BY <3>3 DEF FileListed, Listed
    <3>8. ProcOK(i)'
      BY <1>1, <1>3, <1>4, <3>2, <3>5 DEF FileOK, ProcOK, HasBinary
    <3>9. EnabledIsReal(i)' /\ DisabledIsReal(i)'
      BY <3>2 DEF EnabledIsReal, DisabledIsReal
    <3>10. \A d \in Clients : d # c /\ req[d].inst = i => PointOK(d)'
      BY <1>1, <1>4, <1>5, <3>1, <3>2, <3>4, OthersKept
    <3>11. \A j \in Instances : j # i => Same(j)
      BY <1>4, <3>2, <3>3 DEF Same
    <3> QED BY <3>6, <3>7, <3>8, <3>9, <3>10, <3>11 DEF FileOK
  <2> QED BY <2>1, <2>2
<1> HIDE DEF t
<1> QED BY <1>2, <1>4, <1>5, <1>6, <1>7, RequestStep

\* What the switch and Delete rely on while they hold orchestrator.mu.
LEMMA HolderRelies ==
    ASSUME IInv, NEW c \in Clients, NEW i \in Instances, i = req[c].inst,
           req[c].op \in {"enable", "disable", "delete"}
    PROVE  /\ TypeInv /\ TypeOK /\ lock = c /\ Serving /\ hurd = "up"
           /\ Listed(i) /\ Adding(i) = {} /\ disk[i] \in Text
           /\ Len(rows[i]) = 1 /\ Len(cfg[i]) = 1
           /\ rows[i][1].text.body = disk[i].body
           /\ DriverKept /\ RunsHere(i) => Kind(disk[i].body) = "compiledIn"
           /\ FileOK(i) /\ PointOK(c)
<1>1. TypeInv /\ TypeOK /\ FileOK(i) /\ PointOK(c)
  BY DEF IInv, TypeInv
<1>2. lock = c /\ Serving /\ hurd = "up" /\ Listed(i)
  BY <1>1 DEF PointOK, HoldsOK, Serving
<1>3. /\ disk[i] \in Text /\ Len(rows[i]) = 1 /\ Len(cfg[i]) = 1
      /\ rows[i][1].text.body = disk[i].body
      /\ DriverKept /\ rows[i][1].inProcess => Kind(disk[i].body) = "compiledIn"
  BY <1>1, <1>2 DEF FileOK, RowOK, Listed
<1>4. RunsHere(i) => rows[i][1].inProcess
  <2>1. rows[i] \in Seq(Row)
    BY <1>1 DEF TypeOK
  <2>2. DOMAIN rows[i] = {1}
    BY <1>3, <2>1
  <2> QED BY <2>2 DEF RunsHere
<1>5. Adding(i) = {}
  BY <1>2, ListedNotAdded
<1> QED BY <1>1, <1>2, <1>3, <1>4, <1>5

LEMMA RequestInstance ==
    ASSUME IInv, NEW c \in Clients, req[c].op # "none"
    PROVE  \E i \in Instances : i = req[c].inst
BY DEF IInv, TypeInv, ReqOK

\* The file is not written, and nothing has changed.
LEMMA EnableRefusedKeeps ==
    ASSUME IInv, TypeInv', NEW c \in Clients, EnableSwitches(c),
           Answers(c), UNCHANGED <<disk, shown, rows>>
    PROVE  IInv'
<1>1. PICK i \in Instances : i = req[c].inst
  BY RequestInstance DEF EnableSwitches, At
<1>2. TypeInv /\ lock = c /\ Adding(i) = {}
  BY <1>1, HolderRelies DEF EnableSwitches, At
<1>3. UNCHANGED <<disk, hurd, toStart, rows, cfg, proc, boot, shown>>
  BY DEF EnableSwitches, manager
<1>4. \A j \in Instances : Same(j)
  BY <1>3 DEF Same
<1>5. /\ req'[c].op = "none" /\ req'[c].inst = Nobody
      /\ \A d \in Clients : d # c => req'[d] = req[d]
  BY <1>2, EndsTyped, IdleIsRequest DEF Answers
<1>6. PointOK(c)'
  BY <1>5 DEF PointOK, HoldsOK, AddOK, EditOK, EnableOK, DisableOK, DeleteOK
<1> QED BY <1>1, <1>2, <1>3, <1>4, <1>5, <1>6, QuietStep

LEMMA EnableSwitchesKeeps ==
    ASSUME IInv, TypeInv', NEW c \in Clients, EnableSwitches(c)
    PROVE  IInv'
<1>1. PICK i \in Instances : i = req[c].inst
  BY RequestInstance DEF EnableSwitches, At
<1>2. req[c].op = "enable" /\ req[c].at = "switch"
  BY DEF EnableSwitches, At
<1>3. SUFFICES ASSUME ~ (Answers(c) /\ UNCHANGED <<disk, shown, rows>>) PROVE IInv'
  BY EnableRefusedKeeps
<1> DEFINE cur == Switched(disk[i], TRUE)
           off == Switched(cur, FALSE)
           run == [RowOf(cur) EXCEPT !.inProcess = TRUE]
<1>4. /\ TypeInv /\ TypeOK /\ lock = c /\ hurd = "up" /\ Listed(i) /\ Adding(i) = {} /\ disk[i] \in Text
      /\ Len(cfg[i]) = 1 /\ FileOK(i) /\ Serving
      /\ DriverKept /\ RunsHere(i) => Kind(disk[i].body) = "compiledIn"
  BY <1>1, <1>2, HolderRelies
<1>5. /\ cur \in Text /\ cur.on /\ cur.body = disk[i].body
      /\ off \in Text /\ ~ off.on /\ off.body = disk[i].body
  BY <1>4, SwitchedIsText
<1>6. /\ RowOf(cur) \in Row /\ RowOf(cur).text = cur /\ ~ RowOf(cur).inProcess
      /\ run \in Row /\ run.text = cur
  BY <1>5, RowOfIsRow
<1> HIDE DEF cur, off, run
<1>7. \/ /\ Kind(cur.body) = "installedBinary" /\ Writes(i, cur)
         /\ rows' = [rows EXCEPT ![i] = <<RowOf(cur)>>]
         /\ Goes(c, "install") /\ lock' = lock
      \/ /\ RunsHere(i) /\ disk' = [disk EXCEPT ![i] = cur] /\ Shows(i, "enabled")
         /\ rows' = rows /\ Ends(c) /\ lock' = Nobody
      \/ /\ Kind(cur.body) = "compiledIn" /\ disk' = [disk EXCEPT ![i] = cur] /\ Shows(i, "enabled")
         /\ rows' = [rows EXCEPT ![i] = <<run>>] /\ Ends(c) /\ lock' = Nobody
      \/ /\ Kind(cur.body) = "compiledIn" /\ (Writes(i, off) \/ Writes(i, cur))
         /\ rows' = [rows EXCEPT ![i] = <<RowOf(cur)>>] /\ Ends(c) /\ lock' = Nobody
  BY <1>1, <1>3, <1>4 DEF EnableSwitches, Answers, cur, off, run
<1>8. UNCHANGED <<hurd, toStart, cfg, proc, boot>>
  BY DEF EnableSwitches, manager
<1>9. /\ disk'[i] \in {cur, off} /\ shown'[i] \in {"nothing", "enabled"}
      /\ shown'[i] = "enabled" => disk'[i] = cur /\ (Kind(cur.body) = "compiledIn" \/ RunsHere(i))
      /\ disk'[i] = off => Kind(cur.body) = "compiledIn"
      /\ \A j \in Instances : j # i => disk'[j] = disk[j] /\ shown'[j] = shown[j]
  BY <1>4, <1>5, <1>7 DEF Writes, Shows, TypeOK
<1>10. /\ rows'[i] # <<>> /\ Len(rows'[i]) = 1
      /\ \/ rows'[i] = rows[i] /\ RunsHere(i)
         \/ rows'[i][1] = RowOf(cur)
         \/ rows'[i][1] = run /\ Kind(cur.body) = "compiledIn"
      /\ \A j \in Instances : j # i => rows'[j] = rows[j]
  <2>1. CASE rows' = rows /\ RunsHere(i)
    BY <1>1, <1>2, <2>1, HolderRelies DEF Listed
  <2>2. CASE rows' = [rows EXCEPT ![i] = <<RowOf(cur)>>]
    <3>1. /\ Len(rows'[i]) = 1 /\ rows'[i] # <<>> /\ rows'[i][1] = RowOf(cur)
          /\ \A j \in Instances : j # i => rows'[j] = rows[j]
      BY <1>4, <1>6, <2>2, RowReplaced
    <3> QED BY <3>1
  <2>3. CASE rows' = [rows EXCEPT ![i] = <<run>>] /\ Kind(cur.body) = "compiledIn"
    <3>1. /\ Len(rows'[i]) = 1 /\ rows'[i] # <<>> /\ rows'[i][1] = run
          /\ \A j \in Instances : j # i => rows'[j] = rows[j]
      BY <1>4, <1>6, <2>3, RowReplaced
    <3> QED BY <2>3, <3>1
  <2> QED BY <1>7, <2>1, <2>2, <2>3
<1>11. /\ \A d \in Clients : d # c => req'[d] = req[d]
       /\ \/ /\ req'[c].op = "enable" /\ req'[c].at = "install" /\ req'[c].inst = i
             /\ lock' = c /\ disk'[i] = cur
          \/ req'[c].op = "none" /\ req'[c].inst = Nobody
  <2>1. CASE Ends(c)
    BY <1>4, <2>1, EndsTyped, IdleIsRequest
  <2>2. CASE Goes(c, "install") /\ lock' = lock /\ Writes(i, cur)
    <3>1. disk'[i] = cur
      BY <1>4, <1>5, <2>2, WritesTyped
    <3> QED BY <1>1, <1>2, <1>4, <2>2, <3>1, GoesTyped DEF Points
  <2> QED BY <1>7, <2>1, <2>2
<1>12. FileOK(i)'
  <2>1. RowOK(i)'
    <3>1. CASE rows'[i] = rows[i] /\ RunsHere(i)
      BY <1>1, <1>2, <1>4, <1>5, <1>8, <1>9, <3>1, HolderRelies, ZenonT(60) DEF FileOK, RowOK, Listed
    <3>2. CASE rows'[i][1] = RowOf(cur)
      BY <1>4, <1>5, <1>6, <1>8, <1>9, <1>10, <3>2 DEF RowOK
    <3>3. CASE rows'[i][1] = run /\ Kind(cur.body) = "compiledIn"
      BY <1>4, <1>5, <1>6, <1>8, <1>9, <1>10, <3>3 DEF RowOK
    <3> QED BY <1>10, <3>1, <3>2, <3>3
  <2>2. FileListed(i)'
    BY <1>10 DEF FileListed, Listed
  <2>3. ProcOK(i)'
    BY <1>4, <1>5, <1>8, <1>9 DEF FileOK, ProcOK, HasBinary
  <2>4. EnabledIsReal(i)'
    BY <1>4, <1>5, <1>9 DEF EnabledIsReal
  <2>5. DisabledIsReal(i)'
    BY <1>9 DEF DisabledIsReal
  <2> QED BY <2>1, <2>2, <2>3, <2>4, <2>5 DEF FileOK
<1>13. PointOK(c)'
  <2>1. CASE req'[c].op = "none"
    BY <2>1 DEF PointOK, HoldsOK, AddOK, EditOK, EnableOK, DisableOK, DeleteOK
  <2>2. CASE req'[c].op = "enable" /\ req'[c].at = "install" /\ req'[c].inst = i /\ lock' = c /\ disk'[i] = cur
    <3>1. HoldsOK(c)'
      BY <1>4, <1>8, <1>10, <2>2 DEF HoldsOK, Serving, Listed
    <3>2. EnableOK(c)'
      BY <1>5, <2>2 DEF EnableOK
    <3>3. AddOK(c)' /\ EditOK(c)' /\ DisableOK(c)' /\ DeleteOK(c)'
      BY <2>2 DEF AddOK, EditOK, DisableOK, DeleteOK
    <3> QED BY <3>1, <3>2, <3>3 DEF PointOK
  <2> QED BY <1>11, <2>1, <2>2
<1>14. \A j \in Instances : j # i => Same(j)
  BY <1>8, <1>9, <1>10 DEF Same
<1>15. \A d \in Clients : d # c /\ req[d].inst = i => PointOK(d)'
  BY <1>4, <1>5, <1>8, <1>9, <1>11, OthersKept
<1> QED BY <1>1, <1>4, <1>8, <1>11, <1>12, <1>13, <1>14, <1>15, RequestStep

LEMMA EnableWaitsKeeps ==
    ASSUME IInv, TypeInv', NEW c \in Clients, EnableInstalls(c) \/ EnableGivesUp(c)
    PROVE  IInv'
<1>1. PICK i \in Instances : i = req[c].inst
  BY RequestInstance DEF EnableInstalls, EnableGivesUp, GivesUpLeaving, At
<1>2. req[c].op = "enable" /\ req[c].at \in {"install", "boot", "run"}
  BY DEF EnableInstalls, EnableGivesUp, GivesUpLeaving, At
<1>3. /\ TypeInv /\ lock = c /\ Serving /\ Listed(i) /\ Adding(i) = {} /\ EnableOK(c)
  BY <1>1, <1>2, HolderRelies DEF PointOK
<1>4. UNCHANGED <<disk, hurd, toStart, rows, cfg, proc, boot, shown>>
  BY DEF EnableInstalls, EnableGivesUp, GivesUpLeaving, tables, manager
<1>5. \A j \in Instances : Same(j)
  BY <1>4 DEF Same
<1>6. PointOK(c)' /\ req'[c].inst \in {i, Nobody} /\ \A d \in Clients : d # c => req'[d] = req[d]
  <2>1. CASE EnableInstalls(c)
    <3>1. /\ req'[c].op = "enable" /\ req'[c].inst = i /\ req'[c].at = "boot" /\ lock' = c
          /\ \A d \in Clients : d # c => req'[d] = req[d]
      BY <1>1, <1>2, <1>3, <2>1, GoesTyped DEF EnableInstalls, Points
    <3>2. HoldsOK(c)'
      BY <1>3, <1>4, <3>1 DEF HoldsOK, Serving, Listed
    <3>3. EnableOK(c)'
      BY <1>1, <1>2, <1>3, <1>4, <3>1 DEF EnableOK
    <3>4. AddOK(c)' /\ EditOK(c)' /\ DisableOK(c)' /\ DeleteOK(c)'
      BY <3>1 DEF AddOK, EditOK, DisableOK, DeleteOK
    <3> QED BY <3>1, <3>2, <3>3, <3>4 DEF PointOK
  <2>2. CASE EnableGivesUp(c)
    <3>1. /\ req'[c].op = "none" /\ req'[c].inst = Nobody
          /\ \A d \in Clients : d # c => req'[d] = req[d]
      BY <1>3, <2>2, EndsTyped, IdleIsRequest DEF EnableGivesUp, GivesUpLeaving
    <3> QED BY <3>1 DEF PointOK, HoldsOK, AddOK, EditOK, EnableOK, DisableOK, DeleteOK
  <2> QED BY <2>1, <2>2
<1> QED BY <1>1, <1>3, <1>4, <1>5, <1>6, QuietStep

LEMMA EnableBootsKeeps ==
    ASSUME IInv, TypeInv', NEW c \in Clients, EnableBoots(c)
    PROVE  IInv'
<1>1. PICK i \in Instances : i = req[c].inst
  BY RequestInstance DEF EnableBoots, At
<1>2. req[c].op = "enable" /\ req[c].at = "boot"
  BY DEF EnableBoots, At
<1>3. /\ TypeInv /\ lock = c /\ Serving /\ Listed(i) /\ Adding(i) = {} /\ FileOK(i) /\ EnableOK(c)
  BY <1>1, <1>2, HolderRelies DEF PointOK
<1>4. UNCHANGED <<disk, hurd, toStart, rows, cfg, lock, proc, shown>> /\ boot' = boot \union {i}
  BY <1>1 DEF EnableBoots, tables
<1>5. disk[i].on
  BY <1>1, <1>2, <1>3 DEF EnableOK
<1>6. /\ req'[c].op = "enable" /\ req'[c].inst = i /\ req'[c].at = "run"
      /\ \A d \in Clients : d # c => req'[d] = req[d]
  BY <1>1, <1>2, <1>3, GoesTyped DEF EnableBoots, Points
<1>7. FileOK(i)'
  <2>1. RowOK(i)' /\ ProcOK(i)'
    BY <1>3, <1>4 DEF FileOK, RowOK, ProcOK, HasBinary
  <2>2. FileListed(i)'
    BY <1>3, <1>4 DEF FileListed, Listed
  <2>3. EnabledIsReal(i)'
    BY <1>3, <1>4 DEF FileOK, EnabledIsReal
  <2>4. DisabledIsReal(i)'
    BY <1>3, <1>4, <1>5 DEF FileOK, DisabledIsReal
  <2> QED BY <2>1, <2>2, <2>3, <2>4 DEF FileOK
<1>8. PointOK(c)'
  <2>1. HoldsOK(c)'
    BY <1>3, <1>4, <1>6 DEF HoldsOK, Serving, Listed
  <2>2. EnableOK(c)'
    BY <1>4, <1>5, <1>6 DEF EnableOK
  <2>3. AddOK(c)' /\ EditOK(c)' /\ DisableOK(c)' /\ DeleteOK(c)'
    BY <1>6 DEF AddOK, EditOK, DisableOK, DeleteOK
  <2> QED BY <2>1, <2>2, <2>3 DEF PointOK
<1>9. \A d \in Clients : d # c /\ req[d].inst = i => PointOK(d)'
  BY <1>3, <1>4, <1>6, OthersKept
<1>10. \A j \in Instances : j # i => Same(j)
  BY <1>4 DEF Same
<1> QED BY <1>1, <1>4, <1>6, <1>7, <1>8, <1>9, <1>10, RequestStep

\* Started never makes a process run: it has to load the files first.
LEMMA StartedIsNotUp ==
    ASSUME TypeOK, NEW i \in Instances, proc' = Started(i)
    PROVE  \A j \in Instances : proc'[j] = "up" => proc[j] = "up"
BY DEF TypeOK, Started

LEMMA EnableStartsKeeps ==
    ASSUME IInv, TypeInv', NEW c \in Clients, EnableStarts(c)
    PROVE  IInv'
<1>1. PICK i \in Instances : i = req[c].inst
  BY RequestInstance DEF EnableStarts, At
<1>2. req[c].op = "enable" /\ req[c].at = "run"
  BY DEF EnableStarts, At
<1>3. /\ TypeInv /\ TypeOK /\ lock = c /\ Serving /\ Listed(i) /\ Adding(i) = {} /\ FileOK(i)
      /\ EnableOK(c) /\ disk[i] \in Text
  BY <1>1, <1>2, HolderRelies DEF PointOK
<1>4. UNCHANGED <<disk, hurd, toStart, rows, cfg, boot>>
  BY <1>1 DEF EnableStarts, tables
<1>5. disk[i].on /\ i \in boot
  BY <1>1, <1>2, <1>3 DEF EnableOK
<1>6. \A j \in Instances : proc'[j] = "up" => proc[j] = "up"
  BY <1>1, <1>3, StartedIsNotUp DEF EnableStarts
<1>7. shown'[i] = "enabled" /\ \A j \in Instances : j # i => shown'[j] = shown[j]
  BY <1>1, <1>3 DEF EnableStarts, Shows, TypeOK
<1>8. /\ req'[c].op = "none" /\ req'[c].inst = Nobody
      /\ \A d \in Clients : d # c => req'[d] = req[d]
  BY <1>3, EndsTyped, IdleIsRequest DEF EnableStarts, Answers
<1>9. FileOK(i)'
  <2>1. RowOK(i)' /\ ProcOK(i)'
    BY <1>3, <1>4, <1>6 DEF FileOK, RowOK, ProcOK, HasBinary
  <2>2. FileListed(i)'
    BY <1>3, <1>4 DEF FileListed, Listed
  <2>3. EnabledIsReal(i)' /\ DisabledIsReal(i)'
    BY <1>3, <1>4, <1>5, <1>7 DEF EnabledIsReal, DisabledIsReal
  <2> QED BY <2>1, <2>2, <2>3 DEF FileOK
<1>10. PointOK(c)'
  BY <1>8 DEF PointOK, HoldsOK, AddOK, EditOK, EnableOK, DisableOK, DeleteOK
<1>11. \A d \in Clients : d # c /\ req[d].inst = i => PointOK(d)'
  BY <1>3, <1>4, <1>8, OthersKept
<1>12. \A j \in Instances : j # i => Same(j)
  BY <1>4, <1>6, <1>7 DEF Same
<1> QED BY <1>1, <1>3, <1>4, <1>8, <1>9, <1>10, <1>11, <1>12, RequestStep

LEMMA DisableStopsKeeps ==
    ASSUME IInv, TypeInv', NEW c \in Clients, DisableStops(c)
    PROVE  IInv'
<1>1. PICK i \in Instances : i = req[c].inst
  BY RequestInstance DEF DisableStops, At
<1>2. req[c].op = "disable"
  BY DEF DisableStops, At
<1>3. /\ TypeInv /\ TypeOK /\ lock = c /\ Serving /\ Listed(i) /\ Adding(i) = {} /\ DisableOK(c)
  BY <1>1, <1>2, HolderRelies DEF PointOK
<1>4. UNCHANGED <<disk, hurd, toStart, rows, cfg, lock, boot, shown>>
  BY DEF DisableStops, tables
<1>5. \A j \in Instances : proc'[j] = "up" => proc[j] = "up"
  BY <1>1, <1>3 DEF DisableStops, TypeOK
<1>6. /\ req'[c].op = "disable" /\ req'[c].inst = i
      /\ req'[c].ok => proc'[i] # "up"
      /\ \A d \in Clients : d # c => req'[d] = req[d]
  <2>1. CASE proc' = [proc EXCEPT ![req[c].inst] = "off"] /\ Goes(c, "unboot")
    <3>1. proc'[i] = "off"
      BY <1>1, <1>3, <2>1 DEF TypeOK
    <3>2. req'[c].op = "disable" /\ req'[c].inst = i /\ \A d \in Clients : d # c => req'[d] = req[d]
      BY <1>1, <1>2, <1>3, <2>1, GoesTyped DEF Points
    <3> QED BY <3>1, <3>2
  <2>2. CASE req' = [req EXCEPT ![c].at = "unboot", ![c].ok = FALSE]
    <3>1. req \in [Clients -> Request]
      BY <1>3 DEF TypeOK, Request
    <3>2. req'[c] = [req[c] EXCEPT !.at = "unboot", !.ok = FALSE] /\ \A d \in Clients : d # c => req'[d] = req[d]
      BY <2>2, <3>1
    <3>3. req[c] \in Request
      BY <3>1
    <3>4. req'[c].op = req[c].op /\ req'[c].inst = req[c].inst /\ req'[c].ok = FALSE
      BY <3>2, <3>3 DEF Request
    <3> QED BY <1>1, <1>2, <3>2, <3>4
  <2> QED BY <2>1, <2>2 DEF DisableStops
<1>7. PointOK(c)'
  <2>1. HoldsOK(c)'
    BY <1>3, <1>4, <1>6 DEF HoldsOK, Serving, Listed
  <2>2. DisableOK(c)'
    BY <1>1, <1>2, <1>3, <1>4, <1>6 DEF DisableOK
  <2>3. AddOK(c)' /\ EditOK(c)' /\ EnableOK(c)' /\ DeleteOK(c)'
    BY <1>6 DEF AddOK, EditOK, EnableOK, DeleteOK
  <2> QED BY <2>1, <2>2, <2>3 DEF PointOK
<1>8. \A j \in Instances : Same(j)
  BY <1>4, <1>5 DEF Same
<1> QED BY <1>1, <1>3, <1>4, <1>6, <1>7, <1>8, QuietStep

LEMMA DisableUnbootsKeeps ==
    ASSUME IInv, TypeInv', NEW c \in Clients, DisableUnboots(c)
    PROVE  IInv'
<1>1. PICK i \in Instances : i = req[c].inst
  BY RequestInstance DEF DisableUnboots, At
<1>2. req[c].op = "disable" /\ req[c].at = "unboot"
  BY DEF DisableUnboots, At
<1>3. /\ TypeInv /\ TypeOK /\ lock = c /\ Serving /\ Listed(i) /\ Adding(i) = {} /\ FileOK(i)
      /\ DisableOK(c) /\ disk[i] \in Text
  BY <1>1, <1>2, HolderRelies DEF PointOK
<1>4. UNCHANGED <<disk, hurd, toStart, rows, cfg, proc>>
  BY <1>1 DEF DisableUnboots, tables
<1>5. /\ shown[i] = "nothing" /\ shown'[i] \in {"nothing", "disabled"}
      /\ shown'[i] = "disabled" => /\ req[c].ok /\ disk[i] = rows[i][1].text /\ i \notin boot'
      /\ \A j \in Instances : j # i => shown'[j] = shown[j] /\ (j \in boot' <=> j \in boot)
  BY <1>1, <1>2, <1>3 DEF DisableUnboots, DisableOK, Shows, TypeOK
<1>6. shown'[i] = "disabled" => ~ disk[i].on /\ proc[i] # "up"
  BY <1>1, <1>2, <1>3, <1>5 DEF DisableOK
<1>7. /\ req'[c].op = "none" /\ req'[c].inst = Nobody
      /\ \A d \in Clients : d # c => req'[d] = req[d]
  BY <1>3, EndsTyped, IdleIsRequest DEF DisableUnboots, Answers
<1>8. FileOK(i)'
  <2>1. RowOK(i)' /\ ProcOK(i)'
    BY <1>3, <1>4 DEF FileOK, RowOK, ProcOK, HasBinary
  <2>2. FileListed(i)'
    BY <1>3, <1>4 DEF FileListed, Listed
  <2>3. EnabledIsReal(i)' /\ DisabledIsReal(i)'
    BY <1>3, <1>4, <1>5, <1>6 DEF EnabledIsReal, DisabledIsReal
  <2> QED BY <2>1, <2>2, <2>3 DEF FileOK
<1>9. PointOK(c)'
  BY <1>7 DEF PointOK, HoldsOK, AddOK, EditOK, EnableOK, DisableOK, DeleteOK
<1>10. \A d \in Clients : d # c /\ req[d].inst = i => PointOK(d)'
  BY <1>3, <1>4, <1>7, OthersKept
<1>11. \A j \in Instances : j # i => Same(j)
  BY <1>4, <1>5 DEF Same
<1> QED BY <1>1, <1>3, <1>4, <1>7, <1>8, <1>9, <1>10, <1>11, RequestStep

LEMMA DeleteRemovesKeeps ==
    ASSUME IInv, TypeInv', NEW c \in Clients, DeleteRemoves(c)
    PROVE  IInv'
<1>1. PICK i \in Instances : i = req[c].inst
  BY RequestInstance DEF DeleteRemoves, At
<1>2. req[c].op = "delete"
  BY DEF DeleteRemoves, At
<1>3. /\ TypeInv /\ TypeOK /\ lock = c /\ Serving /\ Listed(i) /\ Adding(i) = {} /\ FileOK(i)
      /\ DeleteOK(c) /\ disk[i] \in Text
  BY <1>1, <1>2, HolderRelies DEF PointOK
<1>4. UNCHANGED <<hurd, toStart, proc, boot>>
  BY DEF DeleteRemoves, manager
<1>5. \/ ~ disk[i].on /\ Writes(i, Absent) /\ rows' = [rows EXCEPT ![i] = <<>>] /\ cfg' = [cfg EXCEPT ![i] = <<>>]
      \/ UNCHANGED <<disk, shown, rows, cfg>>
  BY <1>1 DEF DeleteRemoves, StillDisabled, tables
<1>6. /\ req'[c].op = "none" /\ req'[c].inst = Nobody
      /\ \A d \in Clients : d # c => req'[d] = req[d]
  BY <1>3, EndsTyped, IdleIsRequest DEF DeleteRemoves, Answers
<1>7. PointOK(c)'
  BY <1>6 DEF PointOK, HoldsOK, AddOK, EditOK, EnableOK, DisableOK, DeleteOK
<1>8. /\ FileOK(i)' /\ \A j \in Instances : j # i => Same(j)
      /\ \A d \in Clients : d # c /\ req[d].inst = i => PointOK(d)'
  <2>1. CASE UNCHANGED <<disk, shown, rows, cfg>>
    <3>1. \A j \in Instances : Same(j)
      BY <1>4, <2>1 DEF Same
    <3>2. FileOK(i)'
      BY <1>3, <1>4, <3>1, FileKept
    <3>3. \A d \in Clients : d # c /\ req[d].inst = i => PointOK(d)'
      BY <1>3, <1>4, <1>6, <2>1, OthersKept
    <3> QED BY <3>1, <3>2, <3>3
  <2>2. CASE /\ ~ disk[i].on /\ Writes(i, Absent)
             /\ rows' = [rows EXCEPT ![i] = <<>>] /\ cfg' = [cfg EXCEPT ![i] = <<>>]
    <3>1. /\ disk'[i] = Absent /\ shown'[i] = "nothing"
          /\ \A j \in Instances : j # i => disk'[j] = disk[j] /\ shown'[j] = shown[j]
      BY <1>3, <2>2, WritesTyped
    <3>2. /\ rows'[i] = <<>> /\ cfg'[i] = <<>>
          /\ \A j \in Instances : j # i => rows'[j] = rows[j] /\ cfg'[j] = cfg[j]
      BY <1>3, <2>2 DEF TypeOK
    <3>3. DriverKept => proc[i] # "up"
      BY <1>1, <1>2, <1>3, <2>2 DEF DeleteOK
    <3>4. FileOK(i)'
      BY <1>4, <3>1, <3>2, <3>3, NoTextAssumption
         DEF FileOK, RowOK, FileListed, ProcOK, EnabledIsReal, DisabledIsReal
    <3>5. \A d \in Clients : d # c /\ req[d].inst = i => PointOK(d)'
      BY <1>3, <1>4, <1>6, <3>2, OthersKept
    <3>6. \A j \in Instances : j # i => Same(j)
      BY <1>4, <3>1, <3>2 DEF Same
    <3> QED BY <3>4, <3>5, <3>6
  <2> QED BY <1>5, <2>1, <2>2
<1> QED BY <1>1, <1>3, <1>4, <1>6, <1>7, <1>8, RequestStep

\* Start, Stop and Restart rely on nothing, and no process runs by them alone.
LEMMA StartStopKeeps ==
    ASSUME IInv, TypeInv', NEW c \in Clients, Starts(c) \/ Stops(c) \/ Restarts(c)
    PROVE  IInv'
<1>1. PICK i \in Instances : i = req[c].inst
  BY RequestInstance DEF Starts, Stops, Restarts, At
<1>2. req[c].op # "add" /\ TypeInv /\ TypeOK
  BY DEF Starts, Stops, Restarts, At, IInv, TypeInv
<1>3. UNCHANGED <<disk, hurd, toStart, rows, cfg, lock, boot, shown>>
  BY DEF Starts, Stops, Restarts, tables
<1>4. \A j \in Instances : proc'[j] = "up" => proc[j] = "up"
  BY <1>1, <1>2, StartedIsNotUp DEF Starts, Stops, Restarts, TypeOK
<1>5. /\ req'[c].op = "none" /\ req'[c].inst = Nobody
      /\ \A d \in Clients : d # c => req'[d] = req[d]
  BY <1>2, EndsTyped, IdleIsRequest DEF Starts, Stops, Restarts
<1>6. PointOK(c)'
  BY <1>5 DEF PointOK, HoldsOK, AddOK, EditOK, EnableOK, DisableOK, DeleteOK
<1>7. \A j \in Instances : Same(j)
  BY <1>3, <1>4 DEF Same
<1>8. Adding(i)' = Adding(i)
  BY <1>2, <1>5 DEF Adding
<1>9. i # Nobody
  BY NobodyAssumption
<1> QED BY <1>1, <1>3, <1>5, <1>6, <1>7, <1>8, <1>9, QuietStep

(***************************************************************************)
(* The service manager, operators and the orchestrator itself.             *)
(***************************************************************************)

\* Only Launches makes a process run.
LEMMA ManagerKeeps ==
    ASSUME IInv, TypeInv', NEW i \in Instances,
           Exits(i) \/ Retries(i) \/ ManagerStarts(i) \/ SavesState(i) \/ StartsSeparate(i)
    PROVE  IInv'
<1>1. UNCHANGED <<disk, hurd, rows, cfg, lock, req, boot, shown>>
  BY DEF Exits, Retries, ManagerStarts, SavesState, StartsSeparate, tables, manager
<1>2. Serving => Serving'
  BY DEF Exits, Retries, ManagerStarts, SavesState, StartsSeparate, Serving
<1>3. TypeOK
  BY DEF IInv, TypeInv
<1>4. \A j \in Instances : proc'[j] = "up" => proc[j] = "up"
  BY <1>3, StartedIsNotUp DEF Exits, Retries, ManagerStarts, SavesState, StartsSeparate, manager, TypeOK
<1>5. \A j \in Instances : Same(j)
  BY <1>1, <1>4 DEF Same
<1>6. FileOK(i)'
  <2>1. Adding(i)' = Adding(i)
    BY <1>1 DEF Adding
  <2> QED BY <1>1, <1>5, <2>1, FileKept DEF IInv
<1>7. \A d \in Clients : req[d].inst = i => PointOK(d)'
  BY <1>1, <1>2, <1>5, PointKept DEF IInv
<1> QED BY <1>1, <1>2, <1>5, <1>6, <1>7, OtherStep

\* A process runs when its file is enabled at that moment.
LEMMA LaunchesKeeps ==
    ASSUME IInv, TypeInv', NEW i \in Instances, Launches(i)
    PROVE  IInv'
<1>1. UNCHANGED <<disk, hurd, toStart, rows, cfg, lock, req, boot, shown>>
  BY DEF Launches, tables
<1>2. TypeOK /\ FileOK(i)
  BY DEF IInv, TypeInv
<1>3. /\ proc'[i] = "up" => HasBinary(i) /\ disk[i].on
      /\ \A j \in Instances : j # i => proc'[j] = proc[j]
  BY <1>2 DEF Launches, Launchable, TypeOK
<1>4. FileOK(i)'
  <2>1. RowOK(i)' /\ FileListed(i)' /\ EnabledIsReal(i)'
    BY <1>1, <1>2 DEF FileOK, RowOK, FileListed, Adding, Listed, EnabledIsReal
  <2>2. ProcOK(i)'
    BY <1>1, <1>3 DEF ProcOK, HasBinary
  <2>3. DisabledIsReal(i)'
    BY <1>1, <1>2, <1>3 DEF FileOK, DisabledIsReal
  <2> QED BY <2>1, <2>2, <2>3 DEF FileOK
<1>5. ASSUME NEW d \in Clients, req[d].inst = i PROVE PointOK(d)'
  <2>1. PointOK(d)
    BY DEF IInv
  <2>2. HoldsOK(d)' /\ EditOK(d)' /\ EnableOK(d)'
    BY <1>1, <2>1 DEF PointOK, HoldsOK, EditOK, EnableOK, Serving, Listed
  <2>3. AddOK(d)'
    BY <1>1, <1>3, <1>5, <2>1 DEF PointOK, AddOK, Listed
  <2>4. DisableOK(d)'
    BY <1>1, <1>3, <1>5, <2>1 DEF PointOK, DisableOK
  <2>5. DeleteOK(d)'
    BY <1>1, <1>3, <1>5, <2>1 DEF PointOK, DeleteOK
  <2> QED BY <2>2, <2>3, <2>4, <2>5 DEF PointOK
<1>6. \A j \in Instances : j # i => Same(j)
  BY <1>1, <1>3 DEF Same
<1> QED BY <1>1, <1>4, <1>5, <1>6, OtherStep DEF Serving

LEMMA AdminEnablesKeeps ==
    ASSUME IInv, TypeInv', NEW i \in Instances, AdminEnables(i)
    PROVE  IInv'
<1> DEFINE cur == Switched(disk[i], TRUE)
<1>1. UNCHANGED <<hurd, toStart, rows, cfg, lock, req, proc, boot>>
  BY DEF AdminEnables, tables, manager
<1>2. TypeOK /\ FileOK(i)
  BY DEF IInv, TypeInv
<1>3. /\ "admin" \in Faults /\ disk[i] \in Text /\ disk[i].body \in Passing
      /\ cur \in Text /\ cur.on /\ cur.body = disk[i].body
  BY SwitchedIsText DEF AdminEnables
<1>4. /\ disk'[i] = cur /\ shown'[i] = "nothing"
      /\ \A j \in Instances : j # i => disk'[j] = disk[j] /\ shown'[j] = shown[j]
  BY <1>2, <1>3, WritesTyped DEF AdminEnables
<1> HIDE DEF cur
<1>5. FileOK(i)'
  <2>1. RowOK(i)'
    BY <1>1, <1>2, <1>3, <1>4, NoTextAssumption DEF FileOK, RowOK
  <2>2. FileListed(i)' /\ ProcOK(i)'
    BY <1>1, <1>2, <1>3, <1>4 DEF FileOK, FileListed, Adding, Listed, ProcOK, HasBinary
  <2>3. EnabledIsReal(i)' /\ DisabledIsReal(i)'
    BY <1>4 DEF EnabledIsReal, DisabledIsReal
  <2> QED BY <2>1, <2>2, <2>3 DEF FileOK
<1>6. ASSUME NEW d \in Clients, req[d].inst = i PROVE PointOK(d)'
  <2>1. PointOK(d)
    BY DEF IInv
  <2>2. HoldsOK(d)'
    BY <1>1, <2>1 DEF PointOK, HoldsOK, Serving, Listed
  <2>3. EditOK(d)' /\ EnableOK(d)'
    BY <1>1, <1>3, <1>4, <1>6, <2>1 DEF PointOK, EditOK, EnableOK, Listed
  <2>4. AddOK(d)'
    BY <1>1, <1>3, <1>4, <1>6, <2>1, NoTextAssumption DEF PointOK, AddOK, Listed
  <2>5. DisableOK(d)' /\ DeleteOK(d)'
    BY <1>1, <1>3, <1>4, <1>6, <2>1 DEF PointOK, DisableOK, DeleteOK
  <2> QED BY <2>2, <2>3, <2>4, <2>5 DEF PointOK
<1>7. \A j \in Instances : j # i => Same(j)
  BY <1>1, <1>4 DEF Same
<1> QED BY <1>1, <1>5, <1>6, <1>7, OtherStep DEF Serving

\* No request is under way before the page is served.
LEMMA NotServing ==
    ASSUME IInv, ~ Serving
    PROVE  \A c \in Clients : req[c].op = "none" /\ req[c].inst = Nobody
BY IdleIsRequest DEF IInv, TypeInv, ReqOK, PointOK, HoldsOK

LEMMA BootsKeeps ==
    ASSUME IInv, TypeInv', Boots
    PROVE  IInv'
<1>1. UNCHANGED <<disk, lock, req, proc, boot, shown>> /\ hurd \in {"down", "refused"}
  BY DEF Boots, manager
<1>2. \A c \in Clients : req[c].op = "none" /\ req[c].inst = Nobody
  BY <1>1, NotServing DEF Serving
<1>3. \A c \in Clients : PointOK(c)'
  BY <1>1, <1>2 DEF PointOK, HoldsOK, AddOK, EditOK, EnableOK, DisableOK, DeleteOK
<1>4. ASSUME NEW i \in Instances PROVE FileOK(i)'
  <2>1. FileOK(i) /\ TypeOK
    BY DEF IInv, TypeInv
  <2>2. ProcOK(i)' /\ EnabledIsReal(i)' /\ DisabledIsReal(i)'
    BY <1>1, <2>1 DEF FileOK, ProcOK, HasBinary, EnabledIsReal, DisabledIsReal
  <2>3. RowOK(i)' /\ FileListed(i)'
    <3>1. CASE Loadable
      BY <1>1, <2>1, <3>1, BootTables DEF RowOK, FileListed, Listed
    <3>2. CASE ~ Loadable
      BY <1>1, <2>1, <3>2 DEF Boots, tables, FileOK, RowOK, FileListed
    <3> QED BY <3>1, <3>2
  <2> QED BY <2>2, <2>3 DEF FileOK
<1> QED BY <1>3, <1>4 DEF IInv

LEMMA DiesKeeps ==
    ASSUME IInv, TypeInv', Dies
    PROVE  IInv'
<1>1. /\ UNCHANGED <<disk, boot, shown>> /\ hurd' = "down"
      /\ \A i \in Instances : rows'[i] = <<>> /\ cfg'[i] = <<>>
      /\ \A i \in Instances : proc'[i] = "up" => proc[i] = "up"
      /\ \A c \in Clients : req'[c] = Idle
  BY DEF Dies
<1>2. \A c \in Clients : PointOK(c)'
  BY <1>1, IdleIsRequest DEF PointOK, HoldsOK, AddOK, EditOK, EnableOK, DisableOK, DeleteOK
<1>3. ASSUME NEW i \in Instances PROVE FileOK(i)'
  <2>1. FileOK(i)
    BY DEF IInv
  <2> QED BY <1>1, <2>1 DEF FileOK, RowOK, FileListed, ProcOK, HasBinary, EnabledIsReal, DisabledIsReal
<1> QED BY <1>2, <1>3 DEF IInv

LEMMA InitKeeps == Init => IInv
<1> SUFFICES ASSUME Init PROVE IInv
  OBVIOUS
<1>1. \A c \in Clients : PointOK(c)
  BY IdleIsRequest DEF Init, PointOK, HoldsOK, AddOK, EditOK, EnableOK, DisableOK, DeleteOK
<1>2. \A i \in Instances : FileOK(i)
  BY DEF Init, FileOK, RowOK, FileListed, ProcOK, EnabledIsReal, DisabledIsReal
<1> QED BY <1>1, <1>2, InitTyped DEF IInv

LEMMA NextKeeps ==
    ASSUME NoOverlap, IInv, [Next]_vars
    PROVE  IInv'
<1>1. TypeInv'
  BY NextTyped DEF IInv
<1>2. CASE UNCHANGED vars
  <2>1. UNCHANGED <<disk, hurd, toStart, rows, cfg, lock, req, proc, boot, shown>>
    BY <1>2 DEF vars, tables, manager
  <2>2. ASSUME NEW i \in Instances PROVE FileOK(i)'
    <3>1. Same(i) /\ Adding(i)' = Adding(i)
      BY <2>1 DEF Same, Adding
    <3> QED BY <2>1, <3>1, FileKept DEF IInv
  <2>3. ASSUME NEW c \in Clients PROVE PointOK(c)'
    <3>1. Same(req[c].inst) /\ (Serving => Serving')
      BY <2>1 DEF Same, Serving
    <3> QED BY <2>1, <3>1, PointKept DEF IInv
  <2> QED BY <1>1, <2>2, <2>3 DEF IInv
<1>3. ASSUME NEW c \in Clients, Requests(c) PROVE IInv'
  BY <1>1, <1>3, AddChecksKeeps, EditChecksKeeps, EnableChecksKeeps, DisableSwitchesKeeps,
     DeleteChecksKeeps, AsksKeeps DEF Requests
<1>4. ASSUME NEW c \in Clients, Continues(c) PROVE IInv'
  BY <1>1, <1>4, AddTruncatesKeeps, AddFillsKeeps, AddLoadsKeeps, AddListsKeeps, EditSavesKeeps,
     EnableSwitchesKeeps, EnableWaitsKeeps, EnableBootsKeeps, EnableStartsKeeps, DisableStopsKeeps,
     DisableUnbootsKeeps, DeleteRemovesKeeps, StartStopKeeps DEF Continues
<1>5. ASSUME NEW i \in Instances, Processes(i) \/ StartsSeparate(i) PROVE IInv'
  BY <1>1, <1>5, ManagerKeeps, LaunchesKeeps, AdminEnablesKeeps DEF Processes
<1> QED BY <1>1, <1>2, <1>3, <1>4, <1>5, BootsKeeps, DiesKeeps DEF Next

LEMMA Invariant == ASSUME NoOverlap PROVE Spec => []IInv
<1>1. Init => IInv
  BY InitKeeps
<1>2. IInv /\ [Next]_vars => IInv'
  BY NextKeeps
<1> QED BY <1>1, <1>2, PTL DEF Spec

(***************************************************************************)
(* What follows from the invariant.                                        *)
(***************************************************************************)

\* orchestrator.rows and cfg have one entry for each device file, with its body,
\* whenever the lock is free, for any number of requests at a time and whatever
\* fails, as long as no two requests add one instance at once.
THEOREM TableFollowsFiles == ASSUME NoOverlap PROVE Spec => []RowsMatchFiles
<1>1. IInv => RowsMatchFiles
  <2> SUFFICES ASSUME IInv, Serving, Unlocked, NEW i \in Instances, Adding(i) = {}
               PROVE  /\ Len(rows[i]) = (IF disk[i] \in Text THEN 1 ELSE 0)
                      /\ Len(cfg[i]) = Len(rows[i])
                      /\ Listed(i) => LET t == rows[i][1].text IN
                           /\ t.body = disk[i].body
                           /\ Kind(t.body) = "installedBinary" => (t.on => disk[i].on)
    BY DEF RowsMatchFiles
  <2>1. RowOK(i) /\ FileListed(i) /\ hurd = "up"
    BY DEF IInv, FileOK, Serving
  <2>2. CASE rows[i] = <<>> /\ cfg[i] = <<>>
    BY <2>1, <2>2 DEF FileListed, Listed
  <2>3. CASE ~ (rows[i] = <<>> /\ cfg[i] = <<>>)
    BY <2>1, <2>3 DEF RowOK
  <2> QED BY <2>2, <2>3
<1> QED BY <1>1, Invariant, PTL

\* The answer of the enable switch stands, while requests, the service manager,
\* operators and failures interleave (setEnabled, hurd/toggle.go:56).
THEOREM SwitchStands == ASSUME NoOverlap, DriverKept PROVE Spec => []SwitchIsReal
<1>1. IInv => SwitchIsReal
  BY DEF IInv, FileOK, EnabledIsReal, DisabledIsReal, SwitchIsReal
<1> QED BY <1>1, Invariant, PTL

\* A driver that runs has a file (deleteDevice, hurd/delete.go:34-54).
THEOREM ProcessHasFile == ASSUME NoOverlap, DriverKept PROVE Spec => []NoOrphanProcess
<1>1. IInv => NoOrphanProcess
  BY NoTextAssumption DEF IInv, FileOK, ProcOK, HasBinary, NoOrphanProcess
<1> QED BY <1>1, Invariant, PTL

\* One file is written: what has to be shown of it.
LEMMA FilePasses ==
    ASSUME EnabledPasses, NEW i \in Instances, \A j \in Instances : j # i => disk'[j] = disk[j],
           disk'[i] \in Text /\ disk'[i].on => disk'[i].body \in Passing
    PROVE  EnabledPasses'
BY DEF EnabledPasses

LEMMA RequestsPass ==
    ASSUME IInv, EnabledPasses, NEW c \in Clients,
           AddTruncates(c) \/ AddFills(c) \/ EditSaves(c) \/ EnableSwitches(c) \/ DeleteRemoves(c)
    PROVE  EnabledPasses'
<1>1. TypeInv /\ TypeOK /\ AddOK(c) /\ EditOK(c) /\ EnableOK(c)
  BY DEF IInv, TypeInv, PointOK
<1>2. PICK i \in Instances : i = req[c].inst
  BY RequestInstance DEF AddTruncates, AddFills, EditSaves, EnableSwitches, DeleteRemoves, At
<1>3. CASE disk' = disk
  BY <1>3 DEF EnabledPasses
<1>4. CASE \E t \in Text \union {Absent, Torn} : /\ disk' = [disk EXCEPT ![i] = t]
                                                 /\ t \in Text /\ t.on => t.body \in Passing
  <2>1. /\ disk'[i] \in Text /\ disk'[i].on => disk'[i].body \in Passing
        /\ \A j \in Instances : j # i => disk'[j] = disk[j]
    BY <1>1, <1>4 DEF TypeOK
  <2> QED BY <2>1, FilePasses
<1>5. CASE AddTruncates(c)
  BY <1>2, <1>4, <1>5, NoTextAssumption DEF AddTruncates, Writes
<1>6. CASE AddFills(c)
  <2>1. req[c].text \in Text /\ ~ req[c].text.on
    BY <1>1, <1>6 DEF AddFills, At, TypeInv, ReqOK, AddOK
  <2> QED BY <1>2, <1>3, <1>4, <1>6, <2>1 DEF AddFills, Writes
<1>7. CASE EditSaves(c)
  <2>1. req[c].text \in Text /\ (req[c].text.on => req[c].text.body \in Passing)
    BY <1>1, <1>7 DEF EditSaves, At, TypeInv, ReqOK, EditOK
  <2> QED BY <1>2, <1>3, <1>4, <1>7, <2>1 DEF EditSaves, Writes
<1>8. CASE EnableSwitches(c)
  <2> DEFINE cur == Switched(disk[i], TRUE)
             off == Switched(cur, FALSE)
  <2>1. disk[i].body \in Passing
    BY <1>1, <1>2, <1>8 DEF EnableSwitches, At, EnableOK
  <2>2. disk[i] \in Text => /\ cur \in Text /\ cur.body \in Passing /\ off \in Text /\ ~ off.on
    BY <2>1, SwitchedIsText
  <2>3. \/ disk' = disk
        \/ disk[i] \in Text /\ disk' = [disk EXCEPT ![i] = cur]
        \/ disk[i] \in Text /\ disk' = [disk EXCEPT ![i] = off]
    BY <1>2, <1>8 DEF EnableSwitches, Writes
  <2> HIDE DEF cur, off
  <2> QED BY <1>3, <1>4, <2>2, <2>3
<1>9. CASE DeleteRemoves(c)
  BY <1>2, <1>3, <1>4, <1>9, NoTextAssumption DEF DeleteRemoves, Writes
<1> QED BY <1>5, <1>6, <1>7, <1>8, <1>9

LEMMA NextPasses ==
    ASSUME IInv, EnabledPasses, [Next]_vars
    PROVE  EnabledPasses'
<1>1. CASE disk' = disk
  BY <1>1 DEF EnabledPasses
<1>2. ASSUME NEW c \in Clients, NEW i \in Instances, DisableSwitches(c, i) PROVE EnabledPasses'
  <2> DEFINE off == Switched(disk[i], FALSE)
  <2>1. disk' = [disk EXCEPT ![i] = off] /\ off \in Text /\ ~ off.on
    BY <1>2, SwitchedIsText DEF DisableSwitches
  <2> HIDE DEF off
  <2> QED BY <2>1, FilePasses DEF IInv, TypeInv, TypeOK
<1>3. ASSUME NEW i \in Instances, AdminEnables(i) PROVE EnabledPasses'
  <2> DEFINE cur == Switched(disk[i], TRUE)
  <2>1. disk' = [disk EXCEPT ![i] = cur] /\ cur.body \in Passing
    BY <1>3, SwitchedIsText DEF AdminEnables, Writes
  <2> HIDE DEF cur
  <2> QED BY <2>1, FilePasses DEF IInv, TypeInv, TypeOK
<1>4. ASSUME NEW c \in Clients, Requests(c) PROVE EnabledPasses'
  BY <1>1, <1>2, <1>4 DEF Requests, AddChecks, EditChecks, EnableChecks, DeleteChecks, Asks
<1>5. ASSUME NEW c \in Clients, Continues(c) PROVE EnabledPasses'
  BY <1>1, <1>5, RequestsPass DEF Continues, AddLoads, AddLists, EnableInstalls, EnableBoots, EnableStarts,
     EnableGivesUp, GivesUpLeaving, DisableStops, DisableUnboots, Starts, Stops, Restarts
<1>6. ASSUME NEW i \in Instances, Processes(i) \/ StartsSeparate(i) PROVE EnabledPasses'
  BY <1>1, <1>3, <1>6 DEF Processes, Launches, Exits, Retries, ManagerStarts, SavesState, StartsSeparate
<1>7. CASE Boots \/ Dies \/ UNCHANGED vars
  BY <1>1, <1>7 DEF Boots, Dies, vars
<1> QED BY <1>4, <1>5, <1>6, <1>7 DEF Next

\* Every enabled device file passes its driver's check, if those the process was
\* started with did: whatever requests, edits and enables overlap, and also when an
\* enable fails halfway (README.md: "enabling requires a passing configuration").
THEOREM EnabledFilesPass == ASSUME NoOverlap, FilesPass PROVE Spec => []EnabledPasses
<1>1. Init => EnabledPasses
  BY DEF Init, FilesPass, EnabledPasses
<1>2. IInv /\ EnabledPasses /\ [Next]_vars => EnabledPasses'
  BY NextPasses
<1> QED BY <1>1, <1>2, Invariant, PTL DEF Spec


\* Only handleAdd begins to add.
LEMMA OnlyAddBegins ==
    ASSUME TypeInv, NEW c \in Clients, NEW d \in Clients,
           \/ Continues(c)
           \/ \E i \in Instances : \/ EditChecks(c, i) \/ EnableChecks(c, i)
                                   \/ DisableSwitches(c, i) \/ DeleteChecks(c, i) \/ Asks(c, i),
           req'[d].op = "add"
    PROVE  req[d].op = "add" /\ req[d].inst = req'[d].inst
<1>1. req \in [Clients -> Request]
  BY DEF TypeInv, TypeOK, Request
<1>2. \/ req' = req
      \/ Ends(c)
      \/ \E p \in Points : req[c].op # "none" /\ Goes(c, p)
      \/ \E op \in {"edit", "enable", "disable", "delete", "start", "stop", "restart"} :
            \E i \in Instances, p \in Points : \E t \in Text \union {Absent} :
                (op = "edit" => t \in Text) /\ Begins(c, op, p, i, t)
      \/ \E t \in Text : req' = [req EXCEPT ![c].at = "list", ![c].text = t]
      \/ req' = [req EXCEPT ![c].at = "unboot", ![c].ok = FALSE]
  <2>1. ASSUME Continues(c)
        PROVE  \/ Ends(c)
               \/ \E p \in Points : req[c].op # "none" /\ Goes(c, p)
               \/ \E t \in Text : req' = [req EXCEPT ![c].at = "list", ![c].text = t]
               \/ req' = [req EXCEPT ![c].at = "unboot", ![c].ok = FALSE]
    BY <2>1 DEF Continues, AddTruncates, AddFills, AddLoads, AddLists, EditSaves, EnableSwitches,
       EnableInstalls, EnableBoots, EnableStarts, EnableGivesUp, GivesUpLeaving, DisableStops,
       DisableUnboots, DeleteRemoves, Starts, Stops, Restarts, Answers, At, Points
  <2>2. ASSUME NEW i \in Instances, EditChecks(c, i)
        PROVE  \E t \in Text : Begins(c, "edit", "save", i, t)
    BY <2>2 DEF EditChecks
  <2>3. ASSUME NEW i \in Instances,
               EnableChecks(c, i) \/ DisableSwitches(c, i) \/ DeleteChecks(c, i) \/ Asks(c, i)
        PROVE  \/ req' = req
               \/ Begins(c, "enable", "switch", i, Absent)
               \/ Begins(c, "disable", "halt", i, Absent)
               \/ Begins(c, "delete", "remove", i, Absent)
               \/ Begins(c, "start", "run", i, Absent)
               \/ Begins(c, "stop", "halt", i, Absent)
               \/ Begins(c, "restart", "run", i, Absent)
    BY <2>3 DEF EnableChecks, DisableSwitches, DeleteChecks, Asks
  <2>4. {"save", "switch", "halt", "remove", "run"} \subseteq Points
    BY DEF Points
  <2> QED BY <2>1, <2>2, <2>3, <2>4
<1>3. CASE req' = req
  BY <1>3
<1>4. CASE Ends(c)
  BY <1>4, EndsTyped, IdleIsRequest
<1>5. CASE \E p \in Points : req[c].op # "none" /\ Goes(c, p)
  BY <1>5, GoesTyped
<1>6. CASE \E op \in {"edit", "enable", "disable", "delete", "start", "stop", "restart"} :
             \E i \in Instances, p \in Points : \E t \in Text \union {Absent} :
                 (op = "edit" => t \in Text) /\ Begins(c, op, p, i, t)
  <2>1. PICK op \in {"edit", "enable", "disable", "delete", "start", "stop", "restart"}, i \in Instances,
             p \in Points, t \in Text \union {Absent} : (op = "edit" => t \in Text) /\ Begins(c, op, p, i, t)
    BY <1>6
  <2>2. op \in Ops \ {"none"}
    BY DEF Ops
  <2>3. req'[c].op = op /\ \A e \in Clients : e # c => req'[e] = req[e]
    BY <2>1, <2>2, BeginsTyped
  <2> QED BY <2>3
<1>7. CASE \E t \in Text : req' = [req EXCEPT ![c].at = "list", ![c].text = t]
  <2>1. PICK t \in Text : req' = [req EXCEPT ![c].at = "list", ![c].text = t]
    BY <1>7
  <2>2. req'[c] = [req[c] EXCEPT !.at = "list", !.text = t] /\ \A e \in Clients : e # c => req'[e] = req[e]
    BY <1>1, <2>1
  <2>3. req'[c].op = req[c].op /\ req'[c].inst = req[c].inst
    BY <1>1, <2>2 DEF Request
  <2> QED BY <2>2, <2>3
<1>8. CASE req' = [req EXCEPT ![c].at = "unboot", ![c].ok = FALSE]
  <2>1. req'[c] = [req[c] EXCEPT !.at = "unboot", !.ok = FALSE] /\ \A e \in Clients : e # c => req'[e] = req[e]
    BY <1>1, <1>8
  <2>2. req'[c].op = req[c].op /\ req'[c].inst = req[c].inst
    BY <1>1, <2>1 DEF Request
  <2> QED BY <2>1, <2>2
<1> QED BY <1>2, <1>3, <1>4, <1>5, <1>6, <1>7, <1>8

\* No driver of an instance that is being added can run yet.
LEMMA AddedDoesNotRun ==
    ASSUME DriverKept, TemplatesIncomplete, IInv, NEW i \in Instances, proc[i] = "up"
    PROVE  Adding(i) = {}
<1> SUFFICES ASSUME NEW c \in Adding(i) PROVE FALSE
  OBVIOUS
<1>1. c \in Clients /\ req[c].op = "add" /\ req[c].inst = i
  BY DEF Adding
<1>2. /\ req[c].at \in {"load", "list"} /\ req[c].text.body \in Templates
      /\ disk[i].body = req[c].text.body /\ "admin" \in Faults /\ req[c].text.body \in Passing
  BY <1>1, AddRelies
<1>3. HasBinary(i)
  BY DEF IInv, FileOK, ProcOK
<1> QED BY <1>2, <1>3 DEF HasBinary, TemplatesIncomplete

LEMMA NextInherits ==
    ASSUME DriverKept, TemplatesIncomplete, IInv, AddInheritsNothing, [Next]_vars
    PROVE  AddInheritsNothing'
<1>1. TypeInv
  BY DEF IInv
<1>2. ASSUME state' = state,
             \A d \in Clients : req'[d].op = "add" => req[d].op = "add" /\ req[d].inst = req'[d].inst
      PROVE  AddInheritsNothing'
  BY <1>2 DEF AddInheritsNothing, Adding
<1>3. ASSUME NEW c \in Clients, NEW i \in Instances, AddChecks(c, i) PROVE AddInheritsNothing'
  <2>1. PICK t \in Text : Begins(c, "add", "write", i, t)
    <3>1. PICK b \in Templates : Begins(c, "add", "write", i, [on |-> FALSE, body |-> b])
      BY <1>3 DEF AddChecks
    <3>2. [on |-> FALSE, body |-> b] \in Text
      BY BodiesAssumption DEF Text
    <3> QED BY <3>1, <3>2
  <2>2. "add" \in Ops \ {"none"} /\ "write" \in Points
    BY DEF Ops, Points
  <2>3. req'[c].inst = i /\ \A d \in Clients : d # c => req'[d] = req[d]
    BY <1>1, <2>1, <2>2, BeginsTyped
  <2>4. state' = state /\ i \notin state
    BY <1>3 DEF AddChecks, NoTrace
  <2> QED BY <2>3, <2>4 DEF AddInheritsNothing, Adding
<1>4. ASSUME NEW c \in Clients, Requests(c) PROVE AddInheritsNothing'
  <2>1. CASE \E i \in Instances : AddChecks(c, i)
    BY <1>3, <2>1
  <2>2. CASE \E i \in Instances : \/ EditChecks(c, i) \/ EnableChecks(c, i)
                                  \/ DisableSwitches(c, i) \/ DeleteChecks(c, i) \/ Asks(c, i)
    <3>1. state' = state
      BY <2>2 DEF EditChecks, EnableChecks, DisableSwitches, DeleteChecks, Asks
    <3> QED BY <1>1, <1>2, <2>2, <3>1, OnlyAddBegins
  <2> QED BY <1>4, <2>1, <2>2 DEF Requests
<1>5. ASSUME NEW c \in Clients, Continues(c) PROVE AddInheritsNothing'
  <2>1. state' = state
    BY <1>5 DEF Continues, AddTruncates, AddFills, AddLoads, AddLists, EditSaves, EnableSwitches,
       EnableInstalls, EnableBoots, EnableStarts, EnableGivesUp, GivesUpLeaving, DisableStops,
       DisableUnboots, DeleteRemoves, Starts, Stops, Restarts
  <2> QED BY <1>1, <1>2, <1>5, <2>1, OnlyAddBegins
<1>6. ASSUME NEW i \in Instances, SavesState(i) PROVE AddInheritsNothing'
  <2>1. Adding(i) = {} /\ req' = req /\ state' = state \union {i}
    BY <1>6, AddedDoesNotRun DEF SavesState
  <2> QED BY <2>1 DEF AddInheritsNothing, Adding
<1>7. ASSUME NEW i \in Instances, Processes(i) \/ StartsSeparate(i), ~ SavesState(i)
      PROVE  AddInheritsNothing'
  <2>1. state' = state /\ req' = req
    BY <1>7 DEF Processes, Launches, Exits, Retries, ManagerStarts, AdminEnables, StartsSeparate
  <2> QED BY <1>2, <2>1
<1>8. CASE Boots \/ UNCHANGED vars
  <2>1. state' = state /\ req' = req
    BY <1>8 DEF Boots, vars
  <2> QED BY <1>2, <2>1
<1>9. CASE Dies
  <2>1. state' = state /\ \A d \in Clients : req'[d].op = "none"
    BY <1>9, IdleIsRequest DEF Dies
  <2> QED BY <1>2, <2>1
<1> QED BY <1>4, <1>5, <1>6, <1>7, <1>8, <1>9 DEF Next

\* A device that is being added has no saved state, from the look at the state
\* directory to the new row (handleAdd, hurd/orchestrator_page.go:393-400), if nobody
\* can start its driver before it is configured.
THEOREM AddsStartAfresh ==
    ASSUME NoOverlap, DriverKept, TemplatesIncomplete
    PROVE  Spec => []AddInheritsNothing
<1>1. Init => AddInheritsNothing
  BY DEF Init, AddInheritsNothing
<1>2. IInv /\ AddInheritsNothing /\ [Next]_vars => AddInheritsNothing'
  BY NextInherits
<1> QED BY <1>1, <1>2, Invariant, PTL DEF Spec
=============================================================================
