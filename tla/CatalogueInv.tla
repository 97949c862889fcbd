---------------------------- MODULE CatalogueInv ----------------------------
(***************************************************************************)
(* The inductive invariant behind the properties of Catalogue.  It relates *)
(* the file of an instance to its row, its process and the last answer of  *)
(* its switch (FileOK), and says what a request that is under way may rely *)
(* on until its next step (PointOK).                                       *)
(***************************************************************************)
EXTENDS CatalogueProps

\* One request for an instance at a time while it is being added, and edits that
\* keep the driver: what most of the properties need.
NoOverlap  == "overlap" \notin Faults
DriverKept == "driver" \notin Faults

\* The directory that the process is started with.
FilesPass == \A d \in InitDisk : \A i \in Instances :
                 d[i] \in Text /\ d[i].on => d[i].body \in Passing
\* A new device with a binary of its own has to be configured before it passes; or
\* nobody enables devices behind the page's back.
TemplatesIncomplete ==
    "admin" \in Faults => \A b \in Templates : Kind(b) = "installedBinary" => b \notin Passing

\* A request that is under way is for an instance, and has a text if it writes one.
ReqOK(c) ==
    /\ req[c].op = "none" => req[c] = Idle
    /\ req[c].op # "none" => req[c].inst \in Instances
    /\ req[c].op \in {"add", "edit"} => req[c].text \in Text
TypeInv == TypeOK /\ \A c \in Clients : ReqOK(c)

-----------------------------------------------------------------------------
\* The row of an instance: none, or one that shows its file.
RowOK(i) ==
    \/ rows[i] = <<>> /\ cfg[i] = <<>>
    \/ /\ hurd = "up" /\ disk[i] \in Text
       /\ Len(rows[i]) = 1 /\ Len(cfg[i]) = 1
       /\ rows[i][1].text.body = disk[i].body
       /\ DriverKept /\ rows[i][1].inProcess => Kind(disk[i].body) = "compiledIn"
       /\ Kind(disk[i].body) = "installedBinary" /\ rows[i][1].text.on => disk[i].on

\* Every file has its row, once nobody is adding it.
FileListed(i) == hurd = "up" /\ disk[i] \in Text /\ Adding(i) = {} => Listed(i)

ProcOK(i) == DriverKept /\ proc[i] = "up" => HasBinary(i)

EnabledIsReal(i) ==
    shown[i] = "enabled" =>
        /\ disk[i] \in Text /\ disk[i].on
        /\ DriverKept /\ Kind(disk[i].body) = "installedBinary" => i \in boot
DisabledIsReal(i) ==
    shown[i] = "disabled" =>
        /\ disk[i] \in Text /\ ~ disk[i].on
        /\ DriverKept => proc[i] # "up"
        /\ DriverKept /\ Kind(disk[i].body) = "installedBinary" => i \notin boot

FileOK(i) == RowOK(i) /\ FileListed(i) /\ ProcOK(i) /\ EnabledIsReal(i) /\ DisabledIsReal(i)

-----------------------------------------------------------------------------
\* Requests begin when the page is served, and the switch and Delete keep the lock.
HoldsOK(c) ==
    /\ req[c].op # "none" => Serving
    /\ req[c].op \in {"enable", "disable", "delete"} => lock = c /\ Listed(req[c].inst)

\* The one request for an instance that has no row yet.
AddOK(c) ==
    LET i == req[c].inst
        t == req[c].text
    IN  req[c].op = "add" =>
          /\ req[c].at \in {"write", "fill", "load", "list"}
          /\ ~ Listed(i) /\ t.body \in Templates
          /\ \A d \in Clients : req[d].inst = i => d = c
          /\ req[c].at \in {"write", "fill"} => ~ t.on
          /\ req[c].at = "write" => disk[i] = Absent
          /\ req[c].at = "fill" => disk[i] = Torn
          /\ req[c].at \in {"load", "list"} =>
               /\ disk[i] \in Text /\ disk[i].body = t.body /\ (t.on => disk[i].on)
               /\ DriverKept /\ (disk[i].on \/ proc[i] = "up") =>
                    "admin" \in Faults /\ t.body \in Passing

\* What an edit will write is checked, and for the driver the row has.
EditOK(c) ==
    req[c].op = "edit" =>
        /\ req[c].text.on => req[c].text.body \in Passing
        /\ DriverKept /\ Listed(req[c].inst) =>
             DriverOf[req[c].text.body] = DriverOf[disk[req[c].inst].body]

\* Until the answer, the file stays as the switch checked and wrote it.
EnableOK(c) ==
    LET i == req[c].inst
    IN  req[c].op = "enable" =>
          /\ req[c].at = "switch" => disk[i].body \in Passing
          /\ req[c].at \in {"install", "boot", "run"} => disk[i].on
          /\ req[c].at = "run" => i \in boot

DisableOK(c) ==
    LET i == req[c].inst
    IN  req[c].op = "disable" =>
          /\ ~ rows[i][1].text.on /\ shown[i] = "nothing"
          /\ req[c].at = "unboot" /\ req[c].ok /\ ~ disk[i].on => proc[i] # "up"

DeleteOK(c) ==
    req[c].op = "delete" /\ DriverKept /\ ~ disk[req[c].inst].on => proc[req[c].inst] # "up"

PointOK(c) == HoldsOK(c) /\ AddOK(c) /\ EditOK(c) /\ EnableOK(c) /\ DisableOK(c) /\ DeleteOK(c)

IInv == /\ TypeInv
        /\ \A i \in Instances : FileOK(i)
        /\ \A c \in Clients : PointOK(c)
=============================================================================
