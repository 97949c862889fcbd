---------------------------- MODULE ConfigCheck -----------------------------
(***************************************************************************)
(* "alpacahurd -check" (checkConfig, hurd/cli.go) and the build loop of    *)
(* serve (hurd/run.go) walk the same configuration with the same helpers   *)
(* and different control: first the one, then the other, block by block.   *)
(***************************************************************************)
EXTENDS DeviceNumbers, Sequences

CONSTANTS
    Types,      \* ASCOM device types
    PortNames,  \* the ports an entry may name; 0 is none
    Entries,    \* the entries a configuration may hold
    MaxEntries  \* bound: entries of a configuration

\* One block of an entry, as subSpecs makes it, and whether the driver's New takes it.
BlockType == [on : BOOLEAN, pin : Int, builds : BOOLEAN]
\* driver is what resolveDriver says; broken, that subSpecs fails.
EntryType == [on : BOOLEAN, port : PortNames, inline : BOOLEAN, type : Types, broken : BOOLEAN,
              driver : {"compiled", "binary", "none"}, blocks : Seq(BlockType) \ {<<>>}]

ASSUME EntriesAreTyped == Entries \subseteq EntryType
ASSUME CheckBounds == 0 \in PortNames /\ PortNames \subseteq Nat /\ MaxEntries \in Nat

VARIABLES
    config,   \* the entries, in the order LoadConfig gives
    phase,    \* "check", "serve" or "done"
    entry,    \* the entry the loop is at
    block,    \* its block, 0 before subSpecs
    nums,     \* the numbers taken, by key: nums of the loop that runs
    scanned,  \* serve: the scanning entries so far
    told,     \* what the check has printed for an entry (block 0) or a block
    rows      \* what start-up has made of it
vars == <<config, phase, entry, block, nums, scanned, told, rows>>

Keys == PortNames \union {-k : k \in 1..MaxEntries}
Empty == [k \in Keys |-> [t \in Types |-> {}]]

Init ==
    /\ config \in UNION {[1..n -> Entries] : n \in 1..MaxEntries}
    /\ phase = "check" /\ entry = 1 /\ block = 0
    /\ nums = Empty /\ scanned = 0 /\ told = {} /\ rows = {}

E == config[entry]
B == E.blocks[block]
Loop(p) == phase = p /\ entry <= Len(config)
AtEntry(p) == Loop(p) /\ block = 0
AtBlock(p) == Loop(p) /\ block > 0

Says(what, n) == told' = told \union {[at |-> <<entry, block>>, is |-> what, num |-> n]}
Makes(what, n) == rows' = rows \union {[at |-> <<entry, block>>, is |-> what, num |-> n]}

ToBlock == block' = 1 /\ UNCHANGED entry
ToEntry == block' = 0 /\ entry' = entry + 1
Onward == IF block < Len(E.blocks) THEN block' = block + 1 /\ UNCHANGED entry ELSE ToEntry

Fits(key) == B.builds /\ CanAssign(nums[key][E.type], B.pin)
Number(key) == NumberFor(nums[key][E.type], B.pin)
Claims(key) == nums' = [nums EXCEPT ![key][E.type] = @ \union {Number(key)}]

-----------------------------------------------------------------------------
(* checkConfig.                                                            *)

Portless == E.port = 0 /\ E.inline

CheckSkips ==
    /\ AtEntry("check") /\ ~ E.on
    /\ ToEntry /\ UNCHANGED told

\* The missing port is an error, and the loop goes on with the entry.
CheckStops(what) ==
    /\ AtEntry("check") /\ E.on
    /\ told' = told \union {[at |-> <<entry, 0>>, is |-> w, num |-> 0] :
                               w \in {what} \union IF Portless THEN {"error"} ELSE {}}
    /\ ToEntry

CheckBinary == E.driver = "binary" /\ CheckStops("binary")
CheckUnresolved == E.driver = "none" /\ ~ E.inline /\ CheckStops("warn")
CheckBroken == E.driver = "compiled" /\ E.broken /\ CheckStops("error")

\* An inline entry with an unknown driver goes on too: it has the one block it is.
CheckEnters ==
    /\ AtEntry("check") /\ E.on
    /\ \/ E.driver = "compiled" /\ ~ E.broken
       \/ E.driver = "none" /\ E.inline
    /\ IF Portless THEN Says("error", 0) ELSE UNCHANGED told
    /\ ToBlock

\* A slip: one table for all ports.
CheckKeyOne(e) == 0

\* The table of an entry: all entries without a port share one.
CheckKey(e) == e.port

CheckBlock ==
    /\ AtBlock("check")
    /\ \/ ~ B.on /\ UNCHANGED <<told, nums>>
       \/ /\ B.on /\ (E.driver = "none" \/ ~ Fits(CheckKey(E)))
          /\ Says("error", 0) /\ UNCHANGED nums
       \/ /\ B.on /\ E.driver = "compiled" /\ Fits(CheckKey(E))
          /\ Says("ok", Number(CheckKey(E))) /\ Claims(CheckKey(E))
    /\ Onward

Checks ==
    /\ Loop("check")
    /\ \/ /\ CheckSkips \/ CheckBinary \/ CheckUnresolved \/ CheckBroken \/ CheckEnters
          /\ UNCHANGED nums
       \/ CheckBlock
    /\ UNCHANGED <<config, phase, scanned, rows>>

-----------------------------------------------------------------------------
(* serve, on a host with a service manager.  Of what can fail there, a setup   *)
(* form is here, since its device keeps the number; module Herd has the rest. *)

ServeSkips ==
    /\ AtEntry("serve")
    /\ \/ ~ E.on /\ UNCHANGED rows
       \/ /\ E.on
          /\ Portless \/ E.driver = "none" \/ (E.driver = "compiled" /\ E.broken)
          /\ Makes("skipped", 0)
    /\ ToEntry

ServeSeparate ==
    /\ AtEntry("serve") /\ E.on /\ ~ Portless /\ E.driver = "binary"
    /\ Makes("separate", 0)
    /\ ToEntry

\* A scanning entry gets a server, hence a table, of its own.
ServeEnters ==
    /\ AtEntry("serve") /\ E.on /\ ~ Portless /\ E.driver = "compiled" /\ ~ E.broken
    /\ scanned' = IF E.port = 0 THEN scanned + 1 ELSE scanned
    /\ ToBlock /\ UNCHANGED rows

ServeKey == IF E.port = 0 THEN - scanned ELSE E.port

\* registerDevice takes the number, and attachSetupForm may fail after that.
Numbered == {"served", "formless"}
ServeBlock ==
    /\ AtBlock("serve")
    /\ \/ ~ B.on /\ UNCHANGED <<rows, nums>>
       \/ B.on /\ ~ Fits(ServeKey) /\ Makes("skipped", 0) /\ UNCHANGED nums
       \/ /\ B.on /\ Fits(ServeKey) /\ Claims(ServeKey)
          /\ \E what \in Numbered : Makes(what, Number(ServeKey))
    /\ Onward

Serves ==
    /\ \/ (ServeSkips \/ ServeSeparate) /\ UNCHANGED <<nums, scanned>>
       \/ ServeEnters /\ UNCHANGED nums
       \/ ServeBlock /\ UNCHANGED scanned
    /\ UNCHANGED <<config, phase, told>>

\* One loop is done; serve starts with tables of its own.
Turns ==
    /\ phase # "done" /\ entry > Len(config)
    /\ phase' = IF phase = "check" THEN "serve" ELSE "done"
    /\ entry' = 1 /\ block' = 0 /\ nums' = Empty
    /\ UNCHANGED <<config, scanned, told, rows>>

Next == Checks \/ Serves \/ Turns
Spec == Init /\ [][Next]_vars

-----------------------------------------------------------------------------
Of(table, i) == {r \in table : r.at[1] = i}
Told(i, j, what) == \E r \in told : r.at = <<i, j>> /\ r.is = what
Given(table, i, what) == {<<r.at[2], r.num>> : r \in {q \in Of(table, i) : q.is = what}}

\* The check foresees start-up.  A device it reports as fine, in an entry without an
\* error of its own, gets its number, and is served unless its setup form fails; on a
\* port of the file it is also the other way round, with the number the check said,
\* whichever forms fail before it.  An installed binary is started, and an entry it warns
\* of is skipped.  Only for a scanning entry may it report an error that start-up
\* does not meet: its numbers are checked against all scanning entries, which are
\* served apart (hurd/cli.go:155-158, hurd/run.go:147-158).
CheckPredicts ==
    phase = "done" =>
        \A i \in 1..Len(config) :
            LET clean == ~ Told(i, 0, "error")
                fine == Given(told, i, "ok")
                kept == UNION {Given(rows, i, what) : what \in Numbered}
            IN  /\ clean => {f[1] : f \in fine} \subseteq {s[1] : s \in kept}
                /\ clean /\ config[i].port # 0 => fine = kept
                /\ ~ clean => kept = {}
                /\ clean => (Told(i, 0, "binary") <=> Given(rows, i, "separate") # {})
                /\ Told(i, 0, "warn") => Given(rows, i, "skipped") # {}
=============================================================================
