---------------------------- MODULE AddressBook ----------------------------
(***************************************************************************)
(* What device registration promises the Alpaca clients of the herd: an    *)
(* address (a server, a device type, a device number) leads to at most one *)
(* device.  A device takes an address only while nobody holds it; devices  *)
(* give theirs up, and all of them go when the process ends.               *)
(***************************************************************************)
CONSTANTS Addresses, Owners
VARIABLE held      \* the holdings: records [at |-> address, by |-> owner]

Holdings == [at : Addresses, by : Owners]

Init == held = {}

\* One device takes an address that nobody holds.
Claim ==
    \E h \in held' \ held :
        /\ h \in Holdings
        /\ \A g \in held : g.at # h.at
        /\ held' = held \union {h}

GiveUp == \E h \in held : held' = held \ {h}

Reset == held' = {}

Next == Claim \/ GiveUp \/ Reset

Spec == Init /\ [][Next]_held

\* An address never leads to two devices (what a client of the herd relies on).
OneHolder == \A g, h \in held : g.at = h.at => g = h
=============================================================================
