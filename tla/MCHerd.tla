------------------------------- MODULE MCHerd -------------------------------
(***************************************************************************)
(* Small instances of Herd for TLC.  An admin may pin port 10 or 20; the   *)
(* scan windows, of one port or two, start at 20.                          *)
(***************************************************************************)
EXTENDS HerdProps
CONSTANTS a, b

MCInstances == {a, b}
MCTypes == {"telescope"}
MCTypeOf == [i \in MCInstances |-> "telescope"]

Single(pin) == [x \in {Flat} |-> pin]
TwoBlocks == [x \in {0, 1} |-> x]

F(on, port, shape, cfg) == [enable |-> on, port |-> port, shape |-> shape, cfg |-> cfg]
Pair(f, g) == [i \in MCInstances |-> IF i = a THEN f ELSE g]

MCShapes == {Single(AutoNum), Single(0), TwoBlocks}
MCSettings == {1, 2}
Switches == BOOLEAN \X BOOLEAN
\* Both on one fixed port; one fixed where the other begins to scan; both scanning; two
\* blocks beside a single device on one port.
SharedPort(p, m, n) == {Pair(F(o[1], p, m, 1), F(o[2], p, n, 1)) : o \in Switches}
SharedFlat == SharedPort(10, Single(AutoNum), Single(AutoNum))
FixedAndScan == {Pair(F(o[1], 20, Single(AutoNum), 1), F(o[2], 0, Single(AutoNum), 1)) : o \in Switches}
BothScan == {Pair(F(o[1], 0, Single(AutoNum), 1), F(o[2], 0, Single(AutoNum), 1)) : o \in Switches}

FaultFiles == SharedPort(10, TwoBlocks, Single(AutoNum))
QuietFiles == SharedPort(20, Single(AutoNum), Single(0)) \union FixedAndScan
OneScan == {Pair(F(TRUE, 0, Single(AutoNum), 1), F(FALSE, 10, Single(AutoNum), 1))}
NoDrafts == {}
\* The editor saves new driver settings for a device on port 10.
NewSettings == {F(TRUE, 10, Single(AutoNum), 2)}
MCPorts == {10} \union 20..25
=============================================================================
