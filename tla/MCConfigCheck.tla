--------------------------- MODULE MCConfigCheck ----------------------------
(***************************************************************************)
(* Up to three entries with and without a port, alone and in blocks, with  *)
(* pins that collide, a negative pin, a block that is off and one that     *)
(* does not build; binaries, unknown drivers, and entries that are off.    *)
(***************************************************************************)
EXTENDS ConfigCheck

MCTypes == {"camera", "focuser"}
MCPorts == {0, 1}

Block(on, pin, builds) == [on |-> on, pin |-> pin, builds |-> builds]
Good(pin) == Block(TRUE, pin, TRUE)
Entry(port, inline, driver, type, blocks) ==
    [on |-> TRUE, port |-> port, inline |-> inline, driver |-> driver, type |-> type,
     broken |-> FALSE, blocks |-> blocks]

Shapes == {<<Good(AutoNum)>>, <<Good(0)>>, <<Good(-2)>>, <<Good(0), Good(1)>>,
           <<Block(FALSE, 0, TRUE), Block(TRUE, 1, FALSE), Good(2)>>}
One == <<Good(AutoNum)>>

Compiled == {Entry(p, l, "compiled", "camera", s) : p \in MCPorts, l \in BOOLEAN, s \in Shapes}
Others == {Entry(p, FALSE, "compiled", "focuser", One) : p \in MCPorts}
    \union {Entry(p, l, d, "camera", One) : p \in MCPorts, l \in BOOLEAN, d \in {"binary", "none"}}
    \union {[Entry(1, FALSE, "compiled", "camera", One) EXCEPT !.on = FALSE],
            [Entry(1, TRUE, "compiled", "camera", One) EXCEPT !.broken = TRUE]}
MCEntries == Compiled \union Others
=============================================================================
