---------------------------- MODULE MCCatalogue ----------------------------
(***************************************************************************)
(* Small instances of Catalogue: one device file, a driver with a binary   *)
(* of its own ("cam") and one that is compiled in ("sim").                 *)
(***************************************************************************)
EXTENDS CatalogueProps
CONSTANTS a, good, draft, sim, c1, c2

MCInstances == {a}
MCClients == {c1, c2}
AnyDriver == {good, draft, sim}
MCDrivers == {"cam", "sim"}
MCKindOf == [d \in MCDrivers |-> IF d = "cam" THEN "installedBinary" ELSE "compiledIn"]
MCDriverOf == [b \in Bodies |-> IF b = sim THEN "sim" ELSE "cam"]
MCPassing == Bodies \ {draft}
JustAdded == {draft, sim} \intersect Bodies
T(on, b) == [on |-> on, body |-> b]
\* No file, a file that runs, a file that is switched off, a compiled-in
\* driver that runs.
SomeFiles == [MCInstances -> {Absent, T(TRUE, good), T(FALSE, good), T(TRUE, sim)}]
=============================================================================
