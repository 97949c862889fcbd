---------------------------- MODULE MCDiscovery ----------------------------
(***************************************************************************)
(* A small instance of Discovery: the device of file "i" registers from    *)
(* this host or, under another identity, from another one; both name the   *)
(* port on which a server of the orchestrator may come to listen.          *)
(***************************************************************************)
EXTENDS DiscoveryProps

Beat(id, inst, port, local) == [id |-> id, inst |-> inst, port |-> port, local |-> local]
MCBeats == {Beat("a", "i", 1, TRUE), Beat("b", "i", 1, FALSE)}
=============================================================================
