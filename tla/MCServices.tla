----------------------------- MODULE MCServices -----------------------------
(***************************************************************************)
(* Two overlapping requests about one instance on each platform.           *)
(***************************************************************************)
EXTENDS Services
=============================================================================
