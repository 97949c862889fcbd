------------------------------ MODULE MCPages -------------------------------
(***************************************************************************)
(* Three texts, one of which does not parse; two tasks over three cells,   *)
(* whose entries can be found in two ways.                                 *)
(***************************************************************************)
EXTENDS Pages
=============================================================================
