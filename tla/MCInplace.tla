----------------------------- MODULE MCInplace -----------------------------
(***************************************************************************)
(* Root module of the runs of InplaceRollout.                              *)
(***************************************************************************)
EXTENDS InplaceRollout
=============================================================================
