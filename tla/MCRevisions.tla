---------------------------- MODULE MCRevisions -----------------------------
(***************************************************************************)
(* Root module of the run of Revisions.                                    *)
(***************************************************************************)
EXTENDS Revisions
=============================================================================
