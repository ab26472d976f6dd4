-------------------------- MODULE MCLoadSession --------------------------
(* Values for the bounds of LoadSession; the configurations choose them. *)
EXTENDS LoadSession
==========================================================================
