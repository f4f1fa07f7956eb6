---------------------------- MODULE MCTuiOutbox -----------------------------
(***************************************************************************)
(* TLC's instance of TuiOutbox.                                            *)
(***************************************************************************)
EXTENDS TuiOutbox
=============================================================================
