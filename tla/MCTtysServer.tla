---------------------------- MODULE MCTtysServer ----------------------------
(***************************************************************************)
(* TLC's instance of TtysServer.  It is checked under fairness, so the     *)
(* handlers, although interchangeable, are no symmetry set.                *)
(***************************************************************************)
EXTENDS TtysServer
=============================================================================
