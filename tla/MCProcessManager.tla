-------------------------- MODULE MCProcessManager --------------------------
(* ProcessManager for TLC: the processes are interchangeable. *)
EXTENDS ProcessManager, TLC

Symmetric == Permutations(Procs)
=============================================================================
