----------------------------- MODULE MCAgentRun -----------------------------
(***************************************************************************)
(* TLC's instance of AgentRun: a read and a shell command that need an     *)
(* answer, and a task.                                                     *)
(***************************************************************************)
EXTENDS AgentRun

CONSTANTS read, git, task

MCVerdict == [k \in Keys |-> IF k = task THEN "allow" ELSE "ask"]
MCCovers == [k \in Keys |-> {k}]
=============================================================================
