--------------------------- MODULE MCAgentCommand ---------------------------
(* A small instance of AgentCommand for TLC.                               *)
EXTENDS AgentCommand, TLC

CONSTANTS g1, g2, j1

\* A job the queue delivers twice.
Twice == (g1 :> j1) @@ (g2 :> j1)
=============================================================================
