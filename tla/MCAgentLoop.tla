----------------------------- MODULE MCAgentLoop -----------------------------
(* Instances of AgentLoop for TLC; see the .cfg file.                         *)
EXTENDS AgentLoop
=============================================================================
