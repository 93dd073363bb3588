-------------------------- MODULE MCAgentPipeline --------------------------
(* TLC instance of AgentPipeline: three keys and a table that holds two    *)
(* flows, windows of two ticks, days of three windows.                     *)
EXTENDS AgentPipeline

=============================================================================
