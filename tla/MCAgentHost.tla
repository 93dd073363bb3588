----------------------------- MODULE MCAgentHost -----------------------------
(* TLC instance of AgentHost: process ids are interchangeable.             *)
EXTENDS AgentHost, TLC

PidSymmetry == Permutations(Pids)
==============================================================================
