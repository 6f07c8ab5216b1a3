---------------------------- MODULE MCAgentTunnel ----------------------------
(* AgentTunnel on small bounds for TLC. *)
EXTENDS AgentTunnel
=============================================================================
