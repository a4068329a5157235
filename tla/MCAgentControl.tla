--------------------------- MODULE MCAgentControl ---------------------------
(* Two launches of the App, one request of its windows, and one port that  *)
(* every Agent gets again, for TLC.                                        *)
EXTENDS AgentControl

CONSTANTS p1, p2, c1

MCProcs == {p1, p2}
MCCalls == {c1}
MCPorts == {1}
=============================================================================
