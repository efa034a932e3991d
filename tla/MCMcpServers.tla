----------------------------- MODULE MCMcpServers ---------------------------
(* Instances of McpServers for TLC.                                        *)
EXTENDS McpServers
=============================================================================
