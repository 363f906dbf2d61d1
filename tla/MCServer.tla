------------------------------ MODULE MCServer ------------------------------
(* Instances of the server.                                                *)
EXTENDS McpServer, TLC

\* Connections are interchangeable in the runs that check no liveness.
ConnSymmetry == Permutations(Conns)

=============================================================================
