---------------------------- MODULE MCAggregator ----------------------------
(* Instances of the workspace aggregator.                                  *)
EXTENDS WorkspaceAggregator

=============================================================================
