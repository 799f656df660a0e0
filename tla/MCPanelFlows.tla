---------------------------- MODULE MCPanelFlows ----------------------------
(* PanelFlows for TLC.                                                     *)
EXTENDS PanelFlows
=============================================================================
