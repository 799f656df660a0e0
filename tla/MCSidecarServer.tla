--------------------------- MODULE MCSidecarServer ---------------------------
(* An instance of the sidecar server for model checking: the GUI and the   *)
(* API thread, and three process ids: one of them in the slot, one about   *)
(* to be killed, one being started.                                        *)
EXTENDS SidecarInductive

CONSTANTS gui, api, small, large, p1, p2, p3

ASSUME Cardinality({p1, p2, p3}) = 3
=============================================================================
