--------------------------- MODULE MCPasteDelivery ---------------------------
(* PasteDelivery for TLC.                                                  *)
EXTENDS PasteDelivery
=============================================================================
