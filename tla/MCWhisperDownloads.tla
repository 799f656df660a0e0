------------------------- MODULE MCWhisperDownloads -------------------------
(* The model page for TLC: a model and its quantized variant, the default  *)
(* and another directory, a page row each and two slots of the wizard.     *)
EXTENDS WhisperDownloads, TLC

CONSTANTS full, quant, home, elsewhere, w1, w2
MCConfig == [selected : Model, dir : Dir, first_run : BOOLEAN]
MCDefault == [selected |-> quant, dir |-> home, first_run |-> TRUE]
MCSibling == (full :> quant) @@ (quant :> full)
=============================================================================
