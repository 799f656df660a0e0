---------------------------- MODULE MCEngineSlot -----------------------------
(* The engine slot for TLC: two threads, a model and its quantized variant.*)
EXTENDS EngineSlot

CONSTANTS base, quantized, j1, j2

MCStart == [backend |-> "whisper", model |-> base, gpu |-> TRUE, fallback |-> TRUE]

MCVariant == [m \in Model |-> quantized]
=============================================================================
