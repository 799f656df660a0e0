-------------------------- MODULE MCParakeetWorker ---------------------------
(* The Parakeet worker for TLC: the GUI and the API thread, two models,    *)
(* three process ids.                                                      *)
EXTENDS ParakeetWorker

CONSTANTS gui, api, fast, precise, p1, p2, p3

ASSUME Cardinality({p1, p2, p3}) = 3
=============================================================================
