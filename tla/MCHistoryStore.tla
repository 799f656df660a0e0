---------------------------- MODULE MCHistoryStore ----------------------------
(* An instance of the transcript history for model checking: two takes of  *)
(* this run, and a transcript of an earlier run that retention would       *)
(* remove.                                                                 *)
EXTENDS HistoryStoreInductive

CONSTANTS a, b, o

ASSUME Cardinality({a, b, o}) = 3
=============================================================================
