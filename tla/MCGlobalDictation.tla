-------------------------- MODULE MCGlobalDictation --------------------------
(* The dictation instance TLC explores: three scenarios side by side, which *)
(* differ in what the users and the other surfaces get up to, so that each  *)
(* can be deep in its own direction.                                        *)
EXTENDS GlobalDictationInductive

(* "chunks": one take with many samples, retried and cancelled; "takes":    *)
(* two short takes and a retry between recordings of another surface;       *)
(* "alone": two takes of a dictation that has the microphone to itself.     *)
VARIABLE scenario

Fits ==
  /\ scenario = "chunks" => takes <= 1
  /\ scenario = "takes" => rawLen <= 1
  /\ scenario = "alone" => owner # "other" /\ gen <= 2 /\ rawLen <= 2

MCInit == Init /\ scenario \in {"chunks", "takes", "alone"}

MCNext == UNCHANGED scenario /\ Next /\ Fits'

(* No continuation and no step of the worker is ever held back by Fits.     *)
MCSpec == MCInit /\ [][MCNext]_<<vars, scenario>> /\ Fairness

(* "the result view must still appear": a spinning panel always comes to    *)
(* rest, in whatever order decode, LLM and clipboard answer, when no other  *)
(* surface takes the microphone in between.                                 *)
SpinnerEnds ==
  (scenario = "alone" /\ panel = "transcribing") ~> (panel # "transcribing")
=============================================================================
