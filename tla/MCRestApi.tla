------------------------------ MODULE MCRestApi ------------------------------
(* The REST API for TLC: two servers, of which one may still be stopping,  *)
(* one upload at a time, and two scenarios side by side that differ in     *)
(* what users and callers get up to.                                       *)
EXTENDS RestApi

(* A caller who stays away while the settings are changed freely.          *)
CONSTANT third

(* "settings": two callers and every change, with the token's keyring;     *)
(* "callers": three callers, of which two may connect, and a server that   *)
(* is started, stopped and restarted without a token.                      *)
VARIABLE scenario

Fits ==
  /\ scenario = "settings" => request[third] = Away
  /\ scenario = "callers" => ~config.auth /\ keyring = 0 /\ minted = 0

MCInit == Init /\ scenario \in {"settings", "callers"} /\ Fits

MCNext == UNCHANGED scenario /\ Next /\ Fits'

(* Nothing that is fair is ever held back by Fits.                         *)
MCSpec == MCInit /\ [][MCNext]_<<vars, scenario>> /\ Fairness
=============================================================================
