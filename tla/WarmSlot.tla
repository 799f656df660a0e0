------------------------------ MODULE WarmSlot ------------------------------
(***************************************************************************)
(* What a warm worker slot promises its callers, whatever happens inside:  *)
(* one process is warm at a time; a process that is starting or being put  *)
(* away does not stay that way; and a shutdown is final: no process that   *)
(* existed when it began is warm after it ended.                           *)
(***************************************************************************)
CONSTANT Server  (* Process ids.                                           *)

VARIABLES
  role,      (* What each process is for the slot.                         *)
  spent,     (* The processes that existed when the last shutdown began.   *)
  closing    (* Whether a shutdown is under way.                           *)

vars == <<role, spent, closing>>

Role == {"none", "starting", "warm", "leaving"}

(* The types of the abstract slot.                                         *)
TypeOK ==
  /\ role \in [Server -> Role] /\ spent \subseteq Server /\ closing \in BOOLEAN

Init ==
  /\ role = [s \in Server |-> "none"] /\ spent = {} /\ closing = FALSE

Nobody(is) == \A s \in Server : role[s] # is

Launch(s) ==
  /\ role[s] = "none" /\ Nobody("starting")
  /\ role' = [role EXCEPT ![s] = "starting"]
  /\ spent' = spent \ {s} /\ UNCHANGED closing

(* While a shutdown runs its order with a start is open.                   *)
Publish(s) ==
  /\ role[s] = "starting" /\ Nobody("warm")
  /\ s \notin spent \/ closing
  /\ role' = [role EXCEPT ![s] = "warm"]
  /\ UNCHANGED <<spent, closing>>

Withdraw(s) ==
  /\ role[s] = "warm"
  /\ role' = [role EXCEPT ![s] = "leaving"]
  /\ UNCHANGED <<spent, closing>>

(* Killed, or dead by itself.                                              *)
End(s) ==
  /\ role[s] # "none"
  /\ role' = [role EXCEPT ![s] = "none"]
  /\ UNCHANGED <<spent, closing>>

ShutdownBegins ==
  /\ ~closing /\ closing' = TRUE
  /\ spent' = {s \in Server : role[s] # "none"}
  /\ UNCHANGED role

(* Whatever it takes out of the slot is dead when it returns.              *)
ShutdownEnds ==
  /\ closing /\ closing' = FALSE
  /\ \A s \in spent : role[s] # "warm"
  /\ \E dead \in SUBSET {s \in Server : role[s] = "leaving"} :
       role' = [s \in Server |-> IF s \in dead THEN "none" ELSE role[s]]
  /\ UNCHANGED spent

Next ==
  \/ \E s \in Server : Launch(s) \/ Publish(s) \/ Withdraw(s) \/ End(s)
  \/ ShutdownBegins \/ ShutdownEnds

(* A process on its way in or out arrives; a shutdown returns.             *)
Fairness ==
  /\ \A s \in Server :
       WF_vars((role[s] = "starting" /\ (Publish(s) \/ End(s)))
               \/ (role[s] = "leaving" /\ End(s)))
  /\ WF_vars(ShutdownEnds)

(* What the slot never does, and with the fairness what it also does.      *)
SafeSpec == Init /\ [][Next]_vars

Spec == SafeSpec /\ Fairness
=============================================================================
