-------------------------- MODULE SidecarInductive --------------------------
(* The invariants behind the theorems about the sidecar server.            *)
EXTENDS SidecarServer

(* The places between reading the epoch and the last look at it.           *)
Reading == {"take", "spawn", "starting", "install", "request", "retry",
            "respawn", "cleanup"}

(* Only the holder of REQUEST_LOCK is past the wait for it.                *)
Locked == \A w \in Worker : thread[w].pc \in Holding => lock = w

(* While a thread holds a server outside the slot, or starts one, the slot *)
(* is empty: only a holder of the lock fills it.                           *)
SlotEmptied ==
  \A w \in Worker :
    thread[w].pc \in {"spawn", "starting", "install"} => slot = None

VictimTaken == stopping # "kill" => victim = None

EpochsPast == \A w \in Worker : thread[w].started <= epoch

(* After a bump nobody has read the epoch since, no request is current and *)
(* the slot was emptied.                                                   *)
QuietEmpty ==
  quiet =>
    /\ \A w \in Worker : thread[w].pc \in Reading => thread[w].started # epoch
    /\ stopping # "bumped" => slot = None

(* The server a thread deals with was started with its model.              *)
MineMatches ==
  \A w \in Worker :
    thread[w].pc \in {"starting", "install", "request"} =>
      thread[w].mine \in Server /\ model[thread[w].mine] = thread[w].want

SidecarInv ==
  /\ TypeOK /\ Locked /\ SlotEmptied /\ VictimTaken /\ EpochsPast
  /\ QuietEmpty /\ MineMatches /\ NoOrphan
=============================================================================
