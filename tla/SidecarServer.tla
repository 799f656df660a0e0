---------------------------- MODULE SidecarServer ----------------------------
(***************************************************************************)
(* The one warm sidecar server (Qwen's asr-server) shared by the GUI and   *)
(* API transcription threads, and shutdown_all on the GTK thread.          *)
(*                                                                         *)
(* REQUEST_LOCK serializes the transcriptions and is held across spawn and *)
(* request; the RUNNING slot is locked only for a take or an insert, each  *)
(* one step here.  Shutdown takes no request lock: it bumps EPOCH, then    *)
(* takes the slot.                                                         *)
(*                                                                         *)
(* A thread may find its token aborted or its deadline past whenever it    *)
(* looks (check_work), and a server may die at any time.                   *)
(***************************************************************************)
EXTENDS Integers, FiniteSets

CONSTANTS
  Worker,     (* Transcription threads.                                    *)
  Model,      (* Server specifications: binary and model directory.        *)
  Server,     (* Process ids.                                              *)
  MaxEpoch,   (* Shutdowns.  Bounds the model.                             *)
  None

ASSUME SidecarAssumption ==
  /\ MaxEpoch \in Nat
  /\ None \notin Server /\ None \notin Worker /\ None \notin Model

VARIABLES
  slot,       (* RUNNING: the installed server, or None.                   *)
  lock,       (* The holder of REQUEST_LOCK, or None.                      *)
  epoch,      (* EPOCH.                                                    *)
  thread,     (* Each thread's place in transcribe_via_server and locals.  *)
  live,       (* Server processes that run.                                *)
  model,      (* The model each server was started with.                   *)
  stopping,   (* Where the GTK thread is in shutdown_all.                  *)
  victim      (* The server it is about to kill, or None.                  *)

(* A history variable.                                                     *)
VARIABLE
  quiet       (* No thread read EPOCH since the last shutdown bumped it.   *)

servers == <<slot, live, model>>
gtk == <<epoch, stopping, victim, quiet>>
vars == <<lock, thread, servers, gtk>>

(* The places of a thread that holds REQUEST_LOCK.                         *)
Holding == {"locked", "take", "spawn", "starting", "install", "request",
            "retry", "respawn", "cleanup"}

(* want: the model asked for.  started: started_epoch.  mine: the server   *)
(* the thread starts, holds outside the slot, or talks to.                 *)
Thread ==
  [pc : Holding \cup {"idle", "waiting"}, want : Model \cup {None},
   started : Nat, mine : Server \cup {None}, retried : BOOLEAN]

Idle ==
  [pc |-> "idle", want |-> None, started |-> 0, mine |-> None, retried |-> FALSE]

(* The server a thread owns outside the slot.                              *)
Owned(w) == IF thread[w].pc \in {"starting", "install"} THEN {thread[w].mine} ELSE {}

(* Mutant: the signal is not waited for, and not heeded.                   *)
KillNothing(s) == live' = live /\ s \in Server \cup {None}

Kill(s) == live' = live \ {s}

(* Mutant: a failed spawn is taken for a process.                          *)
FreeOrNone == (Server \ live) \cup {None}

(* A process id is used again once the process was reaped.                 *)
Free == Server \ (live \cup {slot, victim} \cup {thread[w].mine : w \in Worker})

Init ==
  /\ slot = None /\ lock = None /\ epoch = 0
  /\ thread = [w \in Worker |-> Idle]
  /\ live = {} /\ model = [s \in Server |-> None]
  /\ stopping = "no" /\ victim = None
  /\ quiet = FALSE

(***************************************************************************)
(* A transcription thread.                                                 *)
(***************************************************************************)
Goto(w, label) == thread' = [thread EXCEPT ![w].pc = label]

(* The lock is released with the answer, whatever it is.                   *)
Answer(w) == thread' = [thread EXCEPT ![w] = Idle] /\ lock' = None

Call(w) ==
  /\ thread[w].pc = "idle"
  /\ \E m \in Model :
       thread' = [thread EXCEPT ![w].pc = "waiting", ![w].want = m]
  /\ UNCHANGED <<lock, servers, gtk>>

(* check_work fails while another thread has the lock.                     *)
GiveUp(w) ==
  /\ thread[w].pc = "waiting"
  /\ thread' = [thread EXCEPT ![w] = Idle]
  /\ UNCHANGED <<lock, servers, gtk>>

Acquire(w) ==
  /\ thread[w].pc = "waiting" /\ lock = None
  /\ lock' = w
  /\ Goto(w, "locked")
  /\ UNCHANGED <<servers, gtk>>

ReadEpoch(w) ==
  /\ thread[w].pc = "locked"
  /\ thread' = [thread EXCEPT ![w].pc = "take", ![w].started = epoch]
  /\ quiet' = FALSE
  /\ UNCHANGED <<lock, servers, epoch, stopping, victim>>

(* Mutant: a server is reused whatever it was started with.                *)
ReusableAny(w) == slot \in live /\ thread[w].want \in Model

(* The running server matches the request and still lives.                 *)
Reusable(w) == slot \in live /\ model[slot] = thread[w].want

(* Take the server out of the slot; kill one that cannot be reused.        *)
TakeServer(w) ==
  /\ thread[w].pc = "take"
  /\ slot' = None
  /\ \/ /\ Reusable(w)
        /\ thread' = [thread EXCEPT ![w].pc = "install", ![w].mine = slot]
        /\ UNCHANGED live
     \/ ~Reusable(w) /\ Kill(slot) /\ Goto(w, "spawn")
  /\ UNCHANGED <<lock, model, gtk>>

(* spawn_server: its deadline may have passed before the process starts.   *)
Spawn(w) ==
  /\ thread[w].pc = "spawn"
  /\ \/ \E s \in Free :
          /\ live' = live \cup {s}
          /\ model' = [model EXCEPT ![s] = thread[w].want]
          /\ thread' = [thread EXCEPT ![w].pc = "starting", ![w].mine = s]
          /\ UNCHANGED lock
     \/ Answer(w) /\ UNCHANGED <<live, model>>
  /\ UNCHANGED <<slot, epoch, stopping, victim, quiet>>

(* Mutant: a server whose start was given up is left running.              *)
LeaveStarting(w) == live' = live /\ w \in Worker

(* The process is killed before its start is given up.                     *)
StopStarting(w) == Kill(thread[w].mine)

(* The health wait ends with a ready server, a dead one, or too late.      *)
Startup(w) ==
  /\ thread[w].pc = "starting"
  /\ \/ thread[w].mine \in live /\ Goto(w, "install") /\ UNCHANGED <<lock, live>>
     \/ thread[w].mine \notin live /\ Answer(w) /\ UNCHANGED live
     \/ StopStarting(w) /\ Answer(w)
  /\ UNCHANGED <<slot, model, gtk>>

(* Mutant: the epoch is not compared again.                                *)
CurrentAlways(w) == thread[w].started <= epoch

(* No shutdown since the request read the epoch.                           *)
Current(w) == thread[w].started = epoch

(* install_running: compare and insert are one critical section.           *)
Install(w) ==
  /\ thread[w].pc = "install"
  /\ \/ /\ Current(w)
        /\ slot' = thread[w].mine /\ Goto(w, "request")
        /\ UNCHANGED <<lock, live>>
     \/ ~Current(w) /\ Kill(thread[w].mine) /\ Answer(w) /\ UNCHANGED slot
  /\ UNCHANGED <<model, gtk>>

(* Mutant: a connection that fails is tried again and again.               *)
MayRetryForever(w) == thread[w].retried \in BOOLEAN

(* One respawn and retry, for connection failures only.                    *)
MayRetry(w) == ~thread[w].retried

(* The HTTP request: an answer of the server, a refused or lost            *)
(* connection, or a final error (cancelled, deadline, HTTP error).         *)
Request(w) ==
  /\ thread[w].pc = "request"
  /\ \/ thread[w].mine \in live /\ Answer(w)
     \/ MayRetry(w) /\ Goto(w, "retry") /\ UNCHANGED lock
     \/ Goto(w, "cleanup") /\ UNCHANGED lock
  /\ UNCHANGED <<servers, gtk>>

(* A shutdown or a cancelled token ends the request here.                  *)
Retry(w) ==
  /\ thread[w].pc = "retry"
  /\ \/ Current(w) /\ Goto(w, "respawn") /\ UNCHANGED lock
     \/ Answer(w)
  /\ UNCHANGED <<servers, gtk>>

Respawn(w) ==
  /\ thread[w].pc = "respawn"
  /\ slot' = None /\ Kill(slot)
  /\ thread' = [thread EXCEPT ![w].pc = "spawn", ![w].retried = TRUE]
  /\ UNCHANGED <<lock, model, gtk>>

(* After an error the server may still be busy: it is killed before the    *)
(* lock is released.                                                       *)
Cleanup(w) ==
  /\ thread[w].pc = "cleanup"
  /\ slot' = None /\ Kill(slot)
  /\ Answer(w)
  /\ UNCHANGED <<model, gtk>>

(***************************************************************************)
(* The GTK thread and the server processes.                                *)
(***************************************************************************)

(* shutdown_all, on a backend switch or at exit.                           *)
ShutdownBump ==
  /\ stopping = "no" /\ epoch < MaxEpoch
  /\ epoch' = epoch + 1
  /\ stopping' = "bumped"
  /\ quiet' = TRUE
  /\ UNCHANGED <<lock, thread, servers, victim>>

ShutdownTake ==
  /\ stopping = "bumped"
  /\ victim' = slot /\ slot' = None
  /\ stopping' = "kill"
  /\ UNCHANGED <<lock, thread, live, model, epoch, quiet>>

ShutdownKill ==
  /\ stopping = "kill"
  /\ Kill(victim)
  /\ victim' = None /\ stopping' = "no"
  /\ UNCHANGED <<lock, thread, slot, model, epoch, quiet>>

(* A server dies by itself: the OOM killer is the realistic case.          *)
ServerDies ==
  /\ \E s \in live : Kill(s)
  /\ UNCHANGED <<lock, thread, slot, model, gtk>>

-----------------------------------------------------------------------------
Work(w) ==
  \/ GiveUp(w) \/ Acquire(w) \/ ReadEpoch(w) \/ TakeServer(w) \/ Spawn(w)
  \/ Startup(w) \/ Install(w) \/ Request(w) \/ Retry(w) \/ Respawn(w)
  \/ Cleanup(w)

Shutdown == ShutdownBump \/ ShutdownTake \/ ShutdownKill

Next == (\E w \in Worker : Call(w) \/ Work(w)) \/ Shutdown \/ ServerDies

Spec == Init /\ [][Next]_vars

(* Threads run, and every wait of theirs has a deadline.                   *)
FairSpec ==
  /\ Spec
  /\ \A w \in Worker : WF_vars(Work(w))
  /\ WF_vars(ShutdownTake \/ ShutdownKill)

-----------------------------------------------------------------------------
(* The types of the variables.                                             *)
TypeOK ==
  /\ slot \in Server \cup {None} /\ victim \in Server \cup {None}
  /\ lock \in Worker \cup {None} /\ epoch \in Nat
  /\ thread \in [Worker -> Thread]
  /\ live \in SUBSET Server /\ model \in [Server -> Model \cup {None}]
  /\ stopping \in {"no", "bumped", "kill"}
  /\ quiet \in BOOLEAN

(* No server process is leaked: every one that runs is in the slot, is     *)
(* being started or installed by the thread that will install or kill it,  *)
(* or is about to be killed by shutdown_all.                               *)
NoOrphan ==
  \A s \in live : s \in {slot, victim} \/ \E w \in Worker : s \in Owned(w)

(* "Keeps ONE warm sidecar server process alive": besides a server that    *)
(* shutdown_all is about to kill, at most one runs, so its weights are in  *)
(* memory once.                                                            *)
OneServer == \A s, t \in live \ {victim} : s = t

(* A request that read the epoch before a shutdown installs nothing after  *)
(* it: from the end of shutdown_all the slot stays empty until a thread    *)
(* reads the new epoch.                                                    *)
ShutdownSticks == quiet /\ stopping = "no" => slot = None

(* A request is only sent to a server that was started with its model.     *)
RightModel ==
  \A w \in Worker :
    thread[w].pc = "request" => model[thread[w].mine] = thread[w].want

(* Every request is answered: no endless retry, no thread that waits for   *)
(* good.                                                                   *)
RequestsEnd ==
  \A w \in Worker : (thread[w].pc # "idle") ~> (thread[w].pc = "idle")

(* There is one server at most, some thread or the slot will still kill    *)
(* it, and no request is ever sent to one of another model.                *)
ServerSafety ==
  TypeOK /\ NoOrphan /\ OneServer /\ RightModel
=============================================================================
