---------------------------- MODULE ParakeetWorker ---------------------------
(***************************************************************************)
(* The warm Parakeet worker: one private process behind an anonymous       *)
(* socket, shared by the transcription threads, and shutdown on the GTK    *)
(* thread.                                                                 *)
(*                                                                         *)
(* A call reads the epoch first and only then competes for the request     *)
(* mutex, which it holds to its end.  The running mutex protects the slot  *)
(* for a look, a take or an insert, each one step here.  The socket is a   *)
(* stream: `wire' holds the calls whose answers are, or will be, in it, so *)
(* an unread answer would be the next caller's.                            *)
(*                                                                         *)
(* A thread may find its token aborted or its deadline past whenever it    *)
(* checks, and a worker may die at any time.                               *)
(***************************************************************************)
EXTENDS Integers, Sequences, FiniteSets

CONSTANTS
  Thread,     (* Transcription threads.                                    *)
  Model,      (* Worker specifications: file identities and threads.       *)
  Server,     (* Process ids.                                              *)
  MaxEpoch,   (* Shutdowns.  Bounds the model.                             *)
  MaxCalls,   (* Calls of transcribe.  Bounds the model.                   *)
  None

ASSUME WorkerAssumption ==
  /\ MaxEpoch \in Nat /\ MaxCalls \in Nat
  /\ None \notin Server /\ None \notin Thread /\ None \notin Model

VARIABLES
  slot,       (* running: the installed worker, or None.                   *)
  request,    (* The holder of the request mutex, or None.                 *)
  epoch,      (* epoch.                                                    *)
  call,       (* Each thread's place in transcribe and its locals.         *)
  live,       (* Worker processes that run.                                *)
  model,      (* The specification each worker was started with.           *)
  wire,       (* Per worker, the calls written to it and not yet read.     *)
  stopping,   (* Where the GTK thread is in shutdown.                      *)
  victim,     (* The worker it is about to drop, or None.                  *)
  calls,      (* Calls so far.                                             *)
  condemned   (* The workers that ran when the last shutdown began.        *)

processes == <<live, model, wire>>
gtk == <<stopping, victim>>
vars == <<slot, request, epoch, call, processes, gtk, calls, condemned>>

Holding == {"connection", "stale", "spawn", "handshake", "publish", "write",
            "read", "failed"}

Call ==
  [pc: Holding \cup {"idle", "waiting", "done"}, id: Nat, want: Model \cup {None},
   epoch: Nat, mine: Server \cup {None}, answer: Nat]

Idle ==
  [pc |-> "idle", id |-> 0, want |-> None, epoch |-> 0, mine |-> None, answer |-> 0]

(* A process takes its recognizer and its end of the socket with it.       *)
Kill(s) ==
  /\ live' = live \ {s}
  /\ model' = [x \in Server |-> IF x = s THEN None ELSE model[x]]
  /\ wire' = [x \in Server |-> IF x = s THEN <<>> ELSE wire[x]]

(* Mutant: a failed spawn is taken for a process.                          *)
FreeOrNone == (Server \ live) \cup {None}

(* A process id is used again once the process was reaped.                 *)
Free == Server \ (live \cup {slot, victim} \cup {call[t].mine : t \in Thread})

Init ==
  /\ slot = None /\ request = None /\ epoch = 0
  /\ call = [t \in Thread |-> Idle]
  /\ live = {} /\ model = [s \in Server |-> None] /\ wire = [s \in Server |-> <<>>]
  /\ stopping = "no" /\ victim = None /\ calls = 0 /\ condemned = {}

(***************************************************************************)
(* A transcription thread.                                                 *)
(***************************************************************************)
Goto(t, pc) == call' = [call EXCEPT ![t].pc = pc]

(* Mutant: a thread that got the mutex reads the epoch afresh.             *)
CurrentAlways(t) == call[t].epoch <= epoch

(* check passes only while the epoch is the one the call began with.       *)
Current(t) == call[t].epoch = epoch

Transcribe(t, m) ==
  /\ call[t].pc = "idle" /\ calls < MaxCalls
  /\ calls' = calls + 1
  /\ call' = [call EXCEPT ![t] = [Idle EXCEPT !.pc = "waiting", !.id = calls + 1,
                                    !.want = m, !.epoch = epoch]]
  /\ UNCHANGED <<slot, request, epoch, processes, gtk, condemned>>

(* check fails while another thread holds the mutex.                       *)
GiveUp(t) ==
  /\ call[t].pc = "waiting"
  /\ call' = [call EXCEPT ![t] = Idle]
  /\ UNCHANGED <<slot, request, epoch, processes, gtk, calls, condemned>>

Lock(t) ==
  /\ call[t].pc = "waiting" /\ Current(t) /\ request = None
  /\ request' = t /\ Goto(t, "connection")
  /\ UNCHANGED <<slot, epoch, processes, gtk, calls, condemned>>

(* check fails, or the socket does.                                        *)
Fail(t) ==
  /\ call[t].pc \in {"connection", "stale", "spawn", "write", "read"}
  /\ call' = [call EXCEPT ![t].pc = "failed", ![t].mine = None]
  /\ Kill(IF call[t].pc = "stale" THEN call[t].mine ELSE None)
  /\ UNCHANGED <<slot, request, epoch, gtk, calls, condemned>>

(* Mutant: a worker is reused whatever model it was started with.          *)
ReusableAny(t) == slot \in live /\ call[t].want \in Model

Reusable(t) == slot \in live /\ model[slot] = call[t].want

(* Look and take under the running mutex.                                  *)
Connection(t) ==
  /\ call[t].pc = "connection" /\ Current(t)
  /\ IF Reusable(t)
       THEN /\ call' = [call EXCEPT ![t].pc = "write", ![t].mine = slot]
            /\ UNCHANGED slot
       ELSE /\ call' = [call EXCEPT ![t].pc = "stale", ![t].mine = slot]
            /\ slot' = None
  /\ UNCHANGED <<request, epoch, processes, gtk, calls, condemned>>

DropStale(t) ==
  /\ call[t].pc = "stale"
  /\ Kill(call[t].mine)
  /\ call' = [call EXCEPT ![t].pc = "spawn", ![t].mine = None]
  /\ UNCHANGED <<slot, request, epoch, gtk, calls, condemned>>

(* The new process's socket is empty.                                      *)
Spawn(t) ==
  /\ call[t].pc = "spawn"
  /\ \E s \in Free :
       /\ live' = live \cup {s}
       /\ model' = [model EXCEPT ![s] = call[t].want]
       /\ wire' = [wire EXCEPT ![s] = <<>>]
       /\ condemned' = condemned \ {s}
       /\ call' = [call EXCEPT ![t].pc = "handshake", ![t].mine = s]
  /\ UNCHANGED <<slot, request, epoch, gtk, calls>>

(* Mutant: a worker whose start is given up is left running.               *)
AbandonAlive(t) ==
  /\ call[t].pc \in {"handshake", "publish"}
  /\ call' = [call EXCEPT ![t].pc = "failed", ![t].mine = None]
  /\ UNCHANGED <<slot, request, epoch, processes, gtk, calls, condemned>>

(* Leaving connection() drops the worker that was not published.           *)
Abandon(t) ==
  /\ call[t].pc \in {"handshake", "publish"}
  /\ Kill(call[t].mine)
  /\ call' = [call EXCEPT ![t].pc = "failed", ![t].mine = None]
  /\ UNCHANGED <<slot, request, epoch, gtk, calls, condemned>>

Handshake(t) ==
  /\ call[t].pc = "handshake" /\ Current(t) /\ call[t].mine \in live
  /\ Goto(t, "publish")
  /\ UNCHANGED <<slot, request, epoch, processes, gtk, calls, condemned>>

(* The epoch is compared and the slot filled under the running mutex.      *)
Publish(t) ==
  /\ call[t].pc = "publish" /\ Current(t)
  /\ slot' = call[t].mine /\ Goto(t, "write")
  /\ UNCHANGED <<request, epoch, processes, gtk, calls, condemned>>

Write(t) ==
  /\ call[t].pc = "write" /\ Current(t)
  /\ wire' = [wire EXCEPT ![call[t].mine] = Append(@, call[t].id)]
  /\ Goto(t, "read")
  /\ UNCHANGED <<slot, request, epoch, live, model, gtk, calls, condemned>>

(* The worker serves its requests in order.                                *)
Read(t) ==
  LET s == call[t].mine IN
  /\ call[t].pc = "read" /\ Current(t) /\ s \in live
  /\ call' = [call EXCEPT ![t].pc = "done", ![t].answer = Head(wire[s])]
  /\ wire' = [wire EXCEPT ![s] = Tail(@)]
  /\ request' = None
  /\ UNCHANGED <<slot, epoch, live, model, gtk, calls, condemned>>

Return(t) ==
  /\ call[t].pc = "done"
  /\ call' = [call EXCEPT ![t] = Idle]
  /\ UNCHANGED <<slot, request, epoch, processes, gtk, calls, condemned>>

(* Mutant: a worker that only was cancelled is kept warm.                  *)
CleanupKeeps(t) ==
  /\ call[t].pc = "failed"
  /\ slot' = (IF slot \in live THEN slot ELSE None)
  /\ call' = [call EXCEPT ![t] = Idle] /\ request' = None
  /\ UNCHANGED <<epoch, processes, gtk, calls, condemned>>

(* Mutant: the mutex is not released on the error path.                    *)
CleanupLocked(t) ==
  /\ call[t].pc = "failed"
  /\ slot' = None /\ Kill(slot)
  /\ call' = [call EXCEPT ![t] = Idle]
  /\ UNCHANGED <<request, epoch, gtk, calls, condemned>>

(* After any error the worker may be in the middle of something: it goes.  *)
Cleanup(t) ==
  /\ call[t].pc = "failed"
  /\ slot' = None /\ Kill(slot)
  /\ call' = [call EXCEPT ![t] = Idle] /\ request' = None
  /\ UNCHANGED <<epoch, gtk, calls, condemned>>

(***************************************************************************)
(* The GTK thread and the worker processes.                                *)
(***************************************************************************)
ShutdownBump ==
  /\ stopping = "no" /\ epoch < MaxEpoch
  /\ epoch' = epoch + 1 /\ stopping' = "bumped" /\ condemned' = live
  /\ UNCHANGED <<slot, request, call, processes, victim, calls>>

ShutdownTake ==
  /\ stopping = "bumped"
  /\ victim' = slot /\ slot' = None /\ stopping' = "drop"
  /\ UNCHANGED <<request, epoch, call, processes, calls, condemned>>

ShutdownDrop ==
  /\ stopping = "drop"
  /\ Kill(victim) /\ victim' = None /\ stopping' = "no"
  /\ UNCHANGED <<slot, request, epoch, call, calls, condemned>>

WorkerDies ==
  /\ \E s \in live : Kill(s)
  /\ UNCHANGED <<slot, request, epoch, call, gtk, calls, condemned>>

-----------------------------------------------------------------------------
Work(t) ==
  \/ GiveUp(t) \/ Lock(t) \/ Fail(t) \/ Connection(t) \/ DropStale(t)
  \/ Spawn(t) \/ Abandon(t) \/ Handshake(t) \/ Publish(t) \/ Write(t)
  \/ Read(t) \/ Return(t) \/ Cleanup(t)

Shutdown == ShutdownTake \/ ShutdownDrop

Next ==
  \/ \E t \in Thread : Work(t) \/ \E m \in Model : Transcribe(t, m)
  \/ ShutdownBump \/ Shutdown \/ WorkerDies

(* Threads run; every wait ends at a deadline.                             *)
Spec ==
  /\ Init /\ [][Next]_vars
  /\ \A t \in Thread : WF_vars(Work(t))
  /\ WF_vars(Shutdown)

-----------------------------------------------------------------------------
(* The types of the slot, the request mutex, the threads' places and the   *)
(* workers' pipes.                                                         *)
TypeOK ==
  /\ slot \in Server \cup {None} /\ request \in Thread \cup {None}
  /\ epoch \in Nat /\ calls \in Nat
  /\ call \in [Thread -> Call]
  /\ live \subseteq Server /\ model \in [Server -> Model \cup {None}]
  /\ wire \in [Server -> Seq(Nat)]
  /\ stopping \in {"no", "bumped", "drop"} /\ victim \in Server \cup {None}
  /\ condemned \subseteq Server

(* A caller gets the transcript of its own audio: whatever was cancelled   *)
(* or failed before it left nothing in the stream it reads.                *)
AnswerIsOwn == \A t \in Thread : call[t].pc = "done" => call[t].answer = call[t].id

(* Audio is only decoded by the model that was asked for.                  *)
RightModel ==
  \A t \in Thread :
    call[t].pc \in {"write", "read"} /\ call[t].mine \in live =>
      model[call[t].mine] = call[t].want

(* Every process belongs to the slot, to shutdown, or to the one thread    *)
(* that will publish or kill it.                                           *)
NoOrphan ==
  \A s \in live :
    s \in {slot, victim} \/ \E t \in Thread :
      s = call[t].mine /\ call[t].pc \in {"stale", "handshake", "publish"}

(* The request mutex is never held for good.                               *)
RequestFreed == \A t \in Thread : (request = t) ~> (request # t)

(* What each process is for the slot.                                      *)
RoleOf(s) ==
  IF s \notin live THEN "none"
  ELSE IF s = slot THEN "warm"
  ELSE IF \E t \in Thread : s = call[t].mine /\ call[t].pc \in {"handshake", "publish"}
       THEN "starting"
  ELSE "leaving"

Slot == INSTANCE WarmSlot WITH
  role <- [s \in Server |-> RoleOf(s)],
  spent <- condemned,
  closing <- stopping # "no"

(* The worker keeps the promise of a warm slot, shutdown included.         *)
ImplementsWarmSlot == Slot!Spec

(* Each caller gets its own answer from its own model, and every process   *)
(* has someone who will end it.                                            *)
WorkerSafety ==
  TypeOK /\ AnswerIsOwn /\ RightModel /\ NoOrphan
=============================================================================
