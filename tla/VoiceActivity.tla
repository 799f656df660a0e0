---------------------------- MODULE VoiceActivity ----------------------------
(***************************************************************************)
(* The voice-activity pass before a Whisper decode (transcription/vad.rs,  *)
(* and its place in transcription/engine.rs): several jobs, the panel's,   *)
(* the window's and the REST API's, share one cached model behind one      *)
(* lock, which a job only tries, so that it can be cancelled meanwhile.    *)
(*                                                                         *)
(* The model's file is external: a package update replaces or removes it.  *)
(* A replaced file never has the identity of an earlier one.               *)
(***************************************************************************)
EXTENDS Naturals

CONSTANTS
  Job,        (* The decodes under way.                                    *)
  MaxFiles    (* Bound: model files over time; 0 stands for none.          *)

ASSUME VoiceAssumption == MaxFiles \in Nat \ {0} /\ 0 \notin Job

VARIABLES
  file,       (* The model's file, or 0.                                   *)
  latest,     (* How many files there have been.                           *)
  cache,      (* The cached context: the identity it is kept under, the    *)
              (* file it was read from, and whether a job died in it.      *)
  holder,     (* The job that holds the lock.                              *)
  poisoned,   (* A job has died with it.                                   *)
  at,         (* Where each job is.                                        *)
  aborted,    (* Its token.                                                *)
  seen,       (* The identity it has read.                                 *)
  since,      (* The file when it got the lock.                            *)
  verdict     (* What its span is of: "all", or a context.                 *)

voiceVars == <<file, latest, cache, holder, poisoned, at, aborted, seen, since, verdict>>

Free == 0
NoContext == [as |-> 0, of |-> 0, hurt |-> FALSE]
NoVerdict == [by |-> "none", of |-> 0, hurt |-> FALSE]
All == [by |-> "all", of |-> 0, hurt |-> FALSE]
Holding == {"locked", "identified", "loaded"}

(* The types of the model file, the cached context with its lock, and the  *)
(* jobs that use it.                                                       *)
VoiceTypeOK ==
  /\ file \in 0..latest /\ latest \in 0..MaxFiles
  /\ cache \in [as : 0..latest, of : 0..latest, hurt : BOOLEAN]
  /\ holder \in Job \cup {Free} /\ poisoned \in BOOLEAN
  /\ at \in [Job -> {"idle", "waiting", "decoding"} \cup Holding]
  /\ \A j \in Job : at[j] \in Holding <=> holder = j
  /\ aborted \in [Job -> BOOLEAN]
  /\ seen \in [Job -> 0..latest] /\ since \in [Job -> 0..latest]

VoiceInit ==
  /\ latest = 1 /\ file \in {0, 1} /\ cache = NoContext
  /\ holder = Free /\ poisoned = FALSE
  /\ at = [j \in Job |-> "idle"] /\ aborted = [j \in Job |-> FALSE]
  /\ seen = [j \in Job |-> 0] /\ since = [j \in Job |-> 0]
  /\ verdict = [j \in Job |-> NoVerdict]

------------------------------------------------------------------------------
Update ==
  /\ \/ file' = 0 /\ file # 0 /\ UNCHANGED latest
     \/ latest < MaxFiles /\ latest' = latest + 1 /\ file' = latest'
  /\ UNCHANGED <<cache, holder, poisoned, at, aborted, seen, since, verdict>>

Abort(j) ==
  /\ at[j] # "idle" /\ ~aborted[j] /\ aborted' = [aborted EXCEPT ![j] = TRUE]
  /\ UNCHANGED <<file, latest, cache, holder, poisoned, at, seen, since, verdict>>

Begin(j) ==
  /\ at[j] = "idle" /\ at' = [at EXCEPT ![j] = "waiting"]
  /\ aborted' = [aborted EXCEPT ![j] = FALSE]
  /\ verdict' = [verdict EXCEPT ![j] = NoVerdict]
  /\ UNCHANGED <<file, latest, cache, holder, poisoned, seen, since>>

(* What a cancelled job forgets, wherever it notices.                      *)
Forgotten(j) ==
  /\ seen' = [seen EXCEPT ![j] = 0] /\ since' = [since EXCEPT ![j] = 0]

Leaves(j, where) ==
  at' = [at EXCEPT ![j] = IF aborted[j] THEN "idle" ELSE where]

(* Mutant: the job waits for the lock, and looks at its token after.       *)
GiveUpWithLock(j) ==
  /\ at[j] = "waiting" /\ aborted[j] /\ holder = Free
  /\ at' = [at EXCEPT ![j] = "idle"]
  /\ UNCHANGED <<file, latest, cache, holder, poisoned, aborted, seen, since, verdict>>

(* Every 20 ms, before it tries the lock again.                            *)
GiveUp(j) ==
  /\ at[j] = "waiting" /\ aborted[j]
  /\ at' = [at EXCEPT ![j] = "idle"]
  /\ UNCHANGED <<file, latest, cache, holder, poisoned, aborted, seen, since, verdict>>

(* Mutant: a lock whose job died is taken with what it left.               *)
TryLockPoisoned(j) ==
  /\ at[j] = "waiting" /\ ~aborted[j] /\ holder = Free
  /\ at' = [at EXCEPT ![j] = "locked"] /\ holder' = j
  /\ since' = [since EXCEPT ![j] = file]
  /\ poisoned' = FALSE
  /\ UNCHANGED <<file, latest, cache, aborted, seen, verdict>>

TryLock(j) ==
  /\ at[j] = "waiting" /\ ~aborted[j] /\ holder = Free
  /\ at' = [at EXCEPT ![j] = "locked"] /\ holder' = j
  /\ since' = [since EXCEPT ![j] = file]
  /\ poisoned' = FALSE /\ cache' = IF poisoned THEN NoContext ELSE cache
  /\ UNCHANGED <<file, latest, aborted, seen, verdict>>

(* Mutant: a cancelled job ends with the lock.                             *)
PassesHolding(j, v) ==
  /\ holder' = (IF aborted[j] THEN j ELSE Free) /\ Leaves(j, "decoding") /\ Forgotten(j)
  /\ verdict' = [verdict EXCEPT ![j] = IF aborted[j] THEN NoVerdict ELSE v]
  /\ UNCHANGED <<file, latest, poisoned, aborted>>

(* The pass is over and the lock released; a job cancelled meanwhile ends. *)
Passes(j, v) ==
  /\ holder' = Free /\ Leaves(j, "decoding") /\ Forgotten(j)
  /\ verdict' = [verdict EXCEPT ![j] = IF aborted[j] THEN NoVerdict ELSE v]
  /\ UNCHANGED <<file, latest, poisoned, aborted>>

(* No model, or it went before its identity was read: the whole clip.      *)
Missing(j) ==
  /\ at[j] = "locked" /\ file = 0 /\ cache' = NoContext /\ Passes(j, All)

(* A clip of invalid samples is not looked at.                             *)
NotLookedAt(j) ==
  /\ at[j] = "locked" /\ UNCHANGED cache /\ Passes(j, All)

Identify(j) ==
  /\ at[j] = "locked" /\ file # 0
  /\ seen' = [seen EXCEPT ![j] = file] /\ at' = [at EXCEPT ![j] = "identified"]
  /\ UNCHANGED <<file, latest, cache, holder, poisoned, aborted, since, verdict>>

(* Mutant: a model once loaded is kept.                                    *)
LoadOnce(j) ==
  /\ at[j] = "identified" /\ at' = [at EXCEPT ![j] = "loaded"]
  /\ IF cache # NoContext THEN UNCHANGED cache
     ELSE file # 0 /\ cache' = [as |-> seen[j], of |-> file, hurt |-> FALSE]
  /\ UNCHANGED <<file, latest, holder, poisoned, aborted, seen, since, verdict>>

(* Another identity means another model, read from what is there now.      *)
Load(j) ==
  /\ at[j] = "identified" /\ at' = [at EXCEPT ![j] = "loaded"]
  /\ IF cache.as = seen[j] THEN UNCHANGED cache
     ELSE file # 0 /\ cache' = [as |-> seen[j], of |-> file, hurt |-> FALSE]
  /\ UNCHANGED <<file, latest, holder, poisoned, aborted, seen, since, verdict>>

(* The file cannot be read as a model.                                     *)
LoadFails(j) ==
  /\ at[j] = "identified" /\ cache.as # seen[j]
  /\ cache' = NoContext /\ Passes(j, All)

Infer(j) ==
  /\ at[j] = "loaded" /\ UNCHANGED cache
  /\ Passes(j, [by |-> "context", of |-> cache.of, hurt |-> cache.hurt])

InferFails(j) ==
  /\ at[j] = "loaded" /\ cache' = NoContext /\ Passes(j, All)

(* The worker catches the panic; the lock is poisoned.                     *)
Dies(j) ==
  /\ at[j] \in Holding /\ at' = [at EXCEPT ![j] = "idle"]
  /\ holder' = Free /\ poisoned' = TRUE
  /\ cache' = IF cache = NoContext THEN cache ELSE [cache EXCEPT !.hurt = TRUE]
  /\ Forgotten(j)
  /\ UNCHANGED <<file, latest, aborted, verdict>>

(* The decode of the span, to its end or until the token is seen.          *)
Decode(j) ==
  /\ at[j] = "decoding" /\ at' = [at EXCEPT ![j] = "idle"]
  /\ UNCHANGED <<file, latest, cache, holder, poisoned, aborted, seen, since, verdict>>

VoiceNext ==
  \/ Update
  \/ \E j \in Job :
       \/ Abort(j) \/ Begin(j) \/ GiveUp(j) \/ TryLock(j)
       \/ Missing(j) \/ NotLookedAt(j) \/ Identify(j)
       \/ Load(j) \/ LoadFails(j) \/ Infer(j) \/ InferFails(j)
       \/ Dies(j) \/ Decode(j)

------------------------------------------------------------------------------
(* A clip is judged by the model that was there when its job got the lock, *)
(* or by a later one: never by one replaced before.                        *)
ModelIsCurrent ==
  \A j \in Job : at[j] = "loaded" => cache.of >= since[j]

(* And never in a context that a job died in.                              *)
ContextUnhurt ==
  \A j \in Job : verdict[j].by = "context" => ~verdict[j].hurt

(* A cancelled job does not wait for another clip's pass to end.           *)
CancelledGivesUp ==
  \A j \in Job : at[j] = "waiting" /\ aborted[j] ~> at[j] # "waiting"

(* Speech is found with the current model, in a context no job has died    *)
(* in.                                                                     *)
VoiceSafety ==
  VoiceTypeOK /\ ModelIsCurrent /\ ContextUnhurt
=============================================================================
