------------------------------ MODULE EngineSlot -----------------------------
(***************************************************************************)
(* The Whisper engine slot: one loaded model shared by dictation, the main *)
(* window and the REST API, the loads that fill it, the decodes that use   *)
(* it, and the settings that choose it.                                    *)
(*                                                                         *)
(* A job is a thread: the window's loader, the preload of a hidden start,  *)
(* or a decode (the inference worker, the API's worker).  Loading a model, *)
(* decoding and writing take long, so each is a step of its own; a look at *)
(* the slot or a store into it is one step.  A handler on the GTK thread   *)
(* that saves a selection goes on in a second step, because other threads  *)
(* read the configuration and the slot in between.                         *)
(***************************************************************************)
EXTENDS Integers, FiniteSets

CONSTANTS
  Job,        (* Threads.                                                  *)
  Model,      (* Whisper models of the catalogue.                          *)
  Start,      (* The configuration the program starts with.                *)
  Variant,    (* The variant on disk that a model's base id resolves to.   *)
  NoJob,
  MaxActs     (* What the user does, decodes included.  Bounds the model.  *)

Config == [backend : {"whisper", "sidecar"}, model : Model, gpu : BOOLEAN, fallback : BOOLEAN]

ASSUME EngineAssumption ==
  /\ IsFiniteSet(Job) /\ NoJob \notin Job /\ MaxActs \in Nat
  /\ Variant \in [Model -> Model] /\ Start \in Config

VARIABLES
  cache,       (* CONFIG_CACHE: the selection part of the configuration.   *)
  downloaded,  (* Models on disk.                                          *)
  slot,        (* SharedEngine: the loaded engine.                         *)
  loading,     (* The job that holds LOAD_LOCK.                            *)
  job,         (* Each thread's place and locals.                          *)
  window,      (* Whether the main window exists.                          *)
  windowGpu,   (* use_gpu in the window's own copy of the configuration.   *)
  gtk,         (* Where the GTK thread is in a handler that edits.         *)
  generation,  (* model_load_generation.                                   *)
  answers,     (* What loader threads reported and the window has not read.*)
  status,      (* The status bar: its text and the model it names.         *)
  acts

engines == <<slot, loading, job>>
gui == <<window, windowGpu, gtk, generation, answers, status>>
vars == <<cache, downloaded, engines, gui, acts>>

(* Engines that are otherwise alike are told apart, as Arc::ptr_eq does.   *)
EngineId == 1 .. 2 * Cardinality(Job) + 1
Engine == [id : EngineId, model : Model, gpu : BOOLEAN, requested : BOOLEAN]
NoEngine == [id |-> 0]

Locked == {"check", "load", "publish"}
Stage == Locked \cup {"idle", "lock", "run", "rerun", "cpu", "swap"}

Idle == [pc |-> "idle", kind |-> "preload", config |-> Start, generation |-> 0,
         cancelled |-> FALSE, engine |-> NoEngine, cpu |-> NoEngine]

(* What is left of a handler that loads a model; a deletion's refreshes    *)
(* the window once more after it.                                          *)
Loads == {"load", "reload"}

AnyEngine == Engine \cup {NoEngine}

JobState ==
  [pc : Stage, kind : {"preload", "window", "decode"}, config : Config, generation : Nat,
   cancelled : BOOLEAN, engine : AnyEngine, cpu : AnyEngine]

(* The types of the cached configuration, the engine slot, the jobs and    *)
(* the window's copies of both.                                            *)
TypeOK ==
  /\ cache \in Config
  /\ downloaded \subseteq Model /\ slot \in AnyEngine
  /\ loading \in Job \cup {NoJob}
  /\ job \in [Job -> JobState]
  /\ \A j \in Job : (loading = j) <=> (job[j].pc \in Locked)
  /\ window \in BOOLEAN /\ windowGpu \in BOOLEAN
  /\ gtk \in [at : {"idle", "engine", "load", "reload"}, model : Model]
  /\ generation \in Nat
  /\ answers \subseteq [generation : Nat, model : Model, gpu : BOOLEAN, ok : BOOLEAN]
  /\ status \in [text : {"none", "loading", "ready", "sidecar"}, model : Model]
  /\ acts \in 0 .. MaxActs

AtRest == [at |-> "idle", model |-> Start.model]

(* A hidden start preloads; any other start opens the window.              *)
Init ==
  /\ cache = Start
  /\ downloaded \in SUBSET Model \ {{}}
  /\ slot = NoEngine
  /\ \/ job = [j \in Job |-> Idle]
     \/ /\ cache.backend = "whisper"
        /\ LET first == CHOOSE j \in Job : TRUE
           IN  job = [j \in Job |->
                        IF j = first THEN [Idle EXCEPT !.pc = "lock", !.config = cache] ELSE Idle]
  /\ loading = NoJob
  /\ window = FALSE /\ windowGpu = cache.gpu
  /\ gtk = AtRest
  /\ generation = 0 /\ answers = {}
  /\ status = [text |-> "none", model |-> Start.model]
  /\ acts = 0

(* Mutant: the compute choice is not part of the selection.                *)
SameModelOnly(a, b) == a.backend = b.backend /\ a.model = b.model

SameSelection(a, b) ==
  /\ a.backend = b.backend /\ a.model = b.model
  /\ a.gpu = b.gpu /\ a.fallback = b.fallback

(***************************************************************************)
(* load_engine.                                                            *)
(***************************************************************************)
Become(j, r) == job' = [job EXCEPT ![j] = r]

(* What others than j hold.  j's own engine, where it loads a second one,  *)
(* is on the GPU and the new one is not.                                   *)
EnginesInUse(j) ==
  {slot} \cup {job[k].engine : k \in Job \ {j}} \cup {job[k].cpu : k \in Job \ {j}}

NewEngine(j, model, gpu, asked) ==
  LET engine(i) == [id |-> i, model |-> model, gpu |-> gpu, requested |-> asked]
      unlike(i) == engine(i) \notin EnginesInUse(j)
  IN  engine(CHOOSE i \in EngineId : unlike(i))

(* The window ignores what an earlier load reports, so that is not kept.   *)
Tell(j, ok) ==
  answers' = IF job[j].kind = "window" /\ job[j].generation = generation
             THEN answers \cup {[generation |-> job[j].generation, model |-> job[j].config.model,
                                 gpu |-> job[j].config.gpu, ok |-> ok]}
             ELSE answers

(* Mutant: an error returns with the lock held.                            *)
LoadFailsLocked(j) == Tell(j, FALSE) /\ Become(j, Idle) /\ UNCHANGED <<slot, loading>>

LoadFails(j) == Tell(j, FALSE) /\ Become(j, Idle) /\ loading' = NoJob /\ UNCHANGED slot

(* Mutant: an engine found in the slot is returned with the lock held.     *)
LoadedLocked(j, e) ==
  /\ Tell(j, TRUE)
  /\ Become(j, IF job[j].kind = "decode" THEN [job[j] EXCEPT !.pc = "run", !.engine = e] ELSE Idle)
  /\ UNCHANGED loading

(* The engine goes to the decode that asked for it, published or not.      *)
Loaded(j, e) ==
  /\ Tell(j, TRUE)
  /\ Become(j, IF job[j].kind = "decode" THEN [job[j] EXCEPT !.pc = "run", !.engine = e] ELSE Idle)
  /\ loading' = NoJob

Polling(j) ==
  /\ job[j].pc = "lock"
  /\ \/ job[j].cancelled /\ Become(j, Idle) /\ UNCHANGED loading
     \/ /\ ~job[j].cancelled /\ loading = NoJob
        /\ loading' = j /\ Become(j, [job[j] EXCEPT !.pc = "check"])
  /\ UNCHANGED <<cache, downloaded, slot, gui, acts>>

(* Mutant: an engine on the CPU serves a user who forbids the fallback.    *)
ReusableAnyway(c, m) == slot # NoEngine /\ slot.model = m /\ slot.requested = c.gpu

Reusable(c, m) ==
  /\ slot # NoEngine /\ slot.model = m /\ slot.requested = c.gpu
  /\ slot.gpu \/ ~c.gpu \/ c.fallback

Resolved(m) == IF m \in downloaded THEN m ELSE Variant[m]

Check(j) ==
  LET c == job[j].config  m == Resolved(c.model)
  IN  /\ job[j].pc = "check"
      /\ \/ Reusable(c, c.model) /\ Loaded(j, slot) /\ UNCHANGED slot
         \/ ~Reusable(c, c.model) /\ m \notin downloaded /\ LoadFails(j)
         \/ /\ ~Reusable(c, c.model) /\ m \in downloaded /\ Reusable(c, m)
            /\ Loaded(j, slot) /\ UNCHANGED slot
         \/ /\ ~Reusable(c, c.model) /\ m \in downloaded /\ ~Reusable(c, m)
            /\ IF job[j].cancelled
               THEN LoadFails(j)
               ELSE /\ Become(j, [job[j] EXCEPT !.pc = "load", !.engine = NewEngine(j, m, c.gpu, c.gpu)])
                    /\ UNCHANGED <<slot, loading, answers>>
      /\ UNCHANGED <<cache, downloaded, window, windowGpu, gtk, generation, status, acts>>

(* The GPU load may fail where the CPU's does not.                         *)
Load(j) ==
  LET c == job[j].config
  IN  /\ job[j].pc = "load"
      /\ \/ LoadFails(j)
         \/ /\ ~job[j].cancelled
            /\ \E gpu \in {c.gpu} \cup IF c.fallback THEN {FALSE} ELSE {} :
                 Become(j, [job[j] EXCEPT !.pc = "publish",
                                !.engine = NewEngine(j, job[j].engine.model, gpu, c.gpu)])
            /\ UNCHANGED <<slot, loading, answers>>
      /\ UNCHANGED <<cache, downloaded, window, windowGpu, gtk, generation, status, acts>>

Publish(j) ==
  /\ job[j].pc = "publish"
  /\ slot' = IF SameSelection(cache, job[j].config) THEN job[j].engine ELSE slot
  /\ Loaded(j, job[j].engine)
  /\ UNCHANGED <<cache, downloaded, window, windowGpu, gtk, generation, status, acts>>

(***************************************************************************)
(* run_transcription_inner.                                                *)
(***************************************************************************)
StartDecode(j) ==
  /\ acts < MaxActs /\ acts' = acts + 1
  /\ job[j].pc = "idle" /\ cache.backend = "whisper"
  /\ Become(j, [Idle EXCEPT !.pc = "lock", !.kind = "decode", !.config = cache])
  /\ UNCHANGED <<cache, downloaded, slot, loading, gui>>

Cancel(j) ==
  /\ job[j].kind = "decode" /\ ~job[j].cancelled
  /\ Become(j, [job[j] EXCEPT !.cancelled = TRUE])
  /\ UNCHANGED <<cache, downloaded, slot, loading, gui, acts>>

(* A decode ends with a text, because it was cancelled, or with a failure; *)
(* the first two failures on the GPU are followed by another attempt.      *)
Run(j) ==
  /\ job[j].pc \in {"run", "rerun"}
  /\ \/ Become(j, Idle)
     \/ /\ job[j].pc = "run" /\ job[j].engine.gpu
        /\ Become(j, [job[j] EXCEPT !.pc = "rerun"])
     \/ /\ job[j].pc = "rerun" /\ job[j].config.fallback /\ ~job[j].cancelled
        /\ Become(j, [job[j] EXCEPT !.pc = "cpu"])
  /\ UNCHANGED <<cache, downloaded, slot, loading, gui, acts>>

(* Outside LOAD_LOCK.  The retry's own result does not matter here.        *)
LoadCpu(j) ==
  /\ job[j].pc = "cpu"
  /\ \/ Become(j, Idle)
     \/ LET e == job[j].engine
        IN  Become(j, [job[j] EXCEPT !.pc = "swap", !.cpu = NewEngine(j, e.model, FALSE, e.requested)])
  /\ UNCHANGED <<cache, downloaded, slot, loading, gui, acts>>

(* Mutant: the CPU engine goes into the slot whatever is in it.            *)
SwapAlways(j) ==
  /\ job[j].pc = "swap"
  /\ slot' = IF SameSelection(cache, job[j].config) THEN job[j].cpu ELSE slot
  /\ Become(j, Idle)
  /\ UNCHANGED <<cache, downloaded, loading, gui, acts>>

Swap(j) ==
  /\ job[j].pc = "swap"
  /\ slot' = IF SameSelection(cache, job[j].config) /\ slot = job[j].engine
             THEN job[j].cpu ELSE slot
  /\ Become(j, Idle)
  /\ UNCHANGED <<cache, downloaded, loading, gui, acts>>

(***************************************************************************)
(* The main window and its settings pages.                                 *)
(***************************************************************************)
Act ==
  /\ window /\ gtk.at = "idle" /\ acts < MaxActs
  /\ acts' = acts + 1

(* A handler of the window saves, and keeps a copy of what it saved; the   *)
(* settings pages only save.                                               *)
Save(c, then) ==
  /\ cache' = c
  /\ gtk' = [at |-> then, model |-> IF then \in Loads THEN c.model ELSE Start.model]
  /\ UNCHANGED <<engines, window, generation, answers, status>>

WindowSaves(c, then) == Save(c, then) /\ windowGpu' = c.gpu
PageSaves(c, then) == Save(c, then) /\ UNCHANGED windowGpu

ChooseEngine ==
  /\ Act /\ UNCHANGED downloaded
  /\ \E b \in {"whisper", "sidecar"} \ {cache.backend} :
       WindowSaves([cache EXCEPT !.backend = b], "engine")

ChooseModel ==
  /\ Act /\ UNCHANGED downloaded /\ cache.backend = "whisper"
  /\ \E m \in downloaded \ {cache.model} : WindowSaves([cache EXCEPT !.model = m], "load")

SetCompute ==
  /\ Act /\ UNCHANGED downloaded
  /\ \E gpu, fallback \in BOOLEAN :
       /\ (gpu = cache.gpu) # (fallback = cache.fallback)
       /\ PageSaves([cache EXCEPT !.gpu = gpu, !.fallback = fallback], "idle")

(* A download that finished selects its model, whatever the user chose     *)
(* meanwhile.                                                              *)
DownloadDone ==
  /\ Act
  /\ \E m \in Model \ downloaded :
       /\ downloaded' = downloaded \cup {m}
       /\ PageSaves([cache EXCEPT !.model = m], "load")

(* What sync_ui_from_config says of an engine.                             *)
SyncStatus(c, present) ==
  IF c.backend # "whisper" THEN [text |-> "sidecar", model |-> status.model]
  ELSE IF c.model \in present THEN [text |-> "loading", model |-> c.model]
  ELSE [text |-> "none", model |-> status.model]

(* handle_model_deleted.  Its refresh of the window comes last, after the  *)
(* load it asks for: "loading" stays until an answer comes, and none comes *)
(* where the slot held the model already.                                  *)
DeleteModel ==
  /\ Act
  /\ \E m \in downloaded :
       /\ downloaded' = downloaded \ {m}
       /\ \/ /\ m = cache.model /\ downloaded' # {}
             /\ WindowSaves([cache EXCEPT !.model = CHOOSE n \in downloaded' : TRUE], "reload")
          \/ /\ m = cache.model /\ downloaded' = {}
             /\ slot' = NoEngine /\ status' = SyncStatus(cache, downloaded')
             /\ UNCHANGED <<cache, loading, job, window, windowGpu, gtk, generation, answers>>
          \/ /\ m # cache.model
             /\ status' = SyncStatus(cache, downloaded')
             /\ UNCHANGED <<cache, engines, window, windowGpu, gtk, generation, answers>>

Ready(m) == [text |-> "ready", model |-> m]

(* on_model_loaded.                                                        *)
OnModelLoaded(m) == IF cache.backend = "whisper" THEN Ready(m) ELSE status

Shown(s) == IF gtk.at = "reload" THEN SyncStatus(cache, downloaded) ELSE s

(* load_model_by_id.  Its loader gets the model it was asked for, with the *)
(* rest of the configuration as it is.                                     *)
LoadModelById(m) ==
  \/ /\ m \notin downloaded
     /\ status' = Shown(status)
     /\ UNCHANGED <<job, generation, answers>>
  \/ /\ m \in downloaded
     /\ slot # NoEngine /\ slot.model = m /\ slot.gpu = windowGpu
     /\ status' = Shown(OnModelLoaded(m))
     /\ UNCHANGED <<job, generation, answers>>
  \/ /\ m \in downloaded
     /\ ~(slot # NoEngine /\ slot.model = m /\ slot.gpu = windowGpu)
     /\ generation' = generation + 1 /\ answers' = {}
     /\ status' = Shown([text |-> "loading", model |-> m])
     /\ \E j \in Job :
          /\ job[j].pc = "idle"
          /\ Become(j, [Idle EXCEPT !.pc = "lock", !.kind = "window", !.generation = generation + 1,
                                    !.config = [cache EXCEPT !.model = m]])

(* The rest of the engine switch: any other engine frees Whisper's memory. *)
FinishSwitch ==
  /\ gtk.at = "engine"
  /\ IF cache.backend # "whisper"
     THEN slot' = NoEngine /\ gtk' = AtRest
     ELSE gtk' = [at |-> "load", model |-> cache.model] /\ UNCHANGED slot
  /\ status' = SyncStatus(cache, downloaded)
  /\ UNCHANGED <<cache, downloaded, loading, job, window, windowGpu, generation, answers,
                 acts>>

FinishLoad ==
  /\ gtk.at \in Loads
  /\ LoadModelById(gtk.model)
  /\ gtk' = AtRest
  /\ UNCHANGED <<cache, downloaded, slot, loading, window, windowGpu, acts>>

(* The window's first presentation ends in load_selected_model.            *)
OpenWindow ==
  /\ ~window /\ window' = TRUE
  /\ LET m == Resolved(cache.model)
     IN  IF cache.backend = "whisper" /\ m \in downloaded
         THEN cache' = [cache EXCEPT !.model = m] /\ gtk' = [at |-> "load", model |-> m]
         ELSE UNCHANGED <<cache, gtk>>
  /\ status' = SyncStatus(cache', downloaded)
  /\ UNCHANGED <<downloaded, engines, windowGpu, generation, answers, acts>>

(* Mutant: the answer is believed whatever is selected by now.             *)
StillSelectedAlways(a) == TRUE

StillSelected(a) == cache.backend = "whisper" /\ cache.model = a.model /\ cache.gpu = a.gpu

(* An error is only a toast.                                               *)
Answer ==
  /\ gtk.at = "idle"
  /\ \E a \in answers :
       /\ answers' = answers \ {a}
       /\ status' = IF a.ok /\ StillSelected(a)
                    THEN OnModelLoaded(a.model) ELSE status
  /\ UNCHANGED <<cache, downloaded, engines, window, windowGpu, gtk, generation, acts>>

LoadStep(j) == Polling(j) \/ Check(j) \/ Load(j) \/ Publish(j)
DecodeStep(j) == Run(j) \/ LoadCpu(j) \/ Swap(j)
Handler == FinishSwitch \/ FinishLoad \/ Answer
User == ChooseEngine \/ ChooseModel \/ SetCompute \/ DownloadDone \/ DeleteModel \/ OpenWindow

Next ==
  \/ \E j \in Job : LoadStep(j) \/ DecodeStep(j) \/ StartDecode(j) \/ Cancel(j)
  \/ Handler \/ User

(* Threads and the main loop run on; the lock is polled, and few want it.  *)
Fairness ==
  /\ \A j \in Job : WF_vars(LoadStep(j) \/ DecodeStep(j))
  /\ WF_vars(Handler)

Spec == Init /\ [][Next]_vars /\ Fairness

------------------------------------------------------------------------------
(* A decode runs on the model its settings chose, or on that model's       *)
(* variant, never on the GPU when they say CPU, and on the CPU for a GPU   *)
(* choice only when they allow the fallback: whoever loaded the engine and *)
(* whatever was switched since (load_engine's three looks at the slot).    *)
DecodeOnAllowedEngine ==
  \A j \in Job : job[j].pc \in {"run", "rerun"} =>
    LET c == job[j].config  e == job[j].engine
    IN  /\ e.model \in {c.model, Variant[c.model]}
        /\ e.gpu => c.gpu
        /\ c.gpu /\ ~c.fallback => e.gpu

(* "An old load may finish, but cannot replace a newer model/compute       *)
(* selection" (config.rs, publish_for_selection): what enters the slot is  *)
(* what the configuration selects at that moment.                          *)
NewerSelectionWins ==
  [][slot' # slot /\ slot' # NoEngine =>
       /\ slot'.model \in {cache.model, Variant[cache.model]}
       /\ slot'.requested = cache.gpu
       /\ cache.gpu /\ ~cache.fallback => slot'.gpu]_vars

(* A CPU engine that a failing decode loaded takes only the place of the   *)
(* GPU engine of that model: it neither brings back what a switch or a     *)
(* deletion put away nor displaces what was loaded since.                  *)
SwapReplacesItsOwn ==
  [][slot' # slot /\ slot' # NoEngine /\ loading' = loading =>
       slot # NoEngine /\ slot.gpu /\ slot.model = slot'.model]_vars

(* The status bar names a model as ready only while it is the selected     *)
(* one, however many loads were started and answered late.                 *)
ReadyIsSelected ==
  /\ status.text = "ready" /\ gtk.at = "idle" /\ cache.backend = "whisper"
  => status.model = cache.model

(* Every load and every decode comes to its end, errors, cancellations and *)
(* the load lock included.                                                 *)
JobsEnd == \A j \in Job : job[j].pc # "idle" ~> job[j].pc = "idle"

(* Decodes run on an engine their settings allow, and the status bar       *)
(* calls only the selected model ready.                                    *)
EngineSafety ==
  TypeOK /\ DecodeOnAllowedEngine /\ ReadyIsSelected

(* Nothing enters the slot against the selection, neither a late load nor  *)
(* a CPU engine loaded for a failed decode.                                *)
SlotFollowsSelection ==
  NewerSelectionWins /\ SwapReplacesItsOwn
=============================================================================
