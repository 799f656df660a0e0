--------------------------- MODULE EngineSlot_proofs ---------------------------
(* The Whisper engine slot, for any finite number of threads, any models   *)
(* and any number of things the user does.                                 *)
EXTENDS EngineSlot, FiniteSetTheorems, TLAPS

(* A loaded engine is on the GPU only if that was asked for.               *)
SlotAsAsked == slot # NoEngine /\ slot.gpu => slot.requested

(* What a thread r loads or decodes with is an engine of its own           *)
(* configuration: of its model or that model's variant, asked for with its *)
(* compute choice, and where it was not put on the CPU by the fallback, on *)
(* the device of that choice.                                              *)
AsAsked(r) ==
  r.pc \in {"load", "publish", "run", "rerun", "cpu", "swap"} =>
    /\ r.engine \in Engine /\ r.engine.requested = r.config.gpu
    /\ r.engine.model \in {r.config.model, Variant[r.config.model]}
    /\ r.pc # "load" => /\ r.engine.gpu => r.config.gpu
                        /\ r.config.gpu /\ ~r.config.fallback => r.engine.gpu

(* A decode gets as far as an engine on the CPU only from one on the GPU,  *)
(* and if its settings allow the fallback.                                 *)
MayFallBack(r) ==
  /\ r.pc \in {"rerun", "cpu", "swap"} => r.engine.gpu
  /\ r.pc \in {"cpu", "swap"} => r.config.fallback
  /\ r.pc = "swap" =>
       /\ r.cpu \in Engine /\ ~r.cpu.gpu
       /\ r.cpu.model = r.engine.model /\ r.cpu.requested = r.engine.requested

JobsAsAsked == \A j \in Job : AsAsked(job[j]) /\ MayFallBack(job[j])

(* A handler that goes on after a save loads the model it saved; a load    *)
(* that leaves the status bar alone is not behind a "ready".               *)
HandlerKnows ==
  /\ gtk.at # "idle" => window
  /\ gtk.at \in Loads =>
       gtk.model = cache.model /\ (status.text = "ready" => gtk.model \in downloaded)

EngineInv == EngineSafety /\ SlotAsAsked /\ JobsAsAsked /\ HandlerKnows

(***************************************************************************)
(* A free engine id.                                                       *)
(***************************************************************************)

(* What the threads of J have in one place is no more than they are.       *)
LEMMA FewEngines ==
  ASSUME NEW J, IsFiniteSet(J), NEW f
  PROVE  /\ IsFiniteSet({f[k] : k \in J})
         /\ Cardinality({f[k] : k \in J}) <= Cardinality(J)
<1> DEFINE T == {f[k] : k \in J}
           g == [k \in J |-> f[k]]
<1>1. g \in Surjection(J, T)
  BY DEF Surjection
<1> QED BY <1>1, FS_Surjection

(* There are more ids than engines, so a new engine has one that tells it  *)
(* apart, and is what was asked for.                                       *)
LEMMA EngineIsNew ==
  ASSUME NEW j \in Job, NEW m \in Model, NEW g \in BOOLEAN, NEW a \in BOOLEAN
  PROVE  /\ NewEngine(j, m, g, a) \in Engine
         /\ NewEngine(j, m, g, a).model = m /\ NewEngine(j, m, g, a).gpu = g
         /\ NewEngine(j, m, g, a).requested = a
         /\ NewEngine(j, m, g, a) \notin EnginesInUse(j)
<1> DEFINE J == Job \ {j}
           n == Cardinality(Job)
           engine(i) == [id |-> i, model |-> m, gpu |-> g, requested |-> a]
           A == {job[k].engine : k \in J}
           C == {job[k].cpu : k \in J}
<1>1. IsFiniteSet(J) /\ n \in Nat /\ Cardinality(J) = n - 1
  BY EngineAssumption, FS_CardinalityType, FS_RemoveElement
<1>2. /\ IsFiniteSet(A) /\ Cardinality(A) <= n - 1
      /\ IsFiniteSet(C) /\ Cardinality(C) <= n - 1
  <2>1. A = {[i \in J |-> job[i].engine][k] : k \in J}
    OBVIOUS
  <2>2. C = {[i \in J |-> job[i].cpu][k] : k \in J}
    OBVIOUS
  <2> HIDE DEF A, C, J
  <2> QED BY <1>1, <2>1, <2>2, FewEngines
<1> DEFINE S == A \cup {slot}
<1>3. EnginesInUse(j) = S \cup C
  BY DEF EnginesInUse
<1> HIDE DEF A, C, J, n
<1>4. IsFiniteSet(EnginesInUse(j)) /\ Cardinality(EnginesInUse(j)) <= 2 * n - 1
  <2>1. IsFiniteSet(S) /\ Cardinality(S) <= Cardinality(A) + 1
    <3>1. Cardinality(S) = IF slot \in A THEN Cardinality(A) ELSE Cardinality(A) + 1
      BY <1>2, FS_AddElement
    <3>2. IsFiniteSet(S) /\ Cardinality(A) \in Nat
      BY <1>2, FS_AddElement, FS_CardinalityType
    <3> QED BY <3>1, <3>2
  <2> HIDE DEF S
  <2>2. Cardinality(A) \in Nat /\ Cardinality(C) \in Nat /\ Cardinality(S) \in Nat
    BY <1>2, <2>1, FS_CardinalityType
  <2>3. /\ IsFiniteSet(S \cup C)
        /\ Cardinality(S \cup C) = Cardinality(S) + Cardinality(C) - Cardinality(S \cap C)
    BY <1>2, <2>1, FS_Union
  <2>4. Cardinality(S \cap C) \in Nat
    BY <1>2, <2>1, FS_Subset, FS_CardinalityType
  <2> QED BY <1>1, <1>2, <1>3, <2>1, <2>2, <2>3, <2>4
<1>5. IsFiniteSet(EngineId) /\ Cardinality(EngineId) = 2 * n + 1
  BY <1>1, FS_Interval DEF EngineId, n
<1>6. \E i \in EngineId : engine(i) \notin EnginesInUse(j)
  <2>1. SUFFICES ASSUME \A i \in EngineId : engine(i) \in EnginesInUse(j) PROVE FALSE
    OBVIOUS
  <2> DEFINE f == [i \in EngineId |-> engine(i)]
  <2>2. f \in Injection(EngineId, EnginesInUse(j))
    <3>1. f \in [EngineId -> EnginesInUse(j)]
      BY <2>1
    <3>2. ASSUME NEW x \in EngineId, NEW y \in EngineId, f[x] = f[y] PROVE x = y
      <4>1. engine(x) = engine(y)
        BY <3>2
      <4>2. engine(x).id = x /\ engine(y).id = y
        OBVIOUS
      <4> QED BY <4>1, <4>2
    <3> HIDE DEF f
    <3> QED BY <3>1, <3>2 DEF Injection, IsInjective
  <2>3. Cardinality(EngineId) <= Cardinality(EnginesInUse(j))
    BY <1>4, <2>2, FS_Injection
  <2> QED BY <1>1, <1>4, <1>5, <2>3, FS_CardinalityType
<1> DEFINE i == CHOOSE i \in EngineId : engine(i) \notin EnginesInUse(j)
<1>7. i \in EngineId /\ engine(i) \notin EnginesInUse(j)
  BY <1>6
<1>8. NewEngine(j, m, g, a) = engine(i)
  BY DEF NewEngine
<1> HIDE DEF i
<1> QED BY <1>7, <1>8 DEF Engine

(***************************************************************************)
(* Threads.                                                                *)
(***************************************************************************)

(* What a thread decodes with is what its settings allow.                  *)
LEMMA AsAskedIsAllowed == JobsAsAsked => DecodeOnAllowedEngine
  BY DEF JobsAsAsked, AsAsked, DecodeOnAllowedEngine

(* A thread's record with some of its fields changed.                      *)
LEMMA JobRecords ==
  ASSUME NEW r \in JobState
  PROVE  /\ \A pc \in Stage : [r EXCEPT !.pc = pc] \in JobState
         /\ [r EXCEPT !.cancelled = TRUE] \in JobState
         /\ \A pc \in Stage, e \in AnyEngine :
              /\ [r EXCEPT !.pc = pc, !.engine = e] \in JobState
              /\ [r EXCEPT !.pc = pc, !.cpu = e] \in JobState
         /\ \A pc \in Stage, c \in Config, k \in {"preload", "window", "decode"} :
              /\ [r EXCEPT !.pc = pc, !.config = c] \in JobState
              /\ [r EXCEPT !.pc = pc, !.kind = k, !.config = c] \in JobState
              /\ \A g \in Nat :
                   [r EXCEPT !.pc = pc, !.kind = k, !.generation = g, !.config = c] \in JobState
  BY DEF JobState

(* A thread at rest or before the lock holds nothing.                      *)
LEMMA AtRestAsAsked ==
  /\ Idle \in JobState
  /\ \A r : r.pc \in {"idle", "lock", "check"} => AsAsked(r) /\ MayFallBack(r)
  BY EngineAssumption DEF Idle, JobState, Stage, AnyEngine, AsAsked, MayFallBack

(* One thread moves to a sound state, and the lock with it.                *)
LEMMA JobMoves ==
  ASSUME TypeOK, JobsAsAsked, NEW j \in Job, NEW r \in JobState,
         AsAsked(r), MayFallBack(r), Become(j, r),
         \/ loading' = loading /\ (r.pc \in Locked <=> job[j].pc \in Locked)
         \/ loading = NoJob /\ loading' = j /\ r.pc \in Locked
         \/ loading = j /\ loading' = NoJob /\ r.pc \notin Locked
  PROVE  /\ job' \in [Job -> JobState]
         /\ loading' \in Job \cup {NoJob}
         /\ \A k \in Job : (loading' = k) <=> (job'[k].pc \in Locked)
         /\ JobsAsAsked' /\ DecodeOnAllowedEngine'
<1> USE EngineAssumption
<1>1. job' \in [Job -> JobState] /\ job'[j] = r /\ \A k \in Job \ {j} : job'[k] = job[k]
  BY DEF Become, TypeOK
<1>2. loading' \in Job \cup {NoJob}
  BY DEF TypeOK
<1>3. \A k \in Job : (loading' = k) <=> (job'[k].pc \in Locked)
  BY <1>1 DEF TypeOK
<1>4. JobsAsAsked'
  BY <1>1 DEF JobsAsAsked
<1>5. DecodeOnAllowedEngine'
  <2>1. (JobsAsAsked => DecodeOnAllowedEngine)'
    BY AsAskedIsAllowed, PTL
  <2> QED BY <1>4, <2>1
<1> QED BY <1>1, <1>2, <1>3, <1>4, <1>5

(* A step of a thread that leaves the window and the selection alone.      *)
LEMMA ThreadStep ==
  ASSUME EngineInv, NEW j \in Job, NEW r \in JobState,
         AsAsked(r), MayFallBack(r), Become(j, r),
         \/ loading' = loading /\ (r.pc \in Locked <=> job[j].pc \in Locked)
         \/ loading = NoJob /\ loading' = j /\ r.pc \in Locked
         \/ loading = j /\ loading' = NoJob /\ r.pc \notin Locked,
         slot' \in AnyEngine, SlotAsAsked', acts' \in 0 .. MaxActs,
         answers' \subseteq [generation : Nat, model : Model, gpu : BOOLEAN, ok : BOOLEAN],
         UNCHANGED <<cache, downloaded, window, windowGpu, gtk, generation, status>>
  PROVE  EngineInv'
<1>1. TypeOK /\ JobsAsAsked
  BY DEF EngineInv, EngineSafety
<1>2. /\ job' \in [Job -> JobState]
      /\ loading' \in Job \cup {NoJob}
      /\ \A k \in Job : (loading' = k) <=> (job'[k].pc \in Locked)
      /\ JobsAsAsked' /\ DecodeOnAllowedEngine'
  BY <1>1, JobMoves
<1>3. TypeOK'
  BY <1>1, <1>2 DEF TypeOK
<1>4. ReadyIsSelected' /\ HandlerKnows'
  BY DEF EngineInv, EngineSafety, ReadyIsSelected, HandlerKnows
<1> QED BY <1>2, <1>3, <1>4 DEF EngineInv, EngineSafety

(* What a loader reports is well-formed.                                   *)
LEMMA TellTyped ==
  ASSUME TypeOK, NEW j \in Job, NEW ok \in BOOLEAN, Tell(j, ok)
  PROVE  answers' \subseteq [generation : Nat, model : Model, gpu : BOOLEAN, ok : BOOLEAN]
<1>1. job[j].generation \in Nat /\ job[j].config.model \in Model /\ job[j].config.gpu \in BOOLEAN
  BY DEF TypeOK, JobState, Config
<1> QED BY <1>1 DEF Tell, TypeOK

(* A failed load.                                                          *)
LEMMA LoadFailsPreserves ==
  ASSUME EngineInv, NEW j \in Job, job[j].pc \in Locked, LoadFails(j),
         UNCHANGED <<cache, downloaded, window, windowGpu, gtk, generation, status, acts>>
  PROVE  EngineInv'
<1>1. TypeOK /\ SlotAsAsked /\ loading = j
  BY DEF EngineInv, EngineSafety, TypeOK
<1>2. answers' \subseteq [generation : Nat, model : Model, gpu : BOOLEAN, ok : BOOLEAN]
  BY <1>1, TellTyped DEF LoadFails
<1>3. Idle.pc = "idle"
  BY DEF Idle
<1>4. slot' \in AnyEngine /\ SlotAsAsked' /\ acts' \in 0 .. MaxActs
  BY <1>1 DEF LoadFails, TypeOK, SlotAsAsked
<1> QED BY <1>1, <1>2, <1>3, <1>4, AtRestAsAsked, ThreadStep DEF LoadFails, Locked

(* An engine that is as asked goes to who asked.                           *)
LEMMA LoadedPreserves ==
  ASSUME EngineInv, NEW j \in Job, job[j].pc \in Locked,
         NEW e \in Engine, Loaded(j, e),
         e.requested = job[j].config.gpu,
         e.model \in {job[j].config.model, Variant[job[j].config.model]},
         e.gpu => job[j].config.gpu,
         job[j].config.gpu /\ ~job[j].config.fallback => e.gpu,
         slot' \in AnyEngine, SlotAsAsked',
         UNCHANGED <<cache, downloaded, window, windowGpu, gtk, generation, status, acts>>
  PROVE  EngineInv'
<1> DEFINE r == IF job[j].kind = "decode"
                THEN [job[j] EXCEPT !.pc = "run", !.engine = e] ELSE Idle
<1>1. TypeOK /\ loading = j /\ job[j] \in JobState
  BY DEF EngineInv, EngineSafety, TypeOK
<1>2. answers' \subseteq [generation : Nat, model : Model, gpu : BOOLEAN, ok : BOOLEAN]
  BY <1>1, TellTyped DEF Loaded
<1>3. r \in JobState /\ AsAsked(r) /\ MayFallBack(r) /\ r.pc \notin Locked
  <2>1. CASE job[j].kind = "decode"
    <3>1. [job[j] EXCEPT !.pc = "run", !.engine = e] \in JobState
      BY <1>1, JobRecords DEF AnyEngine, Stage
    <3> QED BY <1>1, <2>1, <3>1 DEF AsAsked, MayFallBack, Locked, JobState
  <2>2. CASE job[j].kind # "decode"
    BY <2>2, AtRestAsAsked DEF Idle, Locked
  <2> QED BY <2>1, <2>2
<1>4. Become(j, r) /\ loading' = NoJob
  BY DEF Loaded
<1>5. acts' \in 0 .. MaxActs
  BY <1>1 DEF TypeOK
<1> HIDE DEF r
<1> QED BY <1>1, <1>2, <1>3, <1>4, <1>5, ThreadStep

(***************************************************************************)
(* load_engine.                                                            *)
(***************************************************************************)

LEMMA PollingPreserves ==
  ASSUME EngineInv, NEW j \in Job, Polling(j)
  PROVE  EngineInv'
<1>1. TypeOK /\ SlotAsAsked /\ job[j] \in JobState
  BY DEF EngineInv, EngineSafety, TypeOK
<1>2. slot' \in AnyEngine /\ SlotAsAsked' /\ acts' \in 0 .. MaxActs
  BY <1>1 DEF Polling, TypeOK, SlotAsAsked
<1>3. answers' \subseteq [generation : Nat, model : Model, gpu : BOOLEAN, ok : BOOLEAN]
  BY <1>1 DEF Polling, gui, TypeOK
<1>4. CASE Become(j, Idle) /\ UNCHANGED loading
  BY <1>1, <1>2, <1>3, <1>4, AtRestAsAsked, ThreadStep DEF Polling, gui, Idle, Locked
<1>5. CASE loading = NoJob /\ loading' = j /\ Become(j, [job[j] EXCEPT !.pc = "check"])
  <2> DEFINE r == [job[j] EXCEPT !.pc = "check"]
  <2>1. r \in JobState
    BY <1>1, JobRecords DEF Stage, Locked
  <2>2. r.pc = "check"
    BY <1>1 DEF JobState
  <2> HIDE DEF r
  <2>3. Become(j, r)
    BY <1>5 DEF r
  <2> QED BY <1>2, <1>3, <1>5, <2>1, <2>2, <2>3, AtRestAsAsked, ThreadStep DEF Polling, gui, Locked
<1> QED BY <1>4, <1>5 DEF Polling

LEMMA CheckPreserves ==
  ASSUME EngineInv, NEW j \in Job, Check(j)
  PROVE  EngineInv'
<1> DEFINE c == job[j].config
           m == Resolved(c.model)
<1>1. /\ TypeOK /\ SlotAsAsked /\ job[j] \in JobState /\ job[j].pc = "check"
      /\ job[j].pc \in Locked /\ c \in Config
  BY DEF EngineInv, EngineSafety, TypeOK, Check, JobState, Locked
<1>2. UNCHANGED <<cache, downloaded, window, windowGpu, gtk, generation, status, acts>>
  BY DEF Check
<1>3. m \in Model /\ m \in {c.model, Variant[c.model]}
  BY <1>1, EngineAssumption DEF Resolved, Config
<1>4. ASSUME NEW n \in {c.model, m}, Reusable(c, n), Loaded(j, slot), UNCHANGED slot
      PROVE  EngineInv'
  <2>1. slot \in Engine /\ slot' \in AnyEngine /\ SlotAsAsked'
    BY <1>1, <1>4 DEF Reusable, TypeOK, AnyEngine, SlotAsAsked
  <2>2. /\ slot.requested = c.gpu /\ slot.model \in {c.model, Variant[c.model]}
        /\ slot.gpu => c.gpu
        /\ c.gpu /\ ~c.fallback => slot.gpu
    BY <1>1, <1>3, <1>4 DEF Reusable, SlotAsAsked
  <2> QED BY <1>1, <1>2, <1>4, <2>1, <2>2, LoadedPreserves
<1>5. ASSUME LoadFails(j) PROVE EngineInv'
  BY <1>1, <1>2, <1>5, LoadFailsPreserves
<1>6. ASSUME Become(j, [job[j] EXCEPT !.pc = "load", !.engine = NewEngine(j, m, c.gpu, c.gpu)]),
             UNCHANGED <<slot, loading, answers>>
      PROVE  EngineInv'
  <2> DEFINE e == NewEngine(j, m, c.gpu, c.gpu)
             r == [job[j] EXCEPT !.pc = "load", !.engine = e]
  <2>1. e \in Engine /\ e.model = m /\ e.requested = c.gpu
    BY <1>1, <1>3, EngineIsNew DEF Config
  <2> HIDE DEF e
  <2>2. /\ r \in JobState
        /\ r.pc = "load" /\ r.engine = e /\ r.config = c
    <3>1. r \in JobState
      BY <1>1, <2>1, JobRecords DEF Stage, AnyEngine, Locked
    <3> QED BY <1>1, <3>1 DEF JobState
  <2>3. Become(j, r)
    BY <1>6 DEF e
  <2> HIDE DEF r, c, m
  <2>4. AsAsked(r) /\ MayFallBack(r) /\ r.pc \in Locked
    BY <1>3, <2>1, <2>2 DEF AsAsked, MayFallBack, Locked
  <2>5. /\ slot' \in AnyEngine /\ SlotAsAsked' /\ acts' \in 0 .. MaxActs
        /\ answers' \subseteq [generation : Nat, model : Model, gpu : BOOLEAN, ok : BOOLEAN]
    BY <1>1, <1>2, <1>6 DEF TypeOK, SlotAsAsked
  <2> QED BY <1>1, <1>2, <1>6, <2>2, <2>3, <2>4, <2>5, ThreadStep
<1> QED BY <1>4, <1>5, <1>6 DEF Check

LEMMA LoadPreserves ==
  ASSUME EngineInv, NEW j \in Job, Load(j)
  PROVE  EngineInv'
<1> DEFINE c == job[j].config
<1>1. /\ TypeOK /\ SlotAsAsked /\ job[j] \in JobState /\ job[j].pc = "load"
      /\ job[j].pc \in Locked /\ c \in Config /\ AsAsked(job[j])
  BY DEF EngineInv, EngineSafety, TypeOK, Load, JobState, Locked, JobsAsAsked
<1>2. UNCHANGED <<cache, downloaded, window, windowGpu, gtk, generation, status, acts>>
  BY DEF Load
<1>3. job[j].engine.model \in Model /\ job[j].engine.model \in {c.model, Variant[c.model]}
  BY <1>1 DEF AsAsked, Engine
<1>4. ASSUME NEW gpu \in {c.gpu} \cup IF c.fallback THEN {FALSE} ELSE {},
             Become(j, [job[j] EXCEPT !.pc = "publish",
                            !.engine = NewEngine(j, job[j].engine.model, gpu, c.gpu)]),
             UNCHANGED <<slot, loading, answers>>
      PROVE  EngineInv'
  <2> DEFINE e == NewEngine(j, job[j].engine.model, gpu, c.gpu)
             r == [job[j] EXCEPT !.pc = "publish", !.engine = e]
  <2>1. e \in Engine /\ e.model = job[j].engine.model /\ e.gpu = gpu /\ e.requested = c.gpu
    <3>1. gpu \in BOOLEAN /\ c.gpu \in BOOLEAN
      BY <1>1, <1>4 DEF Config
    <3> QED BY <1>3, <3>1, EngineIsNew
  <2> HIDE DEF e
  <2>2. /\ r \in JobState
        /\ r.pc = "publish" /\ r.engine = e /\ r.config = c
    <3>1. r \in JobState
      BY <1>1, <2>1, JobRecords DEF Stage, AnyEngine, Locked
    <3> QED BY <1>1, <3>1 DEF JobState
  <2>3. Become(j, r)
    BY <1>4 DEF e
  <2>4. (gpu => c.gpu) /\ (c.gpu /\ ~c.fallback => gpu)
    BY <1>4
  <2> HIDE DEF r, c
  <2>5. AsAsked(r) /\ MayFallBack(r) /\ r.pc \in Locked
    BY <1>3, <2>1, <2>2, <2>4 DEF AsAsked, MayFallBack, Locked
  <2>6. /\ slot' \in AnyEngine /\ SlotAsAsked' /\ acts' \in 0 .. MaxActs
        /\ answers' \subseteq [generation : Nat, model : Model, gpu : BOOLEAN, ok : BOOLEAN]
    BY <1>1, <1>2, <1>4 DEF TypeOK, SlotAsAsked
  <2> QED BY <1>1, <1>2, <1>4, <2>2, <2>3, <2>5, <2>6, ThreadStep
<1> QED BY <1>1, <1>2, <1>4, LoadFailsPreserves DEF Load

LEMMA PublishPreserves ==
  ASSUME EngineInv, NEW j \in Job, Publish(j)
  PROVE  EngineInv'
<1> DEFINE e == job[j].engine
<1>1. /\ TypeOK /\ SlotAsAsked /\ job[j].pc = "publish" /\ job[j].pc \in Locked
      /\ AsAsked(job[j])
  BY DEF EngineInv, EngineSafety, Publish, Locked, JobsAsAsked
<1>2. /\ e \in Engine /\ e.requested = job[j].config.gpu
      /\ e.model \in {job[j].config.model, Variant[job[j].config.model]}
      /\ e.gpu => job[j].config.gpu
      /\ job[j].config.gpu /\ ~job[j].config.fallback => e.gpu
  BY <1>1 DEF AsAsked
<1>3. slot' \in {slot, e}
  BY DEF Publish
<1>4. slot' \in AnyEngine /\ SlotAsAsked'
  BY <1>1, <1>2, <1>3 DEF TypeOK, AnyEngine, SlotAsAsked
<1> HIDE DEF e
<1> QED BY <1>1, <1>2, <1>4, LoadedPreserves DEF Publish, e

(***************************************************************************)
(* Decodes.                                                                *)
(***************************************************************************)

LEMMA StartDecodePreserves ==
  ASSUME EngineInv, NEW j \in Job, StartDecode(j)
  PROVE  EngineInv'
<1> DEFINE r == [Idle EXCEPT !.pc = "lock", !.kind = "decode", !.config = cache]
<1>1. TypeOK /\ SlotAsAsked
  BY DEF EngineInv, EngineSafety
<1>2. r \in JobState /\ r.pc = "lock"
  <2>1. cache \in Config /\ "lock" \in Stage /\ "decode" \in {"preload", "window", "decode"}
    BY <1>1 DEF TypeOK, Stage
  <2>2. r \in JobState
    BY <2>1, AtRestAsAsked, JobRecords
  <2> QED BY <2>2, AtRestAsAsked DEF JobState
<1>3. Become(j, r)
  BY DEF StartDecode
<1> HIDE DEF r
<1>4. acts' \in 0 .. MaxActs
  BY <1>1, EngineAssumption DEF StartDecode, TypeOK
<1>5. /\ slot' \in AnyEngine /\ SlotAsAsked'
      /\ answers' \subseteq [generation : Nat, model : Model, gpu : BOOLEAN, ok : BOOLEAN]
  BY <1>1 DEF StartDecode, gui, TypeOK, SlotAsAsked
<1>6. job[j].pc \notin Locked /\ r.pc \notin Locked
  BY <1>2 DEF StartDecode, Locked
<1> QED BY <1>2, <1>3, <1>4, <1>5, <1>6, AtRestAsAsked, ThreadStep DEF StartDecode, gui

(* A step of a decode that only changes its own place.                     *)
LEMMA DecodeStepPreserves ==
  ASSUME EngineInv, NEW j \in Job, NEW r \in JobState,
         AsAsked(r), MayFallBack(r), Become(j, r), r.pc \in Locked <=> job[j].pc \in Locked,
         UNCHANGED <<cache, downloaded, slot, loading, gui, acts>>
  PROVE  EngineInv'
<1>1. /\ slot' \in AnyEngine /\ SlotAsAsked' /\ acts' \in 0 .. MaxActs
      /\ answers' \subseteq [generation : Nat, model : Model, gpu : BOOLEAN, ok : BOOLEAN]
  BY DEF EngineInv, EngineSafety, TypeOK, gui, SlotAsAsked
<1> QED BY <1>1, ThreadStep DEF gui

LEMMA CancelPreserves ==
  ASSUME EngineInv, NEW j \in Job, Cancel(j)
  PROVE  EngineInv'
<1> DEFINE r == [job[j] EXCEPT !.cancelled = TRUE]
<1>1. job[j] \in JobState /\ AsAsked(job[j]) /\ MayFallBack(job[j])
  BY DEF EngineInv, EngineSafety, TypeOK, JobsAsAsked
<1>2. r \in JobState
  BY <1>1, JobRecords
<1>3. AsAsked(r) /\ MayFallBack(r) /\ r.pc = job[j].pc
  BY <1>1 DEF AsAsked, MayFallBack, JobState
<1>4. Become(j, r)
  BY DEF Cancel
<1> HIDE DEF r
<1> QED BY <1>2, <1>3, <1>4, DecodeStepPreserves DEF Cancel

LEMMA RunPreserves ==
  ASSUME EngineInv, NEW j \in Job, Run(j)
  PROVE  EngineInv'
<1>1. job[j] \in JobState /\ AsAsked(job[j]) /\ MayFallBack(job[j])
  BY DEF EngineInv, EngineSafety, TypeOK, JobsAsAsked
<1>2. job[j].pc \in {"run", "rerun"} /\ UNCHANGED <<cache, downloaded, slot, loading, gui, acts>>
  BY DEF Run
<1>3. CASE Become(j, Idle)
  BY <1>2, <1>3, AtRestAsAsked, DecodeStepPreserves DEF Idle, Locked
<1>4. ASSUME NEW p \in {"rerun", "cpu"}, Become(j, [job[j] EXCEPT !.pc = p]),
             job[j].engine.gpu, p = "cpu" => job[j].config.fallback
      PROVE  EngineInv'
  <2> DEFINE r == [job[j] EXCEPT !.pc = p]
  <2>1. r \in JobState
    BY <1>1, <1>4, JobRecords DEF Stage, Locked
  <2>2. AsAsked(r) /\ MayFallBack(r) /\ r.pc = p
    BY <1>1, <1>2, <1>4 DEF AsAsked, MayFallBack, JobState
  <2> HIDE DEF r
  <2>3. Become(j, r)
    BY <1>4 DEF r
  <2> QED BY <1>2, <1>4, <2>1, <2>2, <2>3, DecodeStepPreserves DEF Locked
<1> QED BY <1>1, <1>3, <1>4 DEF Run, MayFallBack

LEMMA LoadCpuPreserves ==
  ASSUME EngineInv, NEW j \in Job, LoadCpu(j)
  PROVE  EngineInv'
<1>1. job[j] \in JobState /\ AsAsked(job[j]) /\ MayFallBack(job[j]) /\ job[j].pc = "cpu"
  BY DEF EngineInv, EngineSafety, TypeOK, JobsAsAsked, LoadCpu
<1>2. UNCHANGED <<cache, downloaded, slot, loading, gui, acts>>
  BY DEF LoadCpu
<1>3. CASE Become(j, Idle)
  BY <1>1, <1>2, <1>3, AtRestAsAsked, DecodeStepPreserves DEF Idle, Locked
<1>4. CASE LET e == job[j].engine
           IN  Become(j, [job[j] EXCEPT !.pc = "swap", !.cpu = NewEngine(j, e.model, FALSE, e.requested)])
  <2> DEFINE e == job[j].engine
             n == NewEngine(j, e.model, FALSE, e.requested)
             r == [job[j] EXCEPT !.pc = "swap", !.cpu = n]
  <2>1. e \in Engine /\ e.model \in Model /\ e.requested \in BOOLEAN
    BY <1>1 DEF AsAsked, Engine
  <2> HIDE DEF e
  <2>2. n \in Engine /\ n.model = e.model /\ ~n.gpu /\ n.requested = e.requested
    BY <2>1, EngineIsNew
  <2> HIDE DEF n
  <2>3. r \in JobState
    BY <1>1, <2>2, JobRecords DEF Stage, AnyEngine
  <2>4. AsAsked(r) /\ MayFallBack(r) /\ r.pc = "swap"
    BY <1>1, <2>2 DEF AsAsked, MayFallBack, JobState, e
  <2>5. Become(j, r)
    BY <1>4 DEF n, e
  <2> HIDE DEF r
  <2> QED BY <1>1, <1>2, <2>3, <2>4, <2>5, DecodeStepPreserves DEF Locked
<1> QED BY <1>3, <1>4 DEF LoadCpu

LEMMA SwapPreserves ==
  ASSUME EngineInv, NEW j \in Job, Swap(j)
  PROVE  EngineInv'
<1>1. /\ TypeOK /\ SlotAsAsked /\ MayFallBack(job[j]) /\ job[j].pc = "swap"
  BY DEF EngineInv, EngineSafety, JobsAsAsked, Swap
<1>2. slot' \in {slot, job[j].cpu}
  BY DEF Swap
<1>3. slot' \in AnyEngine /\ SlotAsAsked'
  BY <1>1, <1>2 DEF TypeOK, AnyEngine, SlotAsAsked, MayFallBack
<1>4. /\ acts' \in 0 .. MaxActs
      /\ answers' \subseteq [generation : Nat, model : Model, gpu : BOOLEAN, ok : BOOLEAN]
  BY <1>1 DEF TypeOK, Swap, gui
<1> QED BY <1>1, <1>3, <1>4, AtRestAsAsked, ThreadStep DEF Swap, gui, Idle, Locked

(***************************************************************************)
(* The window and its pages.                                               *)
(***************************************************************************)

GuiTyped ==
  /\ cache \in Config /\ downloaded \subseteq Model
  /\ window \in BOOLEAN /\ windowGpu \in BOOLEAN
  /\ gtk \in [at : {"idle", "engine", "load", "reload"}, model : Model]
  /\ generation \in Nat
  /\ answers \subseteq [generation : Nat, model : Model, gpu : BOOLEAN, ok : BOOLEAN]
  /\ status \in [text : {"none", "loading", "ready", "sidecar"}, model : Model]
  /\ acts \in 0 .. MaxActs

(* A step of the GTK thread that at most empties the slot.                 *)
LEMMA GuiStep ==
  ASSUME EngineInv, UNCHANGED <<loading, job>>, slot' \in {slot, NoEngine},
         GuiTyped', ReadyIsSelected', HandlerKnows'
  PROVE  EngineInv'
<1>1. TypeOK /\ SlotAsAsked /\ JobsAsAsked /\ DecodeOnAllowedEngine
  BY DEF EngineInv, EngineSafety
<1>2. slot' \in AnyEngine /\ SlotAsAsked'
  BY <1>1 DEF TypeOK, AnyEngine, SlotAsAsked
<1>3. TypeOK'
  BY <1>1, <1>2 DEF TypeOK, GuiTyped
<1>4. JobsAsAsked' /\ DecodeOnAllowedEngine'
  BY <1>1 DEF JobsAsAsked, DecodeOnAllowedEngine
<1> QED BY <1>2, <1>3, <1>4 DEF EngineInv, EngineSafety

(* What the refresh of the window says of a load is never "ready".         *)
LEMMA SyncIsNotReady ==
  ASSUME NEW c \in Config, NEW present,
         status \in [text : {"none", "loading", "ready", "sidecar"}, model : Model]
  PROVE  /\ SyncStatus(c, present) \in [text : {"none", "loading", "ready", "sidecar"}, model : Model]
         /\ SyncStatus(c, present).text # "ready"
  BY DEF SyncStatus, Config

(* A handler that saves a configuration goes on with what it saved.        *)
LEMMA SavePreserves ==
  ASSUME EngineInv, Act, NEW c \in Config, NEW then \in {"idle", "engine", "load", "reload"},
         Save(c, then), windowGpu' \in {windowGpu, c.gpu},
         downloaded' \subseteq Model,
         then \in Loads => c.model \in downloaded',
         then = "idle" => c.model = cache.model /\ c.backend = cache.backend
  PROVE  EngineInv'
<1> USE EngineAssumption
<1>1. TypeOK /\ ReadyIsSelected /\ window /\ gtk.at = "idle"
  BY DEF EngineInv, EngineSafety, Act
<1>2. c.gpu \in BOOLEAN /\ c.model \in Model /\ Start.model \in Model
  BY DEF Config
<1>3. /\ gtk' = [at |-> then, model |-> IF then \in Loads THEN c.model ELSE Start.model]
      /\ gtk'.at = then
      /\ then \in Loads => gtk'.model = c.model
  BY DEF Save
<1>4. GuiTyped'
  <2>1. gtk' \in [at : {"idle", "engine", "load", "reload"}, model : Model]
    BY <1>2, <1>3
  <2>2. acts' \in 0 .. MaxActs
    BY <1>1 DEF Act, TypeOK
  <2> QED BY <1>1, <1>2, <2>1, <2>2 DEF GuiTyped, TypeOK, Save
<1>5. ReadyIsSelected'
  BY <1>1, <1>3 DEF ReadyIsSelected, Save
<1>6. HandlerKnows'
  BY <1>1, <1>3 DEF HandlerKnows, Save, Loads
<1> QED BY <1>4, <1>5, <1>6, GuiStep DEF Save, engines

LEMMA ChooseEnginePreserves == EngineInv /\ ChooseEngine => EngineInv'
<1> SUFFICES ASSUME EngineInv, ChooseEngine PROVE EngineInv'
  OBVIOUS
<1>1. TypeOK
  BY DEF EngineInv, EngineSafety
<1>2. PICK b \in {"whisper", "sidecar"} : WindowSaves([cache EXCEPT !.backend = b], "engine")
  BY DEF ChooseEngine
<1>3. [cache EXCEPT !.backend = b] \in Config
  BY <1>1 DEF TypeOK, Config
<1> QED BY <1>1, <1>2, <1>3, SavePreserves DEF ChooseEngine, WindowSaves, TypeOK, Loads

LEMMA ChooseModelPreserves == EngineInv /\ ChooseModel => EngineInv'
<1> SUFFICES ASSUME EngineInv, ChooseModel PROVE EngineInv'
  OBVIOUS
<1>1. TypeOK
  BY DEF EngineInv, EngineSafety
<1>2. PICK m \in downloaded : WindowSaves([cache EXCEPT !.model = m], "load")
  BY DEF ChooseModel
<1>3. [cache EXCEPT !.model = m] \in Config /\ [cache EXCEPT !.model = m].model \in downloaded'
  BY <1>1 DEF TypeOK, Config, ChooseModel
<1> QED BY <1>1, <1>2, <1>3, SavePreserves DEF ChooseModel, WindowSaves, TypeOK, Loads

LEMMA SetComputePreserves == EngineInv /\ SetCompute => EngineInv'
<1> SUFFICES ASSUME EngineInv, SetCompute PROVE EngineInv'
  OBVIOUS
<1>1. TypeOK
  BY DEF EngineInv, EngineSafety
<1>2. PICK gpu \in BOOLEAN, fallback \in BOOLEAN :
        PageSaves([cache EXCEPT !.gpu = gpu, !.fallback = fallback], "idle")
  BY DEF SetCompute
<1> DEFINE c == [cache EXCEPT !.gpu = gpu, !.fallback = fallback]
<1>3. c \in Config /\ c.model = cache.model /\ c.backend = cache.backend
  BY <1>1 DEF TypeOK, Config
<1> HIDE DEF c
<1>4. Save(c, "idle") /\ UNCHANGED windowGpu
  BY <1>2 DEF PageSaves, c
<1> QED BY <1>1, <1>3, <1>4, SavePreserves DEF SetCompute, TypeOK, Loads

LEMMA DownloadDonePreserves == EngineInv /\ DownloadDone => EngineInv'
<1> SUFFICES ASSUME EngineInv, DownloadDone PROVE EngineInv'
  OBVIOUS
<1>1. TypeOK
  BY DEF EngineInv, EngineSafety
<1>2. PICK m \in Model : /\ downloaded' = downloaded \cup {m}
                         /\ PageSaves([cache EXCEPT !.model = m], "load")
  BY DEF DownloadDone
<1>3. [cache EXCEPT !.model = m] \in Config /\ [cache EXCEPT !.model = m].model \in downloaded'
  BY <1>1, <1>2 DEF TypeOK, Config
<1>4. downloaded' \subseteq Model
  BY <1>1, <1>2 DEF TypeOK
<1> QED BY <1>1, <1>2, <1>3, <1>4, SavePreserves DEF DownloadDone, PageSaves, Loads

LEMMA DeleteModelPreserves == EngineInv /\ DeleteModel => EngineInv'
<1> SUFFICES ASSUME EngineInv, DeleteModel PROVE EngineInv'
  OBVIOUS
<1>1. TypeOK /\ Act /\ window /\ gtk.at = "idle" /\ downloaded' \subseteq Model
  BY DEF EngineInv, EngineSafety, DeleteModel, Act, TypeOK
<1>2. CASE /\ downloaded' # {}
           /\ WindowSaves([cache EXCEPT !.model = CHOOSE n \in downloaded' : TRUE], "reload")
  <2> DEFINE n == CHOOSE n \in downloaded' : TRUE
  <2>1. n \in downloaded'
    BY <1>2
  <2> HIDE DEF n
  <2>2. [cache EXCEPT !.model = n] \in Config /\ [cache EXCEPT !.model = n].model \in downloaded'
    BY <1>1, <2>1 DEF TypeOK, Config
  <2>3. WindowSaves([cache EXCEPT !.model = n], "reload")
    BY <1>2 DEF n
  <2> QED BY <1>1, <2>2, <2>3, SavePreserves DEF WindowSaves, Loads
<1>3. CASE /\ status' = SyncStatus(cache, downloaded') /\ slot' \in {slot, NoEngine}
           /\ UNCHANGED <<cache, loading, job, window, windowGpu, gtk, generation, answers>>
  <2>1. /\ status' \in [text : {"none", "loading", "ready", "sidecar"}, model : Model]
        /\ status'.text # "ready"
    BY <1>1, <1>3, SyncIsNotReady DEF TypeOK
  <2>2. acts' \in 0 .. MaxActs
    BY <1>1, EngineAssumption DEF Act, TypeOK
  <2>3. GuiTyped'
    BY <1>1, <1>3, <2>1, <2>2 DEF GuiTyped, TypeOK
  <2>4. ReadyIsSelected' /\ HandlerKnows'
    BY <1>1, <1>3, <2>1 DEF ReadyIsSelected, HandlerKnows, Loads
  <2> QED BY <1>3, <2>3, <2>4, GuiStep
<1> QED BY <1>2, <1>3 DEF DeleteModel, engines

LEMMA FinishSwitchPreserves == EngineInv /\ FinishSwitch => EngineInv'
<1> SUFFICES ASSUME EngineInv, FinishSwitch PROVE EngineInv'
  OBVIOUS
<1>1. TypeOK /\ window
  BY DEF EngineInv, EngineSafety, HandlerKnows, FinishSwitch
<1>2. /\ status' \in [text : {"none", "loading", "ready", "sidecar"}, model : Model]
      /\ status'.text # "ready"
  BY <1>1, SyncIsNotReady DEF TypeOK, FinishSwitch
<1>3. gtk' \in {AtRest, [at |-> "load", model |-> cache.model]} /\ slot' \in {slot, NoEngine}
  BY DEF FinishSwitch
<1>4. gtk' \in [at : {"idle", "engine", "load", "reload"}, model : Model]
  BY <1>1, <1>3, EngineAssumption DEF AtRest, TypeOK, Config
<1>5. GuiTyped'
  BY <1>1, <1>2, <1>4 DEF GuiTyped, TypeOK, FinishSwitch
<1>6. ReadyIsSelected' /\ HandlerKnows'
  BY <1>1, <1>2, <1>3 DEF ReadyIsSelected, HandlerKnows, FinishSwitch, AtRest, Loads
<1> QED BY <1>3, <1>5, <1>6, GuiStep DEF FinishSwitch

LEMMA OpenWindowPreserves == EngineInv /\ OpenWindow => EngineInv'
<1> SUFFICES ASSUME EngineInv, OpenWindow PROVE EngineInv'
  OBVIOUS
<1> DEFINE m == Resolved(cache.model)
<1>1. TypeOK /\ gtk.at = "idle" /\ cache \in Config /\ cache.model \in Model
  BY DEF EngineInv, EngineSafety, HandlerKnows, OpenWindow, TypeOK, Config
<1>2. m \in Model
  BY <1>1, EngineAssumption DEF Resolved
<1> HIDE DEF m
<1>3. \/ cache' = [cache EXCEPT !.model = m] /\ gtk' = [at |-> "load", model |-> m]
      \/ UNCHANGED <<cache, gtk>>
  BY DEF OpenWindow, m
<1>4. /\ cache' \in Config
      /\ gtk' \in [at : {"idle", "engine", "load", "reload"}, model : Model]
      /\ gtk'.at \in Loads => gtk'.model = cache'.model
  BY <1>1, <1>2, <1>3 DEF TypeOK, Config, Loads
<1>5. /\ status' \in [text : {"none", "loading", "ready", "sidecar"}, model : Model]
      /\ status'.text # "ready"
  BY <1>1, <1>4, SyncIsNotReady DEF TypeOK, OpenWindow
<1>6. GuiTyped'
  BY <1>1, <1>4, <1>5 DEF GuiTyped, TypeOK, OpenWindow
<1>7. ReadyIsSelected' /\ HandlerKnows'
  BY <1>4, <1>5 DEF ReadyIsSelected, HandlerKnows, OpenWindow
<1> QED BY <1>6, <1>7, GuiStep DEF OpenWindow, engines

LEMMA AnswerPreserves == EngineInv /\ Answer => EngineInv'
<1> SUFFICES ASSUME EngineInv, Answer PROVE EngineInv'
  OBVIOUS
<1>1. TypeOK /\ ReadyIsSelected /\ HandlerKnows /\ gtk.at = "idle"
  BY DEF EngineInv, EngineSafety, Answer
<1>2. PICK a \in answers :
        /\ answers' = answers \ {a}
        /\ status' = IF a.ok /\ StillSelected(a) THEN OnModelLoaded(a.model) ELSE status
  BY DEF Answer
<1>3. a.model \in Model
  BY <1>1 DEF TypeOK
<1>4. \/ status' = status
      \/ status' = [text |-> "ready", model |-> a.model] /\ a.model = cache.model
  BY <1>2 DEF OnModelLoaded, StillSelected, Ready
<1>5. GuiTyped'
  BY <1>1, <1>2, <1>3, <1>4 DEF GuiTyped, TypeOK, Answer
<1>6. ReadyIsSelected' /\ HandlerKnows'
  BY <1>1, <1>4 DEF ReadyIsSelected, HandlerKnows, Answer, Loads
<1> QED BY <1>5, <1>6, GuiStep DEF Answer, engines

(* load_model_by_id, whether it starts a loader or finds the engine there. *)
LEMMA FinishLoadPreserves == EngineInv /\ FinishLoad => EngineInv'
<1> SUFFICES ASSUME EngineInv, FinishLoad PROVE EngineInv'
  OBVIOUS
<1> DEFINE m == gtk.model
<1>1. /\ TypeOK /\ JobsAsAsked /\ window /\ m = cache.model /\ m \in Model
      /\ status.text = "ready" => m \in downloaded
  BY DEF EngineInv, EngineSafety, HandlerKnows, FinishLoad, TypeOK, Loads
<1>2. gtk' = AtRest /\ UNCHANGED <<cache, downloaded, slot, loading, window, windowGpu, acts>>
  BY DEF FinishLoad
<1>3. gtk'.at = "idle" /\ gtk' \in [at : {"idle", "engine", "load", "reload"}, model : Model] /\ HandlerKnows'
  BY <1>2, EngineAssumption DEF AtRest, Config, HandlerKnows, Loads
(* What is shown after a deletion is the refresh's, and not "ready".       *)
<1>4. ASSUME NEW s PROVE Shown(s) = s \/
               /\ Shown(s) \in [text : {"none", "loading", "ready", "sidecar"}, model : Model]
               /\ Shown(s).text # "ready"
  <2>1. cache \in Config
    BY <1>1 DEF TypeOK
  <2>2. /\ SyncStatus(cache, downloaded) \in [text : {"none", "loading", "ready", "sidecar"}, model : Model]
        /\ SyncStatus(cache, downloaded).text # "ready"
    BY <1>1, <2>1, SyncIsNotReady DEF TypeOK
  <2> QED BY <2>2 DEF Shown
<1>5. CASE m \notin downloaded /\ status' = Shown(status) /\ UNCHANGED <<job, generation, answers>>
  <2>1. \/ status' = status
        \/ /\ status' \in [text : {"none", "loading", "ready", "sidecar"}, model : Model]
           /\ status'.text # "ready"
    BY <1>5, <1>4
  <2>2. GuiTyped'
    BY <1>1, <1>2, <1>3, <1>5, <2>1 DEF GuiTyped, TypeOK
  <2>3. ReadyIsSelected'
    BY <1>1, <1>5, <2>1 DEF ReadyIsSelected
  <2> QED BY <1>2, <1>3, <1>5, <2>2, <2>3, GuiStep
<1>6. CASE status' = Shown(OnModelLoaded(m)) /\ UNCHANGED <<job, generation, answers>>
  <2>1. \/ status' = [text |-> "ready", model |-> m]
        \/ cache.backend # "whisper" /\ status' = status
        \/ /\ status' \in [text : {"none", "loading", "ready", "sidecar"}, model : Model]
           /\ status'.text # "ready"
    BY <1>6, <1>4 DEF OnModelLoaded, Ready
  <2>2. GuiTyped'
    BY <1>1, <1>2, <1>3, <1>6, <2>1 DEF GuiTyped, TypeOK
  <2>3. ReadyIsSelected'
    BY <1>1, <1>2, <2>1 DEF ReadyIsSelected
  <2> QED BY <1>2, <1>3, <1>6, <2>2, <2>3, GuiStep
<1>7. CASE /\ generation' = generation + 1 /\ answers' = {}
           /\ status' = Shown([text |-> "loading", model |-> m])
           /\ \E j \in Job :
                /\ job[j].pc = "idle"
                /\ Become(j, [Idle EXCEPT !.pc = "lock", !.kind = "window", !.generation = generation + 1,
                                          !.config = [cache EXCEPT !.model = m]])
  <2>1. PICK j \in Job :
          /\ job[j].pc = "idle"
          /\ Become(j, [Idle EXCEPT !.pc = "lock", !.kind = "window", !.generation = generation + 1,
                                    !.config = [cache EXCEPT !.model = m]])
    BY <1>7
  <2> DEFINE c == [cache EXCEPT !.model = m]
             g == generation + 1
             r == [Idle EXCEPT !.pc = "lock", !.kind = "window", !.generation = g, !.config = c]
  <2>2. c \in Config /\ g \in Nat /\ "lock" \in Stage /\ "window" \in {"preload", "window", "decode"}
    BY <1>1 DEF TypeOK, Config, Stage
  <2>3. Become(j, r)
    BY <2>1
  <2> HIDE DEF c, g
  <2>4. r \in JobState
    BY <2>2, AtRestAsAsked, JobRecords
  <2>5. r.pc = "lock"
    BY AtRestAsAsked DEF JobState
  <2> HIDE DEF r
  <2>6. AsAsked(r) /\ MayFallBack(r)
    BY <2>5, AtRestAsAsked
  <2>7. r.pc \notin Locked /\ job[j].pc \notin Locked
    BY <2>1, <2>5 DEF Locked
  <2>8. /\ job' \in [Job -> JobState]
        /\ loading' \in Job \cup {NoJob}
        /\ \A k \in Job : (loading' = k) <=> (job'[k].pc \in Locked)
        /\ JobsAsAsked' /\ DecodeOnAllowedEngine'
    BY <1>1, <1>2, <2>3, <2>4, <2>6, <2>7, JobMoves
  <2>9. /\ status' \in [text : {"none", "loading", "ready", "sidecar"}, model : Model]
         /\ status'.text # "ready"
    BY <1>1, <1>7, <1>4
  <2>10. TypeOK'
    <3>1. generation' \in Nat
      BY <1>1, <1>7 DEF TypeOK
    <3> QED BY <1>1, <1>2, <1>3, <1>7, <2>8, <2>9, <3>1 DEF TypeOK
  <2>11. ReadyIsSelected' /\ SlotAsAsked'
    BY <1>2, <2>9 DEF ReadyIsSelected, SlotAsAsked, EngineInv
  <2> QED BY <1>3, <2>8, <2>10, <2>11 DEF EngineInv, EngineSafety
<1> QED BY <1>5, <1>6, <1>7 DEF FinishLoad, LoadModelById

(***************************************************************************)
(* The theorems.                                                           *)
(***************************************************************************)

LEMMA InitEstablishes == Init => EngineInv
<1> SUFFICES ASSUME Init PROVE EngineInv
  OBVIOUS
<1> USE EngineAssumption
<1>1. \A j \in Job : \/ job[j] = Idle
                     \/ job[j] = [Idle EXCEPT !.pc = "lock", !.config = cache]
  BY DEF Init
<1>2. Idle \in JobState /\ [Idle EXCEPT !.pc = "lock", !.config = cache] \in JobState
  BY AtRestAsAsked, JobRecords DEF Init, Stage
<1>3. Idle.pc = "idle" /\ [Idle EXCEPT !.pc = "lock", !.config = cache].pc = "lock"
  BY DEF Idle
<1>4. job \in [Job -> JobState]
  BY <1>2 DEF Init
<1>5. \A j \in Job : job[j].pc \in {"idle", "lock"}
  BY <1>1, <1>3
<1>6. JobsAsAsked
  BY <1>5, AtRestAsAsked DEF JobsAsAsked
<1>7. TypeOK
  <2>1. \A j \in Job : ~(loading = j) /\ job[j].pc \notin Locked
    BY <1>5 DEF Init, Locked
  <2>2. Start.model \in Model /\ Start.gpu \in BOOLEAN
    BY DEF Config
  <2>3. /\ gtk \in [at : {"idle", "engine", "load", "reload"}, model : Model]
        /\ status \in [text : {"none", "loading", "ready", "sidecar"}, model : Model]
        /\ windowGpu \in BOOLEAN
    BY <2>2 DEF Init, AtRest
  <2>4. downloaded \subseteq Model /\ cache \in Config /\ slot \in AnyEngine /\ acts \in 0 .. MaxActs
    BY DEF Init, AnyEngine
  <2> QED BY <1>4, <2>1, <2>3, <2>4 DEF Init, TypeOK
<1>8. DecodeOnAllowedEngine
  BY <1>6, AsAskedIsAllowed
<1>9. ReadyIsSelected /\ SlotAsAsked /\ HandlerKnows
  BY DEF Init, ReadyIsSelected, SlotAsAsked, HandlerKnows, AtRest
<1> QED BY <1>6, <1>7, <1>8, <1>9 DEF EngineInv, EngineSafety

LEMMA NextPreserves == EngineInv /\ [Next]_vars => EngineInv'
<1> SUFFICES ASSUME EngineInv, [Next]_vars PROVE EngineInv'
  OBVIOUS
<1>1. ASSUME NEW j \in Job, LoadStep(j) \/ DecodeStep(j) \/ StartDecode(j) \/ Cancel(j)
      PROVE  EngineInv'
  BY <1>1, PollingPreserves, CheckPreserves, LoadPreserves, PublishPreserves, StartDecodePreserves,
     CancelPreserves, RunPreserves, LoadCpuPreserves, SwapPreserves DEF LoadStep, DecodeStep
<1>2. CASE Handler \/ User
  BY <1>2, FinishSwitchPreserves, FinishLoadPreserves, AnswerPreserves, ChooseEnginePreserves,
     ChooseModelPreserves, SetComputePreserves, DownloadDonePreserves, DeleteModelPreserves,
     OpenWindowPreserves DEF Handler, User
<1>3. CASE UNCHANGED vars
  BY <1>3 DEF vars, engines, gui, EngineInv, EngineSafety, TypeOK, DecodeOnAllowedEngine,
     ReadyIsSelected, SlotAsAsked, JobsAsAsked, HandlerKnows
<1> QED BY <1>1, <1>2, <1>3 DEF Next

LEMMA EngineInvAlways == Spec => []EngineInv
  BY InitEstablishes, NextPreserves, PTL DEF Spec

(* For any number of threads, models and acts of the user: every decode    *)
(* runs on an engine its settings allow, and the status bar calls only the *)
(* selected model ready.                                                   *)
THEOREM EngineSafetyAlways == Spec => []EngineSafety
<1>1. EngineInv => EngineSafety
  BY DEF EngineInv
<1> QED BY <1>1, EngineInvAlways, PTL

(* Only a load that holds the lock and a failing decode put an engine into *)
(* the slot.                                                               *)
LEMMA WhoFills ==
  ASSUME [Next]_vars, slot' # slot, slot' # NoEngine
  PROVE  \E j \in Job : Publish(j) \/ Swap(j)
<1>1. ASSUME NEW j \in Job, LoadStep(j) \/ DecodeStep(j) \/ StartDecode(j) \/ Cancel(j)
      PROVE  Publish(j) \/ Swap(j)
  BY <1>1 DEF LoadStep, DecodeStep, Polling, Check, Load, LoadFails, StartDecode, Cancel, Run, LoadCpu
<1>2. CASE Handler \/ User
  BY <1>2 DEF Handler, User, FinishSwitch, FinishLoad, Answer, ChooseEngine, ChooseModel, SetCompute,
     DownloadDone, DeleteModel, OpenWindow, WindowSaves, PageSaves, Save, engines
<1>3. CASE UNCHANGED vars
  BY <1>3 DEF vars, engines
<1> QED BY <1>1, <1>2, <1>3 DEF Next

(* For any number of threads, models and acts of the user: what enters the *)
(* slot is what the configuration selects at that moment, and an engine    *)
(* loaded for a failed decode replaces only the GPU engine of its model.   *)
THEOREM SlotFollowsSelectionAlways == Spec => SlotFollowsSelection
<1>1. ASSUME EngineInv, [Next]_vars, slot' # slot, slot' # NoEngine
      PROVE  /\ slot'.model \in {cache.model, Variant[cache.model]}
             /\ slot'.requested = cache.gpu
             /\ cache.gpu /\ ~cache.fallback => slot'.gpu
             /\ loading' = loading => slot # NoEngine /\ slot.gpu /\ slot.model = slot'.model
  <2>1. PICK j \in Job : Publish(j) \/ Swap(j)
    BY <1>1, WhoFills
  <2>2. AsAsked(job[j]) /\ MayFallBack(job[j]) /\ TypeOK
    BY <1>1 DEF EngineInv, EngineSafety, JobsAsAsked
  <2>3. CASE Publish(j)
    <3>1. SameSelection(cache, job[j].config) /\ slot' = job[j].engine /\ job[j].pc = "publish"
      BY <1>1, <2>3 DEF Publish
    <3>2. loading = j /\ loading' = NoJob /\ j # NoJob
      BY <2>2, <2>3, EngineAssumption DEF Publish, Loaded, TypeOK, Locked
    <3> QED BY <2>2, <3>1, <3>2 DEF AsAsked, SameSelection
  <2>4. CASE Swap(j)
    <3>1. /\ SameSelection(cache, job[j].config) /\ slot = job[j].engine /\ slot' = job[j].cpu
          /\ job[j].pc = "swap"
      BY <1>1, <2>4 DEF Swap
    <3>2. /\ slot.gpu /\ job[j].config.fallback
          /\ slot'.model = slot.model /\ slot'.requested = slot.requested
      BY <2>2, <3>1 DEF MayFallBack
    <3>3. slot # NoEngine
      BY <2>2, <3>1 DEF AsAsked, Engine, NoEngine, EngineId
    <3> QED BY <2>2, <3>1, <3>2, <3>3 DEF AsAsked, SameSelection
  <2> QED BY <2>1, <2>3, <2>4
<1>2. EngineInv /\ [Next]_vars =>
        [slot' # slot /\ slot' # NoEngine =>
           /\ slot'.model \in {cache.model, Variant[cache.model]}
           /\ slot'.requested = cache.gpu
           /\ cache.gpu /\ ~cache.fallback => slot'.gpu]_vars
  BY <1>1
<1>3. EngineInv /\ [Next]_vars =>
        [slot' # slot /\ slot' # NoEngine /\ loading' = loading =>
           slot # NoEngine /\ slot.gpu /\ slot.model = slot'.model]_vars
  BY <1>1
<1>4. Spec => NewerSelectionWins
  BY <1>2, EngineInvAlways, PTL DEF Spec, NewerSelectionWins
<1>5. Spec => SwapReplacesItsOwn
  BY <1>3, EngineInvAlways, PTL DEF Spec, SwapReplacesItsOwn
<1> QED BY <1>4, <1>5 DEF SlotFollowsSelection
=============================================================================
