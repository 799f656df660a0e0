----------------------- MODULE GlobalDictation_proofs -----------------------
(***************************************************************************)
(* Proofs about GlobalDictation, for every number of takes, generations,   *)
(* samples and queue slots.                                                *)
(***************************************************************************)
EXTENDS GlobalDictationInductive, TLAPS

(* Every job on its way has the type of a job.                             *)
LEMMA JobsTyped ==
  ASSUME TypeOK
  PROVE  /\ Jobs \subseteq Job
         /\ \A i \in 1..Len(queue) : queue[i] \in Job
         /\ \A r \in replies : r.job \in Job /\ r \in Reply
         /\ running # None => running \in Job
<1>1. \A i \in 1..Len(queue) : queue[i] \in Job
  BY DEF TypeOK
<1>2. \A r \in replies : r.job \in Job /\ r \in Reply
  BY DEF TypeOK, Reply
<1>3. running # None => running \in Job
  BY DEF TypeOK
<1>4. Jobs \subseteq Job
  BY <1>1, <1>2, <1>3 DEF Jobs, TypeOK
<1> QED
  BY <1>1, <1>2, <1>3, <1>4

(* try_send keeps the channel and the answers well typed.                  *)
LEMMA EnqueueTyped ==
  ASSUME TypeOK, NEW job \in Job, Enqueue(job)
  PROVE  queue' \in Seq(Job) /\ running' \in Job \cup {None} /\ replies' \in SUBSET Reply
<1>1. CASE Len(queue) < QueueCap
  BY <1>1 DEF TypeOK, Enqueue
<1>2. CASE ~(Len(queue) < QueueCap)
  <2>1. [job |-> job, result |-> "full"] \in Reply
    BY DEF Reply, Result
  <2> QED
    BY <1>2, <2>1 DEF TypeOK, Enqueue
<1> QED
  BY <1>1, <1>2

(* The audio a recording hands over at Stop.                               *)
LEMMA TakeAtStopTyped ==
  ASSUME TypeOK
  PROVE  TakeAtStop \in Take
BY DEF TypeOK, TakeAtStop, Take, ChunkState, Part

(* What a final decode and the chunks before it combine to.                *)
LEMMA CombinedTyped ==
  ASSUME NEW r \in Reply, NEW o \in Combined(r)
  PROVE  o \in Entry /\ o.take = r.job.take.id
<1>1. r.job \in Job /\ r.job.take \in Take
  BY DEF Reply, Job
<1>2. PICK said \in BOOLEAN :
         o = [take |-> r.job.take.id, parts |-> Parts(r.job.take, r.result, said),
              incomplete |-> Incomplete(r.result)]
  BY DEF Combined
<1>3. [from |-> r.job.take.from, to |-> r.job.take.to, said |-> said] \in Part
  BY <1>1 DEF Take, Part
<1>4. Parts(r.job.take, r.result, said) \in Seq(Part)
  BY <1>1, <1>3 DEF Parts, Take
<1> QED
  BY <1>1, <1>2, <1>4 DEF Entry, Incomplete, Take

(* A saved transcript replaces the one of the same take.                   *)
LEMMA UpsertTyped ==
  ASSUME history \in SUBSET Entry, NEW e \in Entry
  PROVE  Upsert(e) \in SUBSET Entry
BY DEF Upsert

-----------------------------------------------------------------------------
(* Each action keeps the types.                                            *)
LEMMA TypeStep ==
  ASSUME TypeOK, [Next]_vars
  PROVE  TypeOK'
<1>1. CASE UNCHANGED vars
  BY <1>1 DEF TypeOK, vars, buffer, worker, screen, ghosts
<1>2. CASE WorkerTake
  <2>1. Head(queue) \in Job /\ Tail(queue) \in Seq(Job)
    BY <1>2 DEF WorkerTake, TypeOK
  <2>2. [job |-> Head(queue), result |-> "cancelled"] \in Reply
    BY <2>1 DEF Reply, Result
  <2> QED
    BY <1>2, <2>1, <2>2 DEF WorkerTake, TypeOK, buffer, screen, ghosts
<1>3. CASE WorkerFinish
  <2>1. \A r \in Outcomes(running) : [job |-> running, result |-> r] \in Reply
    BY <1>3 DEF WorkerFinish, TypeOK, Outcomes, Reply, Result
  <2> QED
    BY <1>3, <2>1 DEF WorkerFinish, TypeOK, buffer, screen, ghosts
<1>4. CASE CaptureSample
  BY <1>4 DEF CaptureSample, TypeOK, worker, screen, ghosts
<1>5. CASE Other
  <2>1. CASE OtherStart
    BY <2>1 DEF OtherStart, TypeOK, worker, screen, ghosts
  <2>2. CASE OtherStop
    BY <2>2 DEF OtherStop, TypeOK, worker, screen, ghosts
  <2> QED
    BY <1>5, <2>1, <2>2 DEF Other
<1>6. CASE Start
  <2>1. NewChunkState(gen + 1) \in ChunkState
    BY DEF NewChunkState, ChunkState, TypeOK
  <2>2. takes' \in 0..MaxTakes
    BY <1>6, DictationAssumption DEF Start, TypeOK
  <2>3. gen' \in Nat /\ chunked' \in ChunkState \cup {None} /\ retry' \in Take \cup {None}
    BY <1>6, <2>1 DEF Start, TypeOK
  <2>4. /\ owner' \in {"none", "mini", "other"} /\ rawLen' \in Nat /\ consumed' \in Nat
        /\ panel' \in {"hidden", "recording", "transcribing", "result", "error"}
        /\ retryShown' \in BOOLEAN
    BY <1>6 DEF Start, TypeOK
  <2> QED
    BY <1>6, <2>2, <2>3, <2>4 DEF Start, TypeOK, worker
<1>7. CASE StartRefused
  BY <1>7 DEF StartRefused, TypeOK, buffer, worker, screen, ghosts
<1>8. CASE Stop
  <2>1. TakeAtStop \in Take
    BY TakeAtStopTyped
  <2>2. [kind |-> "tail", gen |-> gen, take |-> TakeAtStop] \in Job
    BY <2>1 DEF Job, TypeOK
  <2>3. queue' \in Seq(Job) /\ running' \in Job \cup {None} /\ replies' \in SUBSET Reply
    BY <1>8, <2>2, EnqueueTyped DEF Stop, Submit
  <2>4. final' \in [1..MaxTakes -> Take \cup {None}]
    BY <1>8, <2>1 DEF Stop, StopCapture, TypeOK
  <2> QED
    BY <1>8, <2>1, <2>3, <2>4 DEF Stop, StopCapture, Submit, Show, TypeOK
<1>9. CASE StopUnready
  <2>1. TakeAtStop \in Take
    BY TakeAtStopTyped
  <2>2. final' \in [1..MaxTakes -> Take \cup {None}]
    BY <1>9, <2>1 DEF StopUnready, StopCapture, TypeOK
  <2>3. [take |-> takes, parts |-> TakeAtStop.chunks, incomplete |-> TRUE] \in Entry
    BY <2>1 DEF Entry, Take, TypeOK
  <2>4. history' \in SUBSET Entry
    BY <1>9, <2>3, UpsertTyped DEF StopUnready, TypeOK
  <2>5. filtered' \in SUBSET Nat
    <3>1. filtered' \in {filtered, filtered \cup {takes}}
      BY <1>9 DEF StopUnready
    <3> QED
      BY <3>1 DEF TypeOK
  <2> QED
    BY <1>9, <2>2, <2>4, <2>5 DEF StopUnready, StopCapture, Show, TypeOK, worker
<1>10. CASE Retry
  <2>1. retry \in Take
    BY <1>10 DEF Retry, TypeOK
  <2>2. [kind |-> "tail", gen |-> gen + 1, take |-> retry] \in Job
    BY <2>1 DEF Job, TypeOK
  <2>3. queue' \in Seq(Job) /\ running' \in Job \cup {None} /\ replies' \in SUBSET Reply
    BY <1>10, <2>2, EnqueueTyped DEF Retry, Submit
  <2>4. gen' \in Nat /\ aborted' \in SUBSET Nat
    BY <1>10 DEF Retry, TypeOK
  <2> QED
    BY <1>10, <2>1, <2>3, <2>4 DEF Retry, Submit, Show, TypeOK, buffer, ghosts
<1>11. CASE Cancel
  <2>1. discarded' \in SUBSET Nat
    <3>1. \A j \in TailJobs : j.take.id \in Nat
      BY JobsTyped DEF TailJobs, Job, Take
    <3>2. takes \in Nat
      BY DEF TypeOK
    <3> QED
      BY <1>11, <3>1, <3>2 DEF Cancel, TypeOK
  <2>2. gen' \in Nat /\ aborted' \in SUBSET Nat
    <3>1. gen' = gen + 1 /\ aborted' = aborted \cup {gen}
      BY <1>11 DEF Cancel
    <3> QED
      BY <3>1 DEF TypeOK
  <2>3. owner' \in {"none", "mini", "other"} /\ rawLen' \in Nat /\ consumed' \in Nat
    BY <1>11 DEF Cancel, TypeOK, buffer
  <2> QED
    BY <1>11, <2>1, <2>2, <2>3 DEF Cancel, TypeOK, worker
<1>12. CASE Close
  BY <1>12 DEF Close, TypeOK, buffer, worker, ghosts
<1>13. CASE ChunkDecode
  <2>1. chunked \in ChunkState
    BY <1>13 DEF ChunkDecode, MayDecode, TypeOK
  <2>2. PICK cut \in (consumed + MinChunk)..rawLen :
          Enqueue([kind |-> "chunk", gen |-> gen,
                   take |-> [id |-> takes, chunks |-> <<>>,
                             from |-> consumed, to |-> cut]])
    BY <1>13 DEF ChunkDecode
  <2>3. [kind |-> "chunk", gen |-> gen,
         take |-> [id |-> takes, chunks |-> <<>>,
                   from |-> consumed, to |-> cut]] \in Job
    BY DictationAssumption DEF Job, Take, TypeOK
  <2>4. queue' \in Seq(Job) /\ running' \in Job \cup {None} /\ replies' \in SUBSET Reply
    BY <2>2, <2>3, EnqueueTyped
  <2> QED
    BY <1>13, <2>1, <2>4 DEF ChunkDecode, ChunkState, TypeOK, buffer, screen, ghosts
<1>14. ASSUME NEW r \in replies, ChunkReply(r)
       PROVE  TypeOK'
  <2>1. r.job.take \in Take
    BY JobsTyped DEF Job
  <2>2. ChunkCurrent(r) => chunked \in ChunkState
    BY DEF ChunkCurrent, TypeOK
  <2>3. ASSUME ChunkCurrent(r), DisableChunking
        PROVE  chunked' \in ChunkState /\ consumed' \in Nat /\ rawLen' \in Nat
    BY <2>2, <2>3 DEF DisableChunking, ChunkState, TypeOK, buffer
  <2>4. ASSUME ChunkCurrent(r), NEW p \in Part, CommitPart(p)
        PROVE  chunked' \in ChunkState /\ consumed' \in Nat /\ rawLen' \in Nat
    <3>1. Append(chunked.parts, p) \in Seq(Part) /\ p.to \in Nat
      BY <2>2, <2>4 DEF ChunkState, Part
    <3>2. chunked' \in ChunkState
      BY <2>2, <2>4, <3>1 DEF CommitPart, ChunkState
    <3> QED
      BY <2>4, <3>1, <3>2 DEF CommitPart, CommitConsumed, TypeOK
  <2>5. chunked' \in ChunkState \cup {None} /\ consumed' \in Nat /\ rawLen' \in Nat
    <3>1. CASE ~ChunkCurrent(r)
      BY <1>14, <3>1 DEF ChunkReply, TypeOK, buffer
    <3>2. CASE ChunkCurrent(r) /\ r.result = "ok"
      <4>1. PICK w \in Watermarks(r.job), said \in BOOLEAN :
              IF w = r.job.take.from
                THEN DisableChunking
                ELSE CommitPart([from |-> r.job.take.from, to |-> w, said |-> said])
        BY <1>14, <3>2 DEF ChunkReply
      <4>2. [from |-> r.job.take.from, to |-> w, said |-> said] \in Part
        BY <2>1 DEF Part, Take, Watermarks
      <4> QED
        BY <3>2, <4>1, <4>2, <2>3, <2>4
    <3>3. CASE ChunkCurrent(r) /\ r.result = "nospeech"
      <4>1. [from |-> r.job.take.from, to |-> r.job.take.to, said |-> FALSE] \in Part
        BY <2>1 DEF Part, Take
      <4> QED
        BY <1>14, <3>3, <4>1, <2>4 DEF ChunkReply
    <3>4. CASE ChunkCurrent(r) /\ r.result \in {"fail", "cancelled", "full"}
      BY <1>14, <3>4, <2>3 DEF ChunkReply
    <3> QED
      BY <1>14, <3>1, <3>2, <3>3, <3>4 DEF ChunkReply
  <2> QED
    BY <1>14, <2>5 DEF ChunkReply, TypeOK, screen, ghosts
<1>15. ASSUME NEW r \in replies, TailReply(r)
       PROVE  TypeOK'
  <2>1. r \in Reply /\ r.job \in Job /\ r.job.take \in Take
    BY JobsTyped DEF Job
  <2>2. ASSUME TailFinished(r)
        PROVE  /\ history' \in SUBSET Entry /\ filtered' \in SUBSET Nat
               /\ retry' \in Take \cup {None} /\ after' \in SUBSET After
               /\ panel' \in {"hidden", "recording", "transcribing", "result", "error"}
               /\ retryShown' \in BOOLEAN
    <3>1. PICK o \in Combined(r), cleaned \in BOOLEAN :
            /\ history' = IF Recorded(o, cleaned, r) THEN Upsert(o) ELSE history
            /\ filtered' = IF HasText(o.parts) /\ ~cleaned
                             THEN filtered \cup {o.take} ELSE filtered
            /\ IF Stale(r)
                 THEN UNCHANGED <<retry, screen, after>>
                 ELSE /\ retry' = Retained(o)
                      /\ ShowOutcome(o, cleaned)
      BY <2>2 DEF TailFinished
    <3>2. o \in Entry /\ o.take \in Nat
      BY <2>1, CombinedTyped DEF Entry
    <3>3. history' \in SUBSET Entry /\ filtered' \in SUBSET Nat
      BY <3>1, <3>2, UpsertTyped DEF TypeOK
    <3>4. \A stage \in {"improve", "deliver"} :
            [take |-> o.take, gen |-> gen, stage |-> stage] \in After
      BY <3>2 DEF After, TypeOK
    <3> QED
      BY <3>1, <3>3, <3>4 DEF TypeOK, Retained, ShowOutcome, Show, screen
  <2>3. ASSUME TailFailed(r)
        PROVE  /\ history' \in SUBSET Entry /\ filtered' \in SUBSET Nat
               /\ retry' \in Take \cup {None} /\ after' \in SUBSET After
               /\ panel' \in {"hidden", "recording", "transcribing", "result", "error"}
               /\ retryShown' \in BOOLEAN
    BY <2>3 DEF TailFailed, Show, TypeOK, screen
  <2>4. CASE Abandoned(r)
    BY <1>15, <2>4 DEF TailReply, TypeOK, buffer, screen
  <2>5. CASE ~Abandoned(r)
    BY <1>15, <2>2, <2>3, <2>5 DEF TailReply, TypeOK, buffer
  <2> QED
    BY <2>4, <2>5
<1>16. ASSUME NEW c \in after, PostProcess(c)
       PROVE  TypeOK'
  <2>1. \A s \in {"improve", "late", "deliver", "copy"} : [c EXCEPT !.stage = s] \in After
    BY DEF TypeOK, After
  <2>2. ASSUME NEW next \in SUBSET {"improve", "late", "deliver", "copy"}, Advance(c, next)
        PROVE  after' \in SUBSET After
    BY <2>1, <2>2 DEF Advance, TypeOK
  <2>3. CASE Improved(c)
    BY <2>2, <2>3 DEF Improved, TypeOK, buffer, worker, screen, ghosts
  <2>4. CASE ImproveTimeout(c)
    BY <2>2, <2>4 DEF ImproveTimeout, TypeOK, buffer, worker, screen, ghosts
  <2>5. CASE Repaint(c)
    BY <2>2, <2>5 DEF Repaint, Show, TypeOK, buffer, worker, screen, ghosts
  <2>6. CASE CopyToClipboard(c)
    BY <2>2, <2>6 DEF CopyToClipboard, TypeOK, buffer, worker, screen, ghosts
  <2>7. CASE ReadBack(c)
    BY <2>2, <2>7 DEF ReadBack, Show, TypeOK, buffer, worker, screen, ghosts
  <2> QED
    BY <1>16, <2>3, <2>4, <2>5, <2>6, <2>7 DEF PostProcess
<1> QED
  BY <1>1, <1>2, <1>3, <1>4, <1>5, <1>6, <1>7, <1>8, <1>9, <1>10, <1>11, <1>12,
     <1>13, <1>14, <1>15, <1>16 DEF Next, User, Continuations

(* The types hold initially.                                               *)
LEMMA TypeInit ==
  ASSUME Init
  PROVE  TypeOK
<1>1. takes \in 0..MaxTakes /\ final \in [1..MaxTakes -> Take \cup {None}]
  BY DictationAssumption DEF Init
<1>2. queue \in Seq(Job) /\ running \in Job \cup {None} /\ replies \in SUBSET Reply
  BY DEF Init
<1> QED
  BY <1>1, <1>2 DEF Init, TypeOK

(* Every state of the dictation is well typed.                             *)
THEOREM TypeCorrect == Spec => []TypeOK
<1>1. Init => TypeOK
  BY TypeInit
<1>2. TypeOK /\ [Next]_vars => TypeOK'
  BY TypeStep
<1> QED
  BY <1>1, <1>2, PTL DEF Spec

-----------------------------------------------------------------------------
(* A part that starts where the tiled samples end extends the tiling.      *)
LEMMA TilesAppend ==
  ASSUME NEW parts \in Seq(Part), NEW a \in Nat, NEW b \in Nat, NEW p \in Part,
         Tiles(parts, a, b), p.from = b, p.from <= p.to
  PROVE  Tiles(Append(parts, p), a, p.to)
<1> DEFINE q == Append(parts, p)
<1>1. /\ q \in Seq(Part) /\ Len(q) = Len(parts) + 1 /\ q # <<>>
      /\ q[Len(parts) + 1] = p
      /\ \A i \in 1..Len(parts) : q[i] = parts[i]
  OBVIOUS
<1>2. q[1].from = a
  <2>1. CASE parts = <<>>
    BY <2>1, <1>1 DEF Tiles
  <2>2. CASE parts # <<>>
    BY <2>2, <1>1 DEF Tiles
  <2> QED
    BY <2>1, <2>2
<1>3. \A i \in 1..Len(q) : q[i].from <= q[i].to
  BY <1>1 DEF Tiles
<1>4. ASSUME NEW i \in 1..(Len(q) - 1)
      PROVE  q[i].to = q[i + 1].from
  <2>1. CASE i = Len(parts)
    BY <2>1, <1>1 DEF Tiles
  <2>2. CASE i # Len(parts)
    <3>1. i \in 1..(Len(parts) - 1) /\ i + 1 \in 1..Len(parts)
      BY <2>2, <1>1
    <3> QED
      BY <3>1, <1>1 DEF Tiles
  <2> QED
    BY <2>1, <2>2
<1> QED
  BY <1>1, <1>2, <1>3, <1>4 DEF Tiles

-----------------------------------------------------------------------------
(* How the actions move jobs.                                              *)

(* try_send adds one job, to the channel or, rejected, to the answers.     *)
LEMMA EnqueueJobs ==
  ASSUME TypeOK, NEW job \in Job, Enqueue(job)
  PROVE  Jobs' \subseteq Jobs \cup {job}
<1>1. CASE Len(queue) < QueueCap
  <2>1. queue' = Append(queue, job) /\ running' = running /\ replies' = replies
    BY <1>1 DEF Enqueue
  <2>2. \A i \in DOMAIN queue' : queue'[i] = job \/ \E k \in DOMAIN queue : queue'[i] = queue[k]
    BY <2>1 DEF TypeOK
  <2> QED
    BY <2>1, <2>2 DEF Jobs
<1>2. CASE ~(Len(queue) < QueueCap)
  <2>1. queue' = queue /\ running' = running
        /\ replies' = replies \cup {[job |-> job, result |-> "full"]}
    BY <1>2 DEF Enqueue
  <2> QED
    BY <2>1 DEF Jobs
<1> QED
  BY <1>1, <1>2

(* The worker only moves jobs on.                                          *)
LEMMA WorkerJobs ==
  ASSUME TypeOK, WorkerTake \/ WorkerFinish
  PROVE  Jobs' \subseteq Jobs
<1>1. CASE WorkerTake
  <2>1. /\ Head(queue) = queue[1] /\ 1 \in DOMAIN queue
        /\ \A i \in DOMAIN Tail(queue) : i + 1 \in DOMAIN queue /\ Tail(queue)[i] = queue[i + 1]
    BY <1>1 DEF WorkerTake, TypeOK
  <2>2. queue' = Tail(queue)
    BY <1>1 DEF WorkerTake
  <2>3. \A r \in replies' : r \in replies \/ r.job = Head(queue)
    BY <1>1 DEF WorkerTake
  <2>4. running' = running \/ running' = Head(queue)
    BY <1>1 DEF WorkerTake
  <2> QED
    BY <2>1, <2>2, <2>3, <2>4 DEF Jobs
<1>2. CASE WorkerFinish
  <2>1. /\ queue' = queue /\ running # None /\ running' = None
        /\ \A r \in replies' : r \in replies \/ r.job = running
    BY <1>2 DEF WorkerFinish
  <2> QED
    BY <2>1 DEF Jobs
<1> QED
  BY <1>1, <1>2

(* An answer that was looked at is gone.                                   *)
LEMMA ReplyJobs ==
  ASSUME replies' \subseteq replies, UNCHANGED <<queue, running>>
  PROVE  Jobs' \subseteq Jobs
BY DEF Jobs

(* Without a live chunk there is nothing to say about live chunks.         *)
LEMMA NoneLive ==
  ASSUME \A j \in Jobs' : ~(j.kind = "chunk" /\ chunked' # None /\ j.gen = chunked'.gen)
  PROVE  OneChunkInFlight' /\ LiveChunkFits'
<1>1. /\ \A i \in DOMAIN queue' : queue'[i] \in Jobs'
      /\ \A r \in replies' : r.job \in Jobs'
      /\ running' # None => running' \in Jobs'
  BY DEF Jobs
<1> QED
  BY <1>1 DEF OneChunkInFlight, LiveChunkFits, Live

(* While nobody dictates no chunk is live.                                 *)
LEMMA NoneLiveIdle ==
  ASSUME LiveChunkFits, owner # "mini"
  PROVE  \A j \in Jobs : ~Live(j)
BY DEF LiveChunkFits

-----------------------------------------------------------------------------
(* One live chunk at a time, and it fits the buffer.                       *)
LEMMA LiveStep ==
  ASSUME TypeOK, GensBounded, OneChunkInFlight, LiveChunkFits, [Next]_vars
  PROVE  OneChunkInFlight' /\ LiveChunkFits'
<1>1. CASE UNCHANGED <<worker, chunked, owner, gen, consumed>> /\ rawLen' \in {rawLen, rawLen + 1}
  <2>1. Jobs' = Jobs
    BY <1>1 DEF Jobs, worker
  <2>2. OneChunkInFlight'
    BY <1>1 DEF OneChunkInFlight, Live, worker
  <2>3. \A j \in Jobs : j.take.to \in Nat
    BY JobsTyped DEF Job, Take
  <2> QED
    BY <1>1, <2>1, <2>2, <2>3 DEF LiveChunkFits, Live, TypeOK
<1>2. CASE Jobs' \subseteq Jobs /\ (chunked' = None \/ (UNCHANGED chunked /\ owner # "mini"))
  BY <1>2, NoneLive, NoneLiveIdle DEF Live
<1>3. CASE WorkerTake
  <2>1. Jobs' \subseteq Jobs /\ UNCHANGED <<chunked, owner, gen, consumed, rawLen>>
    BY <1>3, WorkerJobs DEF WorkerTake, buffer
  <2>2. LiveChunkFits'
    BY <2>1 DEF LiveChunkFits, Live
  <2>3. /\ Head(queue) = queue[1] /\ 1 \in DOMAIN queue /\ queue' = Tail(queue)
        /\ running = None
        /\ \A i \in DOMAIN queue' : i + 1 \in DOMAIN queue /\ queue'[i] = queue[i + 1]
                                     /\ i \in Nat \ {0}
    BY <1>3 DEF WorkerTake, TypeOK
  <2>4. \A j : Live(j)' <=> Live(j)
    BY <2>1 DEF Live
  <2>5. \/ running' = None /\ replies' = replies \cup {[job |-> Head(queue), result |-> "cancelled"]}
        \/ running' = Head(queue) /\ replies' = replies
    BY <1>3, <2>3 DEF WorkerTake
  <2>6. \A i \in DOMAIN queue : \A r \in replies : Live(queue[i]) => ~Live(r.job)
    BY DEF OneChunkInFlight
  <2>7. \A i \in DOMAIN queue' : Live(queue'[i]) => ~Live(Head(queue))
    BY <2>3 DEF OneChunkInFlight
  <2>8. /\ \A i, k \in DOMAIN queue' : Live(queue'[i]) /\ Live(queue'[k]) => i = k
        /\ \A i \in DOMAIN queue' : Live(queue'[i]) => \A r \in replies' : ~Live(r.job)
        /\ \A i \in DOMAIN queue' : Live(queue'[i]) => running' = None \/ ~Live(running')
    <3>1. ASSUME NEW i \in DOMAIN queue', NEW k \in DOMAIN queue',
                 Live(queue'[i]), Live(queue'[k])
          PROVE  i = k
      <4>1. i + 1 = k + 1
        BY <2>3, <3>1 DEF OneChunkInFlight
      <4> QED
        BY <4>1, <2>3
    <3>2. ASSUME NEW i \in DOMAIN queue', Live(queue'[i])
          PROVE  /\ \A r \in replies' : ~Live(r.job)
                 /\ running' = None \/ ~Live(running')
      BY <2>3, <2>5, <2>6, <2>7, <3>2
    <3> QED
      BY <3>1, <3>2
  <2>9. /\ running' # None /\ Live(running') => \A r \in replies' : ~Live(r.job)
        /\ \A r, s \in replies' : Live(r.job) /\ Live(s.job) => r = s
    BY <2>3, <2>5, <2>6 DEF OneChunkInFlight
  <2> QED
    BY <2>2, <2>4, <2>8, <2>9 DEF OneChunkInFlight
<1>4. CASE WorkerFinish
  <2>1. Jobs' \subseteq Jobs /\ UNCHANGED <<chunked, owner, gen, consumed, rawLen, queue>>
    BY <1>4, WorkerJobs DEF WorkerFinish, buffer
  <2>2. LiveChunkFits'
    BY <2>1 DEF LiveChunkFits, Live
  <2>3. PICK res : replies' = replies \cup {[job |-> running, result |-> res]}
    BY <1>4 DEF WorkerFinish
  <2>4. running # None /\ running' = None
    BY <1>4 DEF WorkerFinish
  <2> QED
    BY <2>1, <2>2, <2>3, <2>4 DEF OneChunkInFlight, Live
<1>5. CASE Start
  <2>1. Jobs' = Jobs /\ (chunked' = None \/ chunked'.gen = gen + 1)
    BY <1>5 DEF Start, Jobs, worker, NewChunkState
  <2>2. \A j \in Jobs : j.gen \in Nat /\ j.gen <= gen
    BY JobsTyped DEF GensBounded, Job
  <2> QED
    BY <2>1, <2>2, NoneLive DEF TypeOK
<1>6. ASSUME NEW job \in Job, Enqueue(job), job.kind = "tail",
             chunked' = None \/ (UNCHANGED chunked /\ owner # "mini")
      PROVE  OneChunkInFlight' /\ LiveChunkFits'
  BY <1>6, EnqueueJobs, NoneLive, NoneLiveIdle DEF Live
<1>7. CASE Stop
  <2>1. [kind |-> "tail", gen |-> gen, take |-> TakeAtStop] \in Job
    BY TakeAtStopTyped DEF Job, TypeOK
  <2>2. /\ Enqueue([kind |-> "tail", gen |-> gen, take |-> TakeAtStop])
        /\ chunked' = None
    BY <1>7 DEF Stop, StopCapture, Submit
  <2> QED
    BY <1>6, <2>1, <2>2
<1>8. CASE Retry
  <2>1. [kind |-> "tail", gen |-> gen + 1, take |-> retry] \in Job
    BY <1>8 DEF Retry, Job, TypeOK
  <2> QED
    BY <1>6, <1>8, <2>1 DEF Retry, Submit
<1>9. CASE ChunkDecode
  <2>1. PICK cut \in (consumed + MinChunk)..rawLen :
          Enqueue([kind |-> "chunk", gen |-> gen,
                   take |-> [id |-> takes, chunks |-> <<>>,
                             from |-> consumed, to |-> cut]])
    BY <1>9 DEF ChunkDecode
  <2> DEFINE job == [kind |-> "chunk", gen |-> gen,
                     take |-> [id |-> takes, chunks |-> <<>>,
                               from |-> consumed, to |-> cut]]
  <2>2. job \in Job /\ cut \in Nat /\ consumed < cut /\ cut <= rawLen
    BY DictationAssumption DEF Job, Take, TypeOK
  <2>3. /\ owner = "mini" /\ chunked # None /\ chunked \in ChunkState
        /\ chunked.gen = gen /\ ~chunked.pending
        /\ UNCHANGED <<owner, gen, rawLen, consumed>>
    BY <1>9 DEF ChunkDecode, MayDecode, TypeOK, buffer
  <2>4. chunked' # None => chunked'.gen = gen /\ chunked'.pending
    BY <1>9, <2>3 DEF ChunkDecode, ChunkState
  <2>5. \A j \in Jobs : ~Live(j)
    BY <2>3 DEF LiveChunkFits
  <2>6. \A j \in Jobs : j.kind = "chunk" => j.gen # gen
    BY <2>3, <2>5 DEF Live
  <2>7. Jobs' \subseteq Jobs \cup {job}
    BY <2>1, <2>2, EnqueueJobs
  <2>8. LiveChunkFits'
    <3>1. ASSUME NEW j \in Jobs', j.kind = "chunk", chunked' # None, j.gen = chunked'.gen
          PROVE  j = job
      BY <2>4, <2>6, <2>7, <3>1
    <3> QED
      BY <2>2, <2>3, <2>4, <3>1 DEF LiveChunkFits, Live
  <2>9. \A j \in Jobs : ~Live(j)'
    BY <2>4, <2>6 DEF Live
  <2>10. /\ \A i \in DOMAIN queue : queue[i] \in Jobs
         /\ \A r \in replies : r.job \in Jobs
         /\ running # None => running \in Jobs
    BY DEF Jobs
  <2>11. OneChunkInFlight'
    <3>1. CASE Len(queue) < QueueCap
      <4>1. queue' = Append(queue, job) /\ running' = running /\ replies' = replies
        BY <2>1, <3>1 DEF Enqueue
      <4>2. \A i \in DOMAIN queue' : i = Len(queue) + 1 \/ (i \in DOMAIN queue /\ queue'[i] = queue[i])
        BY <2>2, <4>1 DEF TypeOK
      <4> QED
        BY <2>9, <2>10, <4>1, <4>2 DEF OneChunkInFlight, Live
    <3>2. CASE ~(Len(queue) < QueueCap)
      <4>1. queue' = queue /\ running' = running
            /\ replies' = replies \cup {[job |-> job, result |-> "full"]}
        BY <2>1, <3>2 DEF Enqueue
      <4> QED
        BY <2>9, <2>10, <4>1 DEF OneChunkInFlight, Live
    <3> QED
      BY <3>1, <3>2
  <2> QED
    BY <2>8, <2>11
<1>10. ASSUME NEW r \in replies, ChunkReply(r)
       PROVE  OneChunkInFlight' /\ LiveChunkFits'
  <2>1. replies' \subseteq replies /\ r \notin replies'
        /\ UNCHANGED <<queue, running, owner, gen>> /\ r.job.kind = "chunk"
    BY <1>10 DEF ChunkReply
  <2>2. Jobs' \subseteq Jobs
    BY <2>1, ReplyJobs
  <2>3. CASE ~ChunkCurrent(r)
    <3>1. UNCHANGED <<chunked, rawLen, consumed>>
      BY <1>10, <2>3 DEF ChunkReply, buffer
    <3> QED
      BY <2>1, <2>2, <3>1 DEF OneChunkInFlight, LiveChunkFits, Live
  <2>4. CASE ChunkCurrent(r)
    <3>1. Live(r.job)
      BY <2>1, <2>4 DEF Live, ChunkCurrent
    <3>2. \A j \in Jobs' : ~Live(j)
      BY <2>1, <3>1 DEF Jobs, OneChunkInFlight
    <3>3. chunked \in ChunkState
      BY <2>4 DEF ChunkCurrent, TypeOK
    <3>4. (\E p : CommitPart(p)) \/ DisableChunking
      BY <1>10, <2>4 DEF ChunkReply
    <3>5. chunked'.gen = chunked.gen /\ chunked # None
      BY <2>4, <3>3, <3>4 DEF CommitPart, DisableChunking, ChunkState, ChunkCurrent
    <3> QED
      BY <3>2, <3>5, NoneLive DEF Live
  <2> QED
    BY <2>3, <2>4
<1>11. ASSUME NEW r \in replies, TailReply(r)
       PROVE  OneChunkInFlight' /\ LiveChunkFits'
  <2>1. /\ replies' \subseteq replies
        /\ UNCHANGED <<queue, running, owner, gen, chunked, rawLen, consumed>>
    BY <1>11 DEF TailReply, buffer
  <2>2. Jobs' \subseteq Jobs
    BY <2>1, ReplyJobs
  <2> QED
    BY <2>1, <2>2 DEF OneChunkInFlight, LiveChunkFits, Live
<1>12. CASE UNCHANGED vars
  BY <1>1, <1>12 DEF vars, buffer, TypeOK
<1>13. CASE CaptureSample
  BY <1>1, <1>13 DEF CaptureSample, TypeOK
<1>14. CASE Other
  <2>1. Jobs' \subseteq Jobs /\ chunked' = chunked /\ owner # "mini"
    BY <1>14 DEF Other, OtherStart, OtherStop, Jobs, worker
  <2> QED
    BY <2>1, <1>2
<1>15. CASE StartRefused \/ Close
  BY <1>1, <1>15 DEF StartRefused, Close, buffer, TypeOK
<1>16. CASE StopUnready \/ Cancel
  <2>1. Jobs' \subseteq Jobs /\ chunked' = None
    BY <1>16 DEF StopUnready, StopCapture, Cancel, Jobs, worker
  <2> QED
    BY <2>1, <1>2
<1>17. ASSUME NEW c \in after, PostProcess(c)
       PROVE  OneChunkInFlight' /\ LiveChunkFits'
  BY <1>1, <1>17 DEF PostProcess,
     Improved, ImproveTimeout, Repaint, CopyToClipboard, ReadBack, buffer, TypeOK
<1> QED
  BY <1>3, <1>4, <1>5, <1>7, <1>8, <1>9, <1>10, <1>11, <1>12, <1>13, <1>14, <1>15,
     <1>16, <1>17 DEF Next, User, Continuations

(* What an action may do to the jobs on their way.                         *)
LEMMA JobsStep ==
  ASSUME TypeOK, [Next]_vars
  PROVE  \A j \in Jobs' :
           \/ j \in Jobs
           \/ j.kind = "chunk" /\ j.gen = gen /\ gen' = gen
           \/ Stop /\ j.kind = "tail" /\ j.gen = gen /\ gen' = gen /\ j.take = TakeAtStop
           \/ Retry /\ j.kind = "tail" /\ j.gen = gen' /\ gen' = gen + 1 /\ j.take = retry
<1>1. CASE UNCHANGED worker
  BY <1>1 DEF Jobs, worker
<1>2. CASE WorkerTake \/ WorkerFinish
  BY <1>2, WorkerJobs
<1>3. CASE Stop
  <2>1. [kind |-> "tail", gen |-> gen, take |-> TakeAtStop] \in Job
    BY TakeAtStopTyped DEF Job, TypeOK
  <2>2. Enqueue([kind |-> "tail", gen |-> gen, take |-> TakeAtStop]) /\ gen' = gen
    BY <1>3 DEF Stop, Submit
  <2> QED
    BY <1>3, <2>1, <2>2, EnqueueJobs
<1>4. CASE Retry
  <2>1. [kind |-> "tail", gen |-> gen + 1, take |-> retry] \in Job
    BY <1>4 DEF Retry, Job, TypeOK
  <2>2. Enqueue([kind |-> "tail", gen |-> gen + 1, take |-> retry]) /\ gen' = gen + 1
    BY <1>4 DEF Retry, Submit
  <2> QED
    BY <1>4, <2>1, <2>2, EnqueueJobs
<1>5. CASE ChunkDecode
  <2>1. PICK cut \in (consumed + MinChunk)..rawLen :
          Enqueue([kind |-> "chunk", gen |-> gen,
                   take |-> [id |-> takes, chunks |-> <<>>,
                             from |-> consumed, to |-> cut]])
    BY <1>5 DEF ChunkDecode
  <2>2. [kind |-> "chunk", gen |-> gen,
         take |-> [id |-> takes, chunks |-> <<>>,
                   from |-> consumed, to |-> cut]] \in Job
    BY DictationAssumption DEF Job, Take, TypeOK
  <2>3. gen' = gen
    BY <1>5 DEF ChunkDecode
  <2> QED
    BY <2>1, <2>2, <2>3, EnqueueJobs
<1>6. ASSUME NEW r \in replies, ChunkReply(r) \/ TailReply(r)
      PROVE  Jobs' \subseteq Jobs
  BY <1>6, ReplyJobs DEF ChunkReply, TailReply
<1>7. CASE \E c \in after : PostProcess(c)
  BY <1>1, <1>7 DEF PostProcess,
     Improved, ImproveTimeout, Repaint, CopyToClipboard, ReadBack
<1>8. CASE StartRefused \/ StopUnready \/ Cancel \/ Close \/ Start \/ Other \/ CaptureSample
  BY <1>1, <1>8 DEF StartRefused, StopUnready, Cancel, Close, Start, Other, OtherStart,
     OtherStop, CaptureSample
<1>9. CASE UNCHANGED vars
  BY <1>1, <1>9 DEF vars
<1> QED
  BY <1>2, <1>3, <1>4, <1>5, <1>6, <1>7, <1>8, <1>9 DEF Next, User, Continuations

(* Generations only grow, and the chunk state is never from a later one.   *)
LEMMA GensStep ==
  ASSUME TypeOK, GensBounded, [Next]_vars
  PROVE  GensBounded' /\ gen' >= gen
<1>1. gen' \in {gen, gen + 1}
  BY DEF Next, User, Other, Continuations, vars, Start, StartRefused, Stop, StopUnready,
     Retry, Cancel, Close, OtherStart, OtherStop, CaptureSample, ChunkDecode, WorkerTake,
     WorkerFinish, ChunkReply, TailReply, PostProcess,
     Improved, ImproveTimeout, Repaint, CopyToClipboard, ReadBack
<1>2. \A j \in Jobs : j.gen \in Nat
  BY JobsTyped DEF Job
<1>3. \A j \in Jobs' : j.gen <= gen'
  BY <1>1, <1>2, JobsStep DEF GensBounded, TypeOK
<1>4. chunked' # None => chunked'.gen <= gen'
  <2>1. CASE chunked' = chunked
    BY <1>1, <2>1 DEF GensBounded, TypeOK, ChunkState
  <2>2. CASE Start
    BY <2>2 DEF Start, NewChunkState, TypeOK
  <2>3. CASE Stop \/ StopUnready \/ Cancel
    BY <2>3 DEF Stop, StopUnready, StopCapture, Cancel
  <2>4. CASE ChunkDecode
    BY <1>1, <2>4 DEF ChunkDecode, MayDecode, GensBounded, TypeOK, ChunkState
  <2>5. ASSUME NEW r \in replies, ChunkReply(r)
        PROVE  chunked' # None => chunked'.gen <= gen'
    <3>1. CASE ~ChunkCurrent(r)
      BY <2>1, <2>5, <3>1 DEF ChunkReply
    <3>2. CASE ChunkCurrent(r)
      <4>1. chunked \in ChunkState /\ chunked # None
        BY <3>2 DEF ChunkCurrent, TypeOK
      <4>2. (\E p : CommitPart(p)) \/ DisableChunking
        BY <2>5, <3>2 DEF ChunkReply
      <4>3. chunked'.gen = chunked.gen
        BY <4>1, <4>2 DEF CommitPart, DisableChunking, ChunkState
      <4> QED
        BY <1>1, <4>1, <4>3 DEF GensBounded, TypeOK, ChunkState
    <3> QED
      BY <3>1, <3>2
  <2> QED
    BY <2>1, <2>2, <2>3, <2>4, <2>5 DEF Next, User, Other, Continuations, vars,
       StartRefused, Retry, Close, OtherStart, OtherStop, CaptureSample, WorkerTake,
       WorkerFinish, TailReply, PostProcess,
     Improved, ImproveTimeout, Repaint, CopyToClipboard, ReadBack
<1>5. \A g \in aborted' : g < gen'
  <2>1. \/ aborted' = aborted
        \/ aborted' = aborted \cup {gen} /\ gen' = gen + 1
    BY DEF Next, User, Other, Continuations, vars, Start, StartRefused, Stop, StopUnready,
       Retry, Cancel, Close, OtherStart, OtherStop, CaptureSample, ChunkDecode, WorkerTake,
       WorkerFinish, ChunkReply, TailReply, PostProcess,
     Improved, ImproveTimeout, Repaint, CopyToClipboard, ReadBack
  <2>2. \A g \in aborted : g \in Nat /\ g < gen
    BY DEF GensBounded, TypeOK
  <2>3. gen \in Nat
    BY DEF TypeOK
  <2>4. CASE aborted' = aborted
    BY <1>1, <2>2, <2>3, <2>4
  <2>5. CASE aborted' = aborted \cup {gen} /\ gen' = gen + 1
    BY <2>2, <2>3, <2>5
  <2> QED
    BY <2>1, <2>4, <2>5
<1> QED
  BY <1>1, <1>3, <1>4, <1>5 DEF GensBounded, TypeOK

-----------------------------------------------------------------------------
(* Stop hands over what the chunks did not cover.                          *)
LEMMA TakeAtStopTiled ==
  ASSUME TypeOK, ChunksMatchBuffer, owner = "mini"
  PROVE  /\ TakeAtStop \in Take /\ TakeAtStop.id = takes
         /\ TakeAtStop.from = consumed /\ TakeAtStop.to = rawLen
         /\ Tiles(TakeAtStop.chunks, 0, TakeAtStop.from)
         /\ TakeAtStop.from <= TakeAtStop.to
<1>1. TakeAtStop \in Take /\ TakeAtStop.id = takes
      /\ TakeAtStop.from = consumed /\ TakeAtStop.to = rawLen
  BY TakeAtStopTyped DEF TakeAtStop
<1>2. Tiles(TakeAtStop.chunks, 0, consumed)
  <2>1. CASE chunked # None /\ chunked.gen = gen
    BY <2>1 DEF ChunksMatchBuffer, TakeAtStop
  <2>2. CASE ~(chunked # None /\ chunked.gen = gen)
    BY <2>2 DEF ChunksMatchBuffer, TakeAtStop, Tiles
  <2> QED
    BY <2>1, <2>2
<1> QED
  BY <1>1, <1>2 DEF ChunksMatchBuffer

(* Only Stop assigns a take's final audio, and only once.                  *)
LEMMA FinalStep ==
  ASSUME TypeOK, TakesFresh, [Next]_vars
  PROVE  /\ \/ UNCHANGED final
            \/ /\ Stop \/ StopUnready
               /\ owner = "mini" /\ owner' = "none"
               /\ takes \in 1..MaxTakes /\ final[takes] = None /\ takes' = takes
               /\ final' = [final EXCEPT ![takes] = TakeAtStop]
         /\ \A t \in 1..MaxTakes : final[t] # None => final'[t] = final[t]
<1>1. CASE UNCHANGED final
  BY <1>1
<1>2. CASE Stop \/ StopUnready
  <2>1. /\ owner = "mini" /\ owner' = "none" /\ takes' = takes
        /\ final' = [final EXCEPT ![takes] = TakeAtStop]
    BY <1>2 DEF Stop, StopUnready, StopCapture
  <2>2. takes \in 1..MaxTakes /\ final[takes] = None
    BY <2>1 DEF TakesFresh, TypeOK
  <2> QED
    BY <1>2, <2>1, <2>2 DEF TypeOK
<1> QED
  BY <1>1, <1>2 DEF Next, User, Other, Continuations, vars, ghosts, Start, StartRefused,
     Retry, Cancel, Close, OtherStart, OtherStop, CaptureSample, ChunkDecode, WorkerTake,
     WorkerFinish, ChunkReply, TailReply, PostProcess,
     Improved, ImproveTimeout, Repaint, CopyToClipboard, ReadBack

(* A take being recorded has not been stopped before.                      *)
LEMMA FreshStep ==
  ASSUME TypeOK, TakesFresh, [Next]_vars
  PROVE  TakesFresh'
<1>1. CASE Start
  <2>1. CASE owner' = "mini"
    <3>1. takes' = takes + 1 /\ takes + 1 \in 1..MaxTakes /\ final' = final
      BY <1>1, <2>1, DictationAssumption DEF Start, TypeOK
    <3> QED
      BY <3>1 DEF TakesFresh, TypeOK
  <2>2. CASE owner' # "mini"
    BY <1>1, <2>2 DEF Start, TakesFresh, TypeOK
  <2> QED
    BY <2>1, <2>2
<1>2. CASE takes' = takes /\ UNCHANGED final /\ (owner' = "mini" => owner = "mini")
  BY <1>2 DEF TakesFresh
<1>3. CASE Stop \/ StopUnready
  <2>1. /\ owner' = "none" /\ takes' = takes
        /\ final' = [final EXCEPT ![takes] = TakeAtStop]
    BY <1>3 DEF Stop, StopUnready, StopCapture
  <2> QED
    BY <2>1 DEF TakesFresh, TypeOK
<1> QED
  BY <1>1, <1>2, <1>3 DEF Next, User, Other, Continuations, vars, ghosts, StartRefused,
     Retry, Cancel, Close, OtherStart, OtherStop, CaptureSample, ChunkDecode, WorkerTake,
     WorkerFinish, ChunkReply, TailReply, PostProcess,
     Improved, ImproveTimeout, Repaint, CopyToClipboard, ReadBack

(* Each stopped take is tiled by its chunks and its tail.                  *)
LEMMA TiledStep ==
  ASSUME TypeOK, TakesFresh, ChunksMatchBuffer, FinalTiled, [Next]_vars
  PROVE  FinalTiled'
<1>1. CASE UNCHANGED final
  BY <1>1 DEF FinalTiled
<1>2. CASE final' # final
  <2>1. /\ owner = "mini" /\ takes \in 1..MaxTakes
        /\ final' = [final EXCEPT ![takes] = TakeAtStop]
    BY <1>2, FinalStep
  <2>2. /\ TakeAtStop.id = takes
        /\ Tiles(TakeAtStop.chunks, 0, TakeAtStop.from)
        /\ TakeAtStop.from <= TakeAtStop.to
    BY <2>1, TakeAtStopTiled
  <2>3. ASSUME NEW t \in 1..MaxTakes, final'[t] # None
        PROVE  /\ final'[t].id = t
               /\ Tiles(final'[t].chunks, 0, final'[t].from)
               /\ final'[t].from <= final'[t].to
    <3>1. CASE t = takes
      BY <2>1, <2>2, <3>1 DEF TypeOK
    <3>2. CASE t # takes
      BY <2>1, <2>3, <3>2 DEF TypeOK, FinalTiled
    <3> QED
      BY <3>1, <3>2
  <2> QED
    BY <2>3 DEF FinalTiled, Tiles
<1> QED
  BY <1>1, <1>2

(* Final decodes and the retained audio stay those of the stopped takes.   *)
LEMMA TakesFinalStep ==
  ASSUME TypeOK, TakesFresh, ChunksMatchBuffer, TakesFinal, [Next]_vars
  PROVE  TakesFinal'
<1>1. ASSUME NEW take, IsFinal(take)
      PROVE  IsFinal(take)'
  BY <1>1, FinalStep DEF IsFinal
<1>2. ASSUME Stop, NEW take, take = TakeAtStop
      PROVE  IsFinal(take)' /\ retry' = take
  <2>1. /\ owner = "mini" /\ final' = [final EXCEPT ![takes] = TakeAtStop]
        /\ retry' = TakeAtStop
    BY <1>2 DEF Stop, StopCapture, Submit
  <2>2. takes \in 1..MaxTakes /\ take.id = takes /\ take \in Take
    BY <1>2, <2>1, TakeAtStopTiled DEF TakesFresh, TypeOK
  <2>3. final'[takes] = take
    BY <1>2, <2>1, <2>2 DEF TypeOK
  <2> QED
    BY <1>2, <2>1, <2>2, <2>3, NoneAssumption DEF IsFinal
<1>3. ASSUME NEW j \in TailJobs'
      PROVE  IsFinal(j.take)'
  <2>1. CASE j \in Jobs
    BY <1>1, <1>3, <2>1 DEF TakesFinal, TailJobs
  <2>2. CASE Stop /\ j.take = TakeAtStop
    BY <1>2, <2>2
  <2>3. CASE Retry /\ j.take = retry
    BY <1>1, <2>3 DEF TakesFinal, Retry
  <2> QED
    BY <1>3, <2>1, <2>2, <2>3, JobsStep DEF TailJobs
<1>4. ASSUME NEW take, retry' = take, take # None
      PROVE  IsFinal(take)'
  <2>1. retry' = retry \/ retry' = None \/ Stop
    BY DEF Next, User, Other, Continuations, vars, ghosts, StartRefused, Start, Retry,
       Submit, StopUnready, Cancel, Close, OtherStart, OtherStop, CaptureSample,
       ChunkDecode, WorkerTake, WorkerFinish, ChunkReply, TailReply, TailFinished,
       TailFailed, Retained, PostProcess,
     Improved, ImproveTimeout, Repaint, CopyToClipboard, ReadBack
  <2> QED
    BY <1>1, <1>2, <1>4, <2>1 DEF TakesFinal
<1> QED
  BY <1>3, <1>4 DEF TakesFinal, IsFinal

(* A committed chunk extends the tiling of the committed audio.            *)
LEMMA CommitTiles ==
  ASSUME TypeOK, ChunksMatchBuffer, owner = "mini", chunked # None, chunked.gen = gen,
         NEW p \in Part, p.from = consumed, consumed < p.to, p.to <= rawLen,
         CommitPart(p), UNCHANGED <<owner, gen>>
  PROVE  ChunksMatchBuffer'
<1>1. chunked \in ChunkState /\ chunked.parts \in Seq(Part)
  BY DEF TypeOK, ChunkState
<1>2. consumed' = p.to /\ rawLen' = rawLen
  BY DEF CommitPart, CommitConsumed, Part
<1>3. chunked'.parts = Append(chunked.parts, p) /\ chunked'.gen = gen
  BY <1>1 DEF CommitPart, ChunkState
<1>4. Tiles(chunked.parts, 0, consumed)
  BY DEF ChunksMatchBuffer
<1>5. Tiles(Append(chunked.parts, p), 0, p.to)
  <2>1. p.to \in Nat /\ consumed \in Nat /\ p.from <= p.to
    BY DEF Part, TypeOK
  <2> QED
    BY <1>1, <1>4, <2>1, TilesAppend
<1>6. Tiles(chunked'.parts, 0, consumed')
  BY <1>2, <1>3, <1>5
<1>7. Tiles(chunked.parts, 0, consumed)'
  BY <1>6 DEF Tiles
<1>8. chunked' # None => chunked'.gen = gen'
  BY <1>3
<1>9. chunked' # None
  <2>1. Append(chunked.parts, p) \in Seq(Part)
    BY <1>1
  <2>2. chunked' \in ChunkState
    BY <1>1, <2>1 DEF CommitPart, ChunkState
  <2> QED
    BY <2>2, NoneAssumption
<1> QED
  BY <1>2, <1>7, <1>8, <1>9 DEF ChunksMatchBuffer

(* The chunk texts kept stay those of the committed audio.                 *)
LEMMA BufferStep ==
  ASSUME TypeOK, GensBounded, OneChunkInFlight, LiveChunkFits, ChunksMatchBuffer,
         [Next]_vars
  PROVE  ChunksMatchBuffer'
<1>1. CASE /\ UNCHANGED <<owner, gen, chunked, consumed>>
           /\ rawLen' \in {rawLen, rawLen + 1}
  BY <1>1 DEF ChunksMatchBuffer, Tiles, TypeOK
<1>2. CASE owner' # "mini" /\ consumed' = 0
  BY <1>2 DEF ChunksMatchBuffer
<1>3. CASE Start
  <2>1. consumed' = 0 /\ rawLen' = 0
    BY <1>3 DEF Start
  <2>2. chunked' = None \/ chunked' = NewChunkState(gen + 1)
    BY <1>3 DEF Start
  <2>3. chunked' = None \/ chunked'.parts = <<>>
    BY <2>2 DEF NewChunkState
  <2> QED
    BY <2>1, <2>3 DEF ChunksMatchBuffer, Tiles
<1>4. CASE Retry
  <2>1. owner' = "none" /\ consumed' = consumed /\ consumed = 0
    BY <1>4 DEF Retry, buffer, ChunksMatchBuffer
  <2> QED
    BY <1>2, <2>1
<1>5. CASE Cancel
  <2>1. owner' # "mini" /\ consumed' = 0
    BY <1>5 DEF Cancel, buffer, ChunksMatchBuffer
  <2> QED
    BY <1>2, <2>1
<1>6. CASE Stop \/ StopUnready
  BY <1>2, <1>6 DEF Stop, StopUnready, StopCapture
<1>7. CASE Other
  BY <1>2, <1>7 DEF Other, OtherStart, OtherStop
<1>8. ASSUME UNCHANGED <<owner, gen, rawLen, consumed>>, chunked # None,
             chunked' # None, chunked'.gen = chunked.gen, chunked'.parts = chunked.parts
      PROVE  ChunksMatchBuffer'
  BY <1>8 DEF ChunksMatchBuffer, Tiles
<1>9. CASE ChunkDecode
  <2>1. /\ UNCHANGED <<owner, gen, rawLen, consumed>> /\ chunked # None
        /\ chunked \in ChunkState /\ chunked' = [chunked EXCEPT !.pending = TRUE]
    BY <1>9 DEF ChunkDecode, MayDecode, buffer, TypeOK
  <2>2. chunked' \in ChunkState /\ chunked'.gen = chunked.gen /\ chunked'.parts = chunked.parts
    BY <2>1 DEF ChunkState
  <2> QED
    BY <1>8, <2>1, <2>2, NoneAssumption
<1>10. ASSUME NEW r \in replies, ChunkReply(r)
       PROVE  ChunksMatchBuffer'
  <2>1. r.job \in Job /\ r.job.take \in Take /\ r.job \in Jobs /\ r.job.kind = "chunk"
        /\ UNCHANGED <<owner, gen>>
    BY <1>10, JobsTyped DEF Job, Jobs, ChunkReply
  <2>2. CASE ~ChunkCurrent(r)
    BY <1>1, <1>10, <2>2 DEF ChunkReply, buffer, TypeOK
  <2>3. CASE ChunkCurrent(r)
    <3>1. Live(r.job) /\ chunked \in ChunkState /\ chunked # None
      BY <2>1, <2>3 DEF Live, ChunkCurrent, TypeOK
    <3>2. /\ owner = "mini" /\ chunked.gen = gen /\ r.job.take.from = consumed
          /\ consumed < r.job.take.to /\ r.job.take.to <= rawLen
      BY <2>1, <3>1 DEF LiveChunkFits
    <3>3. ASSUME DisableChunking
          PROVE  ChunksMatchBuffer'
      <4>1. chunked' \in ChunkState /\ chunked'.gen = chunked.gen /\ chunked'.parts = chunked.parts
        BY <3>1, <3>3 DEF DisableChunking, ChunkState
      <4> QED
        BY <1>8, <2>1, <3>1, <3>3, <4>1, NoneAssumption DEF DisableChunking, buffer
    <3>4. ASSUME NEW w \in Watermarks(r.job), w # r.job.take.from, NEW said \in BOOLEAN,
                 CommitPart([from |-> r.job.take.from, to |-> w, said |-> said])
          PROVE  ChunksMatchBuffer'
      <4> DEFINE p == [from |-> r.job.take.from, to |-> w, said |-> said]
      <4>1. p \in Part /\ p.from = consumed /\ consumed < p.to /\ p.to <= rawLen
        BY <2>1, <3>2, <3>4 DEF Part, Take, Watermarks, TypeOK
      <4> QED
        BY <2>1, <3>1, <3>2, <3>4, <4>1, CommitTiles
    <3>5. CASE r.result = "ok"
      BY <1>10, <2>3, <3>3, <3>4, <3>5 DEF ChunkReply
    <3>6. CASE r.result = "nospeech"
      <4>1. r.job.take.to \in Watermarks(r.job) /\ r.job.take.to # r.job.take.from
        BY <2>1, <3>2 DEF Watermarks, Take, TypeOK
      <4>2. CommitPart([from |-> r.job.take.from, to |-> r.job.take.to, said |-> FALSE])
        BY <1>10, <2>3, <3>6 DEF ChunkReply
      <4> QED
        BY <3>4, <4>1, <4>2
    <3> QED
      BY <1>10, <2>3, <3>3, <3>5, <3>6 DEF ChunkReply
  <2> QED
    BY <2>2, <2>3
<1>11. CASE \/ UNCHANGED vars \/ StartRefused \/ Close \/ CaptureSample \/ WorkerTake
            \/ WorkerFinish \/ \E r \in replies : TailReply(r)
            \/ \E c \in after : PostProcess(c)
  BY <1>1, <1>11 DEF vars, buffer, StartRefused, Close, CaptureSample, WorkerTake,
     WorkerFinish, TailReply, PostProcess,
     Improved, ImproveTimeout, Repaint, CopyToClipboard, ReadBack, TypeOK
<1> QED
  BY <1>3, <1>4, <1>5, <1>6, <1>7, <1>9, <1>10, <1>11 DEF Next, User, Continuations

-----------------------------------------------------------------------------
(* A saved transcript tiles its take.                                      *)
LEMMA CombinedTiles ==
  ASSUME TypeOK, FinalTiled, TakesFinal, NEW r \in replies, r.job.kind = "tail",
         ~Fails(r.job.take, r.result), NEW o \in Combined(r)
  PROVE  /\ o.take \in 1..MaxTakes /\ final[o.take] # None
         /\ Tiles(o.parts, 0, IF o.incomplete THEN final[o.take].from
                                              ELSE final[o.take].to)
<1> DEFINE take == r.job.take
<1>1. take \in Take /\ r \in Reply
  BY JobsTyped DEF Job
<1>2. take.id \in 1..MaxTakes /\ final[take.id] # None /\ final[take.id] = take
  BY DEF TakesFinal, IsFinal, TailJobs, Jobs
<1>3. Tiles(take.chunks, 0, take.from) /\ take.from <= take.to
  BY <1>2 DEF FinalTiled
<1>4. PICK said \in BOOLEAN :
         o = [take |-> take.id, parts |-> Parts(take, r.result, said),
              incomplete |-> Incomplete(r.result)]
  BY DEF Combined
<1>5. CASE Incomplete(r.result)
  BY <1>2, <1>3, <1>4, <1>5 DEF Parts
<1>6. CASE ~Incomplete(r.result)
  <2> DEFINE p == [from |-> take.from, to |-> take.to, said |-> said]
  <2>1. p \in Part /\ take.chunks \in Seq(Part) /\ take.from \in Nat
    BY <1>1 DEF Part, Take
  <2>2. Tiles(Append(take.chunks, p), 0, p.to)
    BY <1>3, <2>1, TilesAppend
  <2> QED
    BY <1>2, <1>4, <1>6, <2>2 DEF Parts
<1> QED
  BY <1>5, <1>6

(* No step saves a transcript with a gap or a repetition.                  *)
LEMMA SpeechStep ==
  ASSUME TypeOK, TakesFresh, FinalTiled, TakesFinal, ChunksMatchBuffer, SpeechOnce,
         [Next]_vars
  PROVE  SpeechOnce'
<1> DEFINE Good(e) == /\ e.take \in 1..MaxTakes /\ final'[e.take] # None
                      /\ Tiles(e.parts, 0, IF e.incomplete THEN final'[e.take].from
                                                           ELSE final'[e.take].to)
<1>1. \A e \in history : Good(e)
  BY FinalStep DEF SpeechOnce
<1>2. SUFFICES \A e \in history' : e \in history \/ Good(e)
  BY <1>1, <1>2 DEF SpeechOnce, Tiles
<1>3. CASE StopUnready
  <2>1. /\ owner = "mini" /\ takes \in 1..MaxTakes
        /\ final' = [final EXCEPT ![takes] = TakeAtStop]
    BY <1>3 DEF StopUnready, StopCapture, TakesFresh, TypeOK
  <2>2. TakeAtStop \in Take /\ Tiles(TakeAtStop.chunks, 0, TakeAtStop.from)
    BY <2>1, TakeAtStopTiled
  <2>3. final'[takes] = TakeAtStop /\ TakeAtStop # None
    BY <2>1, <2>2, NoneAssumption DEF TypeOK
  <2>4. \A e \in history' :
          e \in history \/ e = [take |-> takes, parts |-> TakeAtStop.chunks, incomplete |-> TRUE]
    BY <1>3 DEF StopUnready, Upsert
  <2> QED
    BY <2>1, <2>2, <2>3, <2>4
<1>4. ASSUME NEW r \in replies, TailReply(r)
      PROVE  \A e \in history' : e \in history \/ Good(e)
  <2>1. r.job.kind = "tail" /\ final' = final
    BY <1>4 DEF TailReply
  <2>2. CASE Abandoned(r) \/ TailFailed(r)
    BY <1>4, <2>2 DEF TailReply, TailFinished, TailFailed
  <2>3. CASE TailFinished(r)
    <3>1. PICK o \in Combined(r) : \A e \in history' : e \in history \/ e = o
      BY <2>3 DEF TailFinished, Upsert
    <3>2. ~Fails(r.job.take, r.result)
      BY <2>3 DEF TailFinished
    <3> QED
      BY <2>1, <3>1, <3>2, CombinedTiles
  <2> QED
    BY <1>4, <2>2, <2>3 DEF TailReply
<1>5. CASE UNCHANGED history
  BY <1>5
<1> QED
  BY <1>3, <1>4, <1>5 DEF Next, User, Other, Continuations, vars, StartRefused, Start,
     Retry, Stop, Cancel, Close, OtherStart, OtherStop, CaptureSample, ChunkDecode,
     WorkerTake, WorkerFinish, ChunkReply, PostProcess,
     Improved, ImproveTimeout, Repaint, CopyToClipboard, ReadBack

-----------------------------------------------------------------------------
(* The strengthening is inductive.                                         *)
LEMMA SpeechInvInit ==
  ASSUME Init
  PROVE  SpeechInv
<1>1. TypeOK
  BY TypeInit
<1>2. Jobs = {} /\ TailJobs = {}
  BY DEF Init, Jobs, TailJobs
<1>3. OneChunkInFlight /\ LiveChunkFits /\ GensBounded
  BY <1>2 DEF Init, OneChunkInFlight, LiveChunkFits, GensBounded
<1>4. TakesFresh /\ FinalTiled /\ TakesFinal
  BY <1>2 DEF Init, TakesFresh, FinalTiled, TakesFinal
<1>5. ChunksMatchBuffer /\ SpeechOnce
  BY DEF Init, ChunksMatchBuffer, SpeechOnce
<1> QED
  BY <1>1, <1>3, <1>4, <1>5 DEF SpeechInv

(* No step breaks a part of it.                                            *)
LEMMA SpeechInvStep ==
  ASSUME SpeechInv, [Next]_vars
  PROVE  SpeechInv'
<1> USE DEF SpeechInv
<1>1. TypeOK'
  BY TypeStep
<1>2. OneChunkInFlight' /\ LiveChunkFits'
  BY LiveStep
<1>3. GensBounded'
  BY GensStep
<1>4. TakesFresh'
  BY FreshStep
<1>5. FinalTiled'
  BY TiledStep
<1>6. TakesFinal'
  BY TakesFinalStep
<1>7. ChunksMatchBuffer'
  BY BufferStep
<1>8. SpeechOnce'
  BY SpeechStep
<1> QED
  BY <1>1, <1>2, <1>3, <1>4, <1>5, <1>6, <1>7, <1>8

(* And every reachable state has it.                                       *)
LEMMA SpeechInvariant == Spec => []SpeechInv
BY SpeechInvInit, SpeechInvStep, PTL DEF Spec

(* The chunk texts of a recording take are exactly its committed audio:    *)
(* maybe_chunk_decode never commits into another recording's buffer.       *)
THEOREM ChunksMatchBufferAlways == Spec => []ChunksMatchBuffer
<1>1. SpeechInv => ChunksMatchBuffer
  BY DEF SpeechInv
<1> QED
  BY <1>1, SpeechInvariant, PTL

(* At most one chunk decode of the recording take is on its way.           *)
THEOREM OneChunkAlways == Spec => []OneChunkInFlight
<1>1. SpeechInv => OneChunkInFlight
  BY DEF SpeechInv
<1> QED
  BY <1>1, SpeechInvariant, PTL

(* The three together: chunks never overlap, and their texts are of what   *)
(* the buffer has given up.                                                *)
THEOREM ChunkSafetyAlways == Spec => []ChunkSafety
BY TypeCorrect, OneChunkAlways, ChunksMatchBufferAlways, PTL DEF ChunkSafety

(* A saved transcript holds every sample of its take exactly once.         *)
THEOREM SpeechOnceAlways == Spec => []SpeechOnce
<1>1. SpeechInv => SpeechOnce
  BY DEF SpeechInv
<1> QED
  BY <1>1, SpeechInvariant, PTL

-----------------------------------------------------------------------------
(* No late answer repaints a live recording but that of the read-back.     *)
LEMMA RecordingViewStep ==
  ASSUME Next, owner = "mini", owner' = "mini", panel = "recording"
  PROVE  \/ panel' = "recording"
         \/ \E c \in after : c.stage = "copy" /\ c \notin after'
<1>1. CASE UNCHANGED panel
  BY <1>1
<1>2. CASE User
  <2>1. UNCHANGED panel
    BY <1>2 DEF User, Start, StartRefused, Stop, StopUnready, StopCapture, Retry, Cancel,
       Close, screen
  <2> QED
    BY <2>1
<1>3. ASSUME NEW r \in replies, TailReply(r)
      PROVE  UNCHANGED panel
  BY <1>3 DEF TailReply, TailFinished, TailFailed, Stale, screen
<1>4. ASSUME NEW c \in after, PostProcess(c), ~ReadBack(c)
      PROVE  UNCHANGED panel
  BY <1>4 DEF PostProcess, Improved, ImproveTimeout, Repaint, CopyToClipboard, OnScreen,
     screen
<1>5. ASSUME NEW c \in after, ReadBack(c)
      PROVE  c.stage = "copy" /\ c \notin after'
  BY <1>5 DEF ReadBack, Advance
<1>6. CASE Other \/ CaptureSample \/ ChunkDecode \/ WorkerTake \/ WorkerFinish
  BY <1>6 DEF Other, OtherStart, OtherStop, CaptureSample, ChunkDecode, WorkerTake,
     WorkerFinish, screen
<1>7. ASSUME NEW r \in replies, ChunkReply(r)
      PROVE  UNCHANGED panel
  BY <1>7 DEF ChunkReply, screen
<1> QED
  BY <1>1, <1>2, <1>3, <1>4, <1>5, <1>6, <1>7 DEF Next, Continuations

(* While a recording goes on, its view leaves the panel only by the        *)
(* read-back of deliver_global_result, which looks at nothing.             *)
THEOREM RecordingStaysVisibleAlways == Spec => RecordingStaysVisible
<1>1. [Next]_vars
        => [owner = "mini" /\ panel = "recording" /\ owner' = "mini"
              => \/ panel' = "recording"
                 \/ \E c \in after : c.stage = "copy" /\ c \notin after']_vars
  BY RecordingViewStep
<1> QED
  BY <1>1, PTL DEF Spec, RecordingStaysVisible

-----------------------------------------------------------------------------
(* Retried and cancelled takes.                                            *)

(* The take being stopped has no decode on its way yet.                    *)
LEMMA StopIsFirst ==
  ASSUME TypeOK, TakesFresh, TakesFinal, owner = "mini"
  PROVE  \A j \in TailJobs : j.take.id # takes
BY DEF TakesFresh, TakesFinal, IsFinal

(* What becomes of the tokens and of the retained audio.                   *)
LEMMA AbortStep ==
  ASSUME TypeOK, [Next]_vars
  PROVE  /\ aborted \subseteq aborted'
         /\ Retry => aborted' = aborted \cup {gen} /\ gen' = gen + 1 /\ retry' = retry
                       /\ retry # None /\ discarded' = discarded /\ UNCHANGED <<takes, owner>>
         /\ Stop => retry' = TakeAtStop /\ owner = "mini" /\ owner' = "none" /\ gen' = gen
                      /\ discarded' = discarded /\ UNCHANGED <<takes, aborted>>
         /\ (~Retry /\ ~Stop) =>
              \/ retry' = None
              \/ retry' = retry /\ gen' = gen /\ aborted' = aborted
<1>1. Retry => aborted' = aborted \cup {gen} /\ gen' = gen + 1 /\ retry' = retry
                /\ retry # None /\ discarded' = discarded /\ UNCHANGED <<takes, owner>>
  BY DEF Retry, Submit, ghosts
<1>2. Stop => retry' = TakeAtStop /\ owner = "mini" /\ owner' = "none" /\ gen' = gen
               /\ discarded' = discarded /\ UNCHANGED <<takes, aborted>>
  BY DEF Stop, StopCapture, Submit
<1>3. (~Retry /\ ~Stop) =>
        /\ aborted \subseteq aborted'
        /\ \/ retry' = None
           \/ retry' = retry /\ gen' = gen /\ aborted' = aborted
  BY DEF Next, User, Other, Continuations, vars, Start, StartRefused, StopUnready,
     Cancel, Close, OtherStart, OtherStop, CaptureSample, ChunkDecode, WorkerTake,
     WorkerFinish, ChunkReply, TailReply, TailFinished, TailFailed, Retained, PostProcess,
     Improved, ImproveTimeout, Repaint, CopyToClipboard, ReadBack
<1> QED
  BY <1>1, <1>2, <1>3

(* Of a retried take only the newest decode counts.                        *)
LEMMA OneTailStep ==
  ASSUME TypeOK, GensBounded, TakesFresh, TakesFinal, OneTailCounts, ChunksMatchBuffer,
         [Next]_vars
  PROVE  OneTailCounts'
<1>1. \A j \in TailJobs' :
        \/ j \in TailJobs
        \/ Stop /\ j.gen = gen /\ j.take = TakeAtStop
        \/ Retry /\ j.gen = gen' /\ j.take = retry
  BY JobsStep DEF TailJobs
<1>2. CASE Stop
  <2>1. TakeAtStop.id = takes /\ \A j \in TailJobs : j.take.id # takes
    BY <1>2, AbortStep, TakeAtStopTiled, StopIsFirst
  <2>2. ~Retry
    BY <1>2 DEF Stop, StopCapture, Retry
  <2>3. /\ \A j, k \in TailJobs' :
             j.take.id = k.take.id /\ j.gen \notin aborted' /\ k.gen \notin aborted'
               => j.gen = k.gen
        /\ \A j \in TailJobs' : j.take.id = takes => j.gen = gen
    BY <1>1, <1>2, <2>1, <2>2, AbortStep DEF OneTailCounts
  <2> QED
    BY <1>2, <2>1, <2>3, AbortStep DEF OneTailCounts
<1>3. CASE Retry
  <2>1. ~Stop
    BY <1>3 DEF Stop, StopCapture, Retry
  <2>2. \A j \in TailJobs : j.take.id = retry.id => j.gen \in aborted'
    BY <1>3, AbortStep DEF OneTailCounts
  <2> QED
    BY <1>1, <1>3, <2>1, <2>2, AbortStep DEF OneTailCounts
<1>4. CASE ~Stop /\ ~Retry
  <2>1. TailJobs' \subseteq TailJobs
    BY <1>1, <1>4
  <2> QED
    BY <1>4, <2>1, AbortStep DEF OneTailCounts
<1> QED
  BY <1>2, <1>3, <1>4

(* A cancelled take keeps no decode that may be written down.              *)
LEMMA DiscardStep ==
  ASSUME TypeOK, GensBounded, TakesFresh, TakesFinal, ChunksMatchBuffer, OneTailCounts,
         DiscardedAborted, [Next]_vars
  PROVE  DiscardedAborted'
<1>1. \A j \in TailJobs' :
        \/ j \in TailJobs
        \/ Stop /\ j.gen = gen /\ j.take = TakeAtStop
        \/ Retry /\ j.gen = gen' /\ j.take = retry
  BY JobsStep DEF TailJobs
<1>2. CASE Stop
  <2>1. TakeAtStop.id = takes /\ ~Retry
    BY <1>2, AbortStep, TakeAtStopTiled DEF Stop, StopCapture, Retry
  <2> QED
    BY <1>1, <1>2, <2>1, AbortStep DEF DiscardedAborted
<1>3. CASE Retry
  <2>1. ~Stop
    BY <1>3 DEF Stop, StopCapture, Retry
  <2> QED
    BY <1>1, <1>3, <2>1, AbortStep DEF DiscardedAborted
<1>4. CASE Cancel
  <2>1. /\ retry' = None /\ owner' # "mini" /\ takes' = takes
        /\ aborted' = aborted \cup {gen} /\ UNCHANGED worker
        /\ discarded' = discarded \cup (IF owner = "mini" THEN {takes} ELSE {})
                          \cup {j.take.id : j \in {k \in TailJobs : k.gen = gen}}
    BY <1>4 DEF Cancel
  <2>2. TailJobs' = TailJobs
    BY <2>1 DEF TailJobs, Jobs, worker
  <2>3. \A j \in TailJobs : j.take.id \in 1..takes
    <3>1. \A j \in TailJobs : j.take.id \in 1..MaxTakes /\ final[j.take.id] # None
      BY DEF TakesFinal, IsFinal
    <3> QED
      BY <3>1 DEF TakesFresh, TypeOK
  <2>4. owner = "mini" => takes \in 1..takes /\ \A j \in TailJobs : j.take.id # takes
    BY StopIsFirst DEF TakesFresh, TypeOK
  <2>5. gen \notin aborted
    BY DEF GensBounded, TypeOK
  <2>6. ASSUME NEW j \in TailJobs, j.take.id \in discarded'
        PROVE  j.gen \in aborted'
    <3>1. CASE j.take.id \in discarded
      BY <2>1, <3>1 DEF DiscardedAborted
    <3>2. CASE \E k \in TailJobs : k.gen = gen /\ k.take.id = j.take.id
      BY <2>1, <2>5, <3>2 DEF OneTailCounts
    <3> QED
      BY <2>1, <2>4, <2>6, <3>1, <3>2
  <2>7. discarded' \subseteq 1..takes
    BY <2>1, <2>3, <2>4 DEF DiscardedAborted
  <2> QED
    BY <2>1, <2>2, <2>6, <2>7 DEF DiscardedAborted
<1>5. CASE Start
  <2>1. /\ takes' \in {takes, takes + 1} /\ discarded' = discarded /\ retry' = None
        /\ (owner' = "mini" => takes' = takes + 1) /\ UNCHANGED <<worker, aborted>>
    BY <1>5 DEF Start
  <2>2. TailJobs' = TailJobs
    BY <2>1 DEF TailJobs, Jobs, worker
  <2> QED
    BY <2>1, <2>2 DEF DiscardedAborted, TypeOK
<1>6. CASE ~Stop /\ ~Retry /\ UNCHANGED <<takes, discarded>> /\ (owner' = "mini" => owner = "mini")
  <2>1. TailJobs' \subseteq TailJobs
    BY <1>1, <1>6
  <2> QED
    BY <1>6, <2>1, AbortStep DEF DiscardedAborted
<1> QED
  BY <1>2, <1>3, <1>4, <1>5, <1>6 DEF Next, User, Other, Continuations, vars, ghosts,
     StartRefused, StopUnready, StopCapture, Close, OtherStart, OtherStop, CaptureSample,
     ChunkDecode, WorkerTake, WorkerFinish, ChunkReply, TailReply, PostProcess,
     Improved, ImproveTimeout, Repaint, CopyToClipboard, ReadBack

(* No step writes a cancelled take to History.                             *)
LEMMA CancelledStep ==
  ASSUME SpeechInv, CancelInv, [Next]_vars, NEW t \in discarded
  PROVE  {e \in history' : e.take = t} = {e \in history : e.take = t}
<1> USE DEF SpeechInv, CancelInv
<1>1. CASE UNCHANGED history
  BY <1>1
<1>2. CASE StopUnready
  <2>1. takes # t
    BY <1>2 DEF StopUnready, StopCapture, DiscardedAborted
  <2> QED
    BY <1>2, <2>1 DEF StopUnready, Upsert
<1>3. ASSUME NEW r \in replies, TailReply(r)
      PROVE  {e \in history' : e.take = t} = {e \in history : e.take = t}
  <2>1. CASE Abandoned(r) /\ history' = history
    BY <1>1, <2>1
  <2>2. CASE TailFailed(r)
    BY <1>1, <2>2 DEF TailFailed
  <2>3. CASE ~Abandoned(r) /\ TailFinished(r)
    <3>1. r.job \in TailJobs /\ r.job.gen \notin aborted
      BY <1>3, <2>3 DEF TailReply, TailJobs, Jobs, Abandoned
    <3>2. r.job.take.id # t
      BY <3>1 DEF DiscardedAborted
    <3>3. ASSUME NEW o \in Combined(r)
          PROVE  o.take # t
      <4>1. PICK said \in BOOLEAN :
              o = [take |-> r.job.take.id, parts |-> Parts(r.job.take, r.result, said),
                   incomplete |-> Incomplete(r.result)]
        BY DEF Combined
      <4> QED
        BY <3>2, <4>1
    <3> QED
      BY <2>3, <3>3 DEF TailFinished, Upsert
  <2> QED
    BY <1>3, <2>1, <2>2, <2>3 DEF TailReply
<1> QED
  BY <1>1, <1>2, <1>3 DEF Next, User, Other, Continuations, vars, StartRefused, Start,
     Retry, Stop, Cancel, Close, OtherStart, OtherStop, CaptureSample, ChunkDecode,
     WorkerTake, WorkerFinish, ChunkReply, PostProcess,
     Improved, ImproveTimeout, Repaint, CopyToClipboard, ReadBack

(* A cancelled take is not written to History, however late its decode     *)
(* finishes: submit_global_take looks at the token after the await.        *)
THEOREM CancelledNeverSavedAlways == Spec => CancelledNeverSaved
<1>1. Init => SpeechInv /\ CancelInv
  <2>1. Init => Jobs = {} /\ TailJobs = {}
    BY DEF Init, Jobs, TailJobs
  <2>2. Init => CancelInv
    BY <2>1 DEF Init, CancelInv, OneTailCounts, DiscardedAborted
  <2> QED
    BY <2>2, SpeechInvInit
<1>2. SpeechInv /\ CancelInv /\ [Next]_vars => (SpeechInv /\ CancelInv)'
  BY SpeechInvStep, OneTailStep, DiscardStep DEF SpeechInv, CancelInv
<1>3. SpeechInv /\ CancelInv /\ [Next]_vars
        => [\A t \in discarded :
              {e \in history' : e.take = t} = {e \in history : e.take = t}]_vars
  BY CancelledStep
<1> QED
  BY <1>1, <1>2, <1>3, PTL DEF Spec, CancelledNeverSaved

-----------------------------------------------------------------------------
(* Decoded speech is kept.                                                 *)

(* try_send loses no job: a full channel answers it.                       *)
LEMMA EnqueueArrives ==
  ASSUME TypeOK, NEW job \in Job, Enqueue(job)
  PROVE  job \in Jobs' /\ Jobs \subseteq Jobs'
<1>1. CASE Len(queue) < QueueCap
  <2>1. queue' = Append(queue, job) /\ running' = running /\ replies' = replies
    BY <1>1 DEF Enqueue
  <2>2. \A i \in DOMAIN queue : i \in DOMAIN queue' /\ queue'[i] = queue[i]
    BY <2>1 DEF TypeOK
  <2>3. Len(queue) + 1 \in DOMAIN queue' /\ queue'[Len(queue) + 1] = job
    BY <2>1 DEF TypeOK
  <2> QED BY <2>1, <2>2, <2>3 DEF Jobs
<1>2. CASE ~(Len(queue) < QueueCap)
  <2>1. queue' = queue /\ running' = running /\ replies' = replies \cup {[job |-> job, result |-> "full"]}
    BY <1>2 DEF Enqueue
  <2>2. [job |-> job, result |-> "full"] \in replies' /\ [job |-> job, result |-> "full"].job = job
    BY <2>1
  <2> QED BY <2>1, <2>2 DEF Jobs
<1> QED BY <1>1, <1>2

(* Only Retry and Cancel abort a token, that of the current generation.    *)
LEMMA AbortingSteps ==
  ASSUME [Next]_vars, NEW g \in aborted', g \notin aborted
  PROVE  g = gen /\ (Retry \/ Cancel)
<1>1. CASE Retry \/ Cancel
  BY <1>1 DEF Retry, Cancel
<1>2. CASE ~Retry /\ ~Cancel
  BY <1>2 DEF Next, User, Other, Continuations, vars, Start, StartRefused, Stop, StopUnready,
     Close, OtherStart, OtherStop, CaptureSample, ChunkDecode, WorkerTake,
     WorkerFinish, ChunkReply, TailReply, PostProcess,
     Improved, ImproveTimeout, Repaint, CopyToClipboard, ReadBack
<1> QED BY <1>1, <1>2

(* A job stays on its way until its answer is looked at.                   *)
LEMMA JobsKept ==
  ASSUME TypeOK, [Next]_vars, NEW j \in Jobs
  PROVE  \/ j \in Jobs'
         \/ \E r \in replies : r.job = j /\ (ChunkReply(r) \/ TailReply(r))
<1>1. CASE UNCHANGED worker
  BY <1>1 DEF worker, Jobs
<1>2. ASSUME NEW job \in Job, Enqueue(job) PROVE j \in Jobs'
  BY <1>2, EnqueueArrives
<1>3. CASE WorkerTake
  <2>1. queue' = Tail(queue) /\ queue # <<>> /\ running = None /\ queue \in Seq(Job)
    BY <1>3 DEF WorkerTake, TypeOK
  <2>2. \A i \in DOMAIN queue : queue[i] = Head(queue) \/ \E k \in DOMAIN queue' : queue'[k] = queue[i]
    <3> SUFFICES ASSUME NEW i \in DOMAIN queue, i # 1 PROVE \E k \in DOMAIN queue' : queue'[k] = queue[i]
      BY <2>1
    <3>1. i - 1 \in DOMAIN queue' /\ queue'[i - 1] = queue[i]
      BY <2>1
    <3> QED BY <3>1
  <2>3. /\ replies \subseteq replies'
        /\ running' = Head(queue) \/ \E r \in replies' : r.job = Head(queue)
    <3>1. CASE Head(queue).gen \in aborted
      <4>1. [job |-> Head(queue), result |-> "cancelled"] \in replies' /\ replies \subseteq replies'
        BY <1>3, <3>1 DEF WorkerTake
      <4> QED BY <4>1
    <3>2. CASE Head(queue).gen \notin aborted
      BY <1>3, <3>2 DEF WorkerTake
    <3> QED BY <3>1, <3>2
  <2>4. Head(queue) \in Job /\ Head(queue) # None
    <3>1. Head(queue) = queue[1] /\ 1 \in DOMAIN queue
      BY <2>1
    <3> QED BY <2>1, <3>1, NoneAssumption
  <2>5. Head(queue) \in Jobs'
    BY <2>3, <2>4 DEF Jobs
  <2> QED BY <2>1, <2>2, <2>3, <2>5 DEF Jobs
<1>4. CASE WorkerFinish
  <2>1. /\ queue' = queue /\ replies \subseteq replies'
        /\ \E r \in replies' : r.job = running
    <3>1. PICK o \in Outcomes(running) : replies' = replies \cup {[job |-> running, result |-> o]}
      BY <1>4 DEF WorkerFinish
    <3>2. [job |-> running, result |-> o] \in replies' /\ [job |-> running, result |-> o].job = running
      BY <3>1
    <3> QED BY <1>4, <3>1, <3>2 DEF WorkerFinish
  <2> QED BY <2>1 DEF Jobs
<1>5. CASE Stop
  <2>1. [kind |-> "tail", gen |-> gen, take |-> TakeAtStop] \in Job
    BY TakeAtStopTyped DEF Job, TypeOK
  <2> QED BY <1>2, <1>5, <2>1 DEF Stop, Submit
<1>6. CASE Retry
  <2>1. [kind |-> "tail", gen |-> gen + 1, take |-> retry] \in Job
    BY <1>6 DEF Job, TypeOK, Retry
  <2> QED BY <1>2, <1>6, <2>1 DEF Retry, Submit
<1>7. CASE ChunkDecode
  <2>1. PICK cut \in (consumed + MinChunk)..rawLen :
          Enqueue([kind |-> "chunk", gen |-> gen,
                   take |-> [id |-> takes, chunks |-> <<>>, from |-> consumed, to |-> cut]])
    BY <1>7 DEF ChunkDecode
  <2>2. [kind |-> "chunk", gen |-> gen,
         take |-> [id |-> takes, chunks |-> <<>>, from |-> consumed, to |-> cut]] \in Job
    BY DictationAssumption DEF Job, Take, TypeOK
  <2> QED BY <1>2, <2>1, <2>2
<1>8. ASSUME NEW r \in replies, ChunkReply(r) \/ TailReply(r)
      PROVE  j \in Jobs' \/ r.job = j
  <2>1. queue' = queue /\ running' = running /\ replies' = replies \ {r}
    BY <1>8 DEF ChunkReply, TailReply
  <2> QED BY <2>1 DEF Jobs
<1>9. CASE UNCHANGED vars \/ (User /\ ~Stop /\ ~Retry)
  BY <1>1, <1>9 DEF vars, User, Start, StartRefused, StopUnready, Cancel, Close
<1>10. CASE Other \/ CaptureSample \/ \E c \in after : PostProcess(c)
  BY <1>1, <1>10 DEF Other, OtherStart, OtherStop, CaptureSample, PostProcess,
     Improved, ImproveTimeout, Repaint, CopyToClipboard, ReadBack
<1> QED
  BY <1>3, <1>4, <1>5, <1>6, <1>7, <1>8, <1>9, <1>10 DEF Next, User, Continuations

(* What Retry aborts is what it queues again.                              *)
LEMMA RepeatStep ==
  ASSUME TypeOK, GensBounded, RetryRepeatsNewest, [Next]_vars
  PROVE  RetryRepeatsNewest'
<1>1. \A j \in TailJobs' :
        \/ j \in TailJobs
        \/ Stop /\ j.gen = gen /\ j.take = TakeAtStop
        \/ Retry /\ j.gen = gen' /\ j.take = retry
  BY JobsStep DEF TailJobs
<1>2. \A j \in TailJobs : j.gen <= gen /\ j.gen \in Nat
  BY JobsTyped DEF GensBounded, TailJobs, Job
<1>3. CASE Stop
  <2>1. /\ retry' = TakeAtStop /\ owner = "mini" /\ owner' = "none" /\ gen' = gen /\ ~Retry
    BY <1>3, AbortStep DEF Stop, StopCapture, Retry
  <2> QED BY <1>1, <2>1 DEF RetryRepeatsNewest
<1>4. CASE Retry
  <2>1. gen' = gen + 1 /\ retry' = retry /\ owner' = "none" /\ ~Stop
    BY <1>4, AbortStep DEF Retry, Stop, StopCapture
  <2>2. \A j \in TailJobs : j.gen # gen'
    BY <1>2, <2>1 DEF TypeOK
  <2> QED BY <1>1, <2>1, <2>2 DEF RetryRepeatsNewest
<1>5. CASE Start \/ Cancel
  <2>1. gen' = gen + 1 /\ ~Stop /\ ~Retry
    <3>1. Start => ~Stop /\ ~Retry
      BY DEF Start, Stop, StopCapture, Retry, Submit
    <3>2. Cancel => ~Stop /\ ~Retry
      BY DEF Cancel, Stop, StopCapture, Retry, Submit, Show
    <3> QED BY <1>5, <3>1, <3>2 DEF Start, Cancel
  <2>2. \A j \in TailJobs : j.gen # gen'
    BY <1>2, <2>1 DEF TypeOK
  <2> QED BY <1>1, <2>1, <2>2 DEF RetryRepeatsNewest
<1>6. CASE ~Stop /\ ~Retry /\ gen' = gen /\ (owner' = "mini" => owner = "mini")
  <2>1. retry' = None \/ retry' = retry
    BY <1>6, AbortStep
  <2> QED BY <1>1, <1>6, <2>1 DEF RetryRepeatsNewest
<1> QED
  BY <1>3, <1>4, <1>5, <1>6 DEF Next, User, Other, Continuations, vars, StartRefused,
     StopUnready, StopCapture, Close, OtherStart, OtherStop, CaptureSample, ChunkDecode,
     WorkerTake, WorkerFinish, ChunkReply, TailReply, PostProcess,
     Improved, ImproveTimeout, Repaint, CopyToClipboard, ReadBack

(* A decode is answered as cancelled only after its token was aborted.     *)
LEMMA CancelledAnswerStep ==
  ASSUME TypeOK, CancelledIsAborted, [Next]_vars
  PROVE  CancelledIsAborted'
<1>1. aborted \subseteq aborted'
  BY AbortStep
<1>2. ASSUME \A r \in replies' : r \in replies \/ r.result # "cancelled" \/ r.job.gen \in aborted
      PROVE  CancelledIsAborted'
  BY <1>1, <1>2 DEF CancelledIsAborted
<1>3. ASSUME NEW job, Enqueue(job) PROVE CancelledIsAborted'
  BY <1>2, <1>3 DEF Enqueue
<1>4. CASE WorkerTake
  BY <1>2, <1>4 DEF WorkerTake
<1>5. CASE WorkerFinish
  BY <1>2, <1>5 DEF WorkerFinish, Outcomes
<1>6. CASE Stop \/ Retry \/ ChunkDecode
  BY <1>3, <1>6 DEF Stop, Retry, Submit, ChunkDecode
<1>7. CASE replies' \subseteq replies
  BY <1>2, <1>7
<1> QED
  BY <1>4, <1>5, <1>6, <1>7 DEF Next, User, Other, Continuations, vars, StartRefused, Start,
     StopUnready, Cancel, Close, OtherStart, OtherStop, CaptureSample,
     ChunkReply, TailReply, PostProcess, worker,
     Improved, ImproveTimeout, Repaint, CopyToClipboard, ReadBack

(* What a finished take is recorded as begins with its chunks.             *)
LEMMA CombinedKeeps ==
  ASSUME NEW r \in Reply, NEW o \in Combined(r)
  PROVE  /\ o.take = r.job.take.id
         /\ Len(o.parts) >= Len(r.job.take.chunks)
         /\ SubSeq(o.parts, 1, Len(r.job.take.chunks)) = r.job.take.chunks
         /\ HasText(r.job.take.chunks) => HasText(o.parts)
<1> DEFINE chunks == r.job.take.chunks
<1>1. chunks \in Seq(Part) /\ r.job.take \in Take
  BY DEF Reply, Job, Take
<1>2. PICK said \in BOOLEAN :
         o = [take |-> r.job.take.id, parts |-> Parts(r.job.take, r.result, said),
              incomplete |-> Incomplete(r.result)]
  BY DEF Combined
<1>3. [from |-> r.job.take.from, to |-> r.job.take.to, said |-> said] \in Part
  BY <1>1 DEF Take, Part
<1>4. o.parts = chunks \/ \E p \in Part : o.parts = Append(chunks, p)
  BY <1>2, <1>3 DEF Parts
<1> HIDE DEF chunks
<1>5. /\ Len(o.parts) >= Len(chunks)
      /\ SubSeq(o.parts, 1, Len(chunks)) = chunks
      /\ \A i \in DOMAIN chunks : i \in DOMAIN o.parts /\ o.parts[i] = chunks[i]
  BY <1>1, <1>4
<1>6. HasText(chunks) => HasText(o.parts)
  BY <1>5 DEF HasText
<1> QED BY <1>2, <1>5, <1>6 DEF chunks

(* Decoded speech stays in a decode that counts, or is saved.              *)
LEMMA SpeechCountsStep ==
  ASSUME SpeechInv, CancelInv, KeptInv, [Next]_vars
  PROVE  SpeechCounts'
<1> USE DEF SpeechInv, CancelInv, KeptInv
<1> SUFFICES ASSUME NEW t \in 1..MaxTakes, final'[t] # None,
                    t \notin discarded', t \notin filtered', HasText(final'[t].chunks)
             PROVE  Saved(t)' \/ \E j \in TailJobs' : j.take = final'[t] /\ j.gen \notin aborted'
  BY DEF SpeechCounts, HasText
<1>1. discarded \subseteq discarded' /\ filtered \subseteq filtered'
  BY DEF Next, User, Other, Continuations, vars, Start, StartRefused, Stop, StopUnready,
     Retry, Cancel, Close, OtherStart, OtherStop, CaptureSample, ChunkDecode, WorkerTake,
     WorkerFinish, ChunkReply, TailReply, TailFinished, TailFailed, PostProcess, ghosts,
     Improved, ImproveTimeout, Repaint, CopyToClipboard, ReadBack
<1>2. CASE final'[t] # final[t]
  <2>1. /\ Stop \/ StopUnready
        /\ owner = "mini" /\ takes \in 1..MaxTakes
        /\ final' = [final EXCEPT ![takes] = TakeAtStop]
    BY <1>2, FinalStep
  <2>2. t = takes /\ final'[t] = TakeAtStop /\ TakeAtStop \in Take /\ TakeAtStop.id = takes
    BY <1>2, <2>1, TakeAtStopTiled DEF TypeOK
  <2>3. CASE Stop
    <3> DEFINE job == [kind |-> "tail", gen |-> gen, take |-> TakeAtStop]
    <3>1. job \in Job
      BY <2>2 DEF Job, TypeOK
    <3>2. Enqueue(job)
      BY <2>3 DEF Stop, Submit
    <3>3. job \in Jobs'
      BY <3>1, <3>2, EnqueueArrives
    <3>4. gen \notin aborted' /\ job \in TailJobs'
      BY <2>3, <3>3, AbortStep DEF GensBounded, TypeOK, TailJobs
    <3> QED BY <2>2, <3>4
  <2>4. CASE StopUnready
    <3>1. history' = Upsert([take |-> takes, parts |-> TakeAtStop.chunks, incomplete |-> TRUE])
      BY <2>2, <2>4 DEF StopUnready
    <3>2. [take |-> takes, parts |-> TakeAtStop.chunks, incomplete |-> TRUE] \in history'
      BY <3>1 DEF Upsert
    <3>3. TakeAtStop.chunks \in Seq(Part)
      BY <2>2 DEF Take
    <3>4. SubSeq(TakeAtStop.chunks, 1, Len(TakeAtStop.chunks)) = TakeAtStop.chunks
      BY <3>3
    <3>5. Saved(t)'
      BY <2>2, <3>2, <3>3, <3>4 DEF Saved
    <3> QED BY <3>5
  <2> QED BY <2>1, <2>3, <2>4
<1>3. CASE final'[t] = final[t]
  <2>1. /\ final[t] # None /\ t \notin discarded \cup filtered /\ HasText(final[t].chunks)
        /\ final[t].id = t
    BY <1>1, <1>3 DEF FinalTiled
  <2>2. CASE Saved(t)
    <3>1. PICK e \in history : /\ e.take = t
                               /\ Len(e.parts) >= Len(final[t].chunks)
                               /\ SubSeq(e.parts, 1, Len(final[t].chunks)) = final[t].chunks
      BY <2>2 DEF Saved
    <3>2. CASE e \in history'
      BY <1>3, <3>1, <3>2 DEF Saved
    <3>3. CASE StopUnready
      <4>1. takes # t
        BY <2>1, <3>3 DEF StopUnready, StopCapture, TakesFresh
      <4> QED BY <3>1, <3>2, <3>3, <4>1 DEF StopUnready, Upsert
    <3>4. ASSUME NEW r \in replies, TailReply(r), e \notin history' PROVE Saved(t)'
      <4>1. PICK o \in Combined(r) : history' = Upsert(o)
        BY <3>1, <3>4 DEF TailReply, TailFinished, TailFailed
      <4>2. o.take = t /\ o \in history'
        BY <3>1, <3>4, <4>1 DEF Upsert
      <4>3. r \in Reply /\ r.job \in TailJobs
        BY <3>4, JobsTyped DEF TailReply, TailJobs, Jobs
      <4>4. r.job.take = final[t]
        BY <4>2, <4>3, CombinedKeeps DEF TakesFinal, IsFinal
      <4> QED BY <1>3, <4>2, <4>3, <4>4, CombinedKeeps DEF Saved
    <3>5. CASE history' = history
      BY <3>1, <3>2, <3>5
    <3> QED
      BY <3>2, <3>3, <3>4, <3>5 DEF Next, User, Other, Continuations, vars, StartRefused, Start,
         Retry, Stop, Cancel, Close, OtherStart, OtherStop, CaptureSample, ChunkDecode,
         WorkerTake, WorkerFinish, ChunkReply, PostProcess,
         Improved, ImproveTimeout, Repaint, CopyToClipboard, ReadBack
  <2>3. CASE \E j \in TailJobs : j.take = final[t] /\ j.gen \notin aborted
    <3>1. PICK j \in TailJobs : j.take = final[t] /\ j.gen \notin aborted
      BY <2>3
    <3>2. CASE j.gen \in aborted'
      <4>1. j.gen = gen /\ (Retry \/ Cancel)
        BY <3>1, <3>2, AbortingSteps
      <4>2. CASE Cancel
        <5>1. j.take.id \in discarded'
          BY <3>1, <4>1, <4>2 DEF Cancel
        <5> QED BY <2>1, <3>1, <5>1
      <4>3. CASE Retry
        <5> DEFINE job == [kind |-> "tail", gen |-> gen + 1, take |-> retry]
        <5>1. retry = final[t] /\ retry \in Take
          BY <3>1, <4>1, <4>3, AbortStep DEF RetryRepeatsNewest, TypeOK
        <5>2. job \in Job /\ Enqueue(job)
          BY <4>3, <5>1 DEF Job, TypeOK, Retry, Submit
        <5>3. job \in Jobs'
          BY <5>2, EnqueueArrives
        <5>4. aborted' = aborted \cup {gen} /\ gen \in Nat /\ \A g \in aborted : g < gen
          BY <4>3, AbortStep DEF GensBounded, TypeOK
        <5>5. gen + 1 \notin aborted'
          BY <5>4 DEF TypeOK
        <5>6. job \in TailJobs'
          BY <5>3 DEF TailJobs
        <5> QED BY <1>3, <5>1, <5>5, <5>6
      <4> QED BY <4>1, <4>2, <4>3
    <3>3. CASE j.gen \notin aborted' /\ j \in Jobs'
      BY <1>3, <3>1, <3>3 DEF TailJobs
    <3>4. ASSUME NEW r \in replies, r.job = j, ChunkReply(r) \/ TailReply(r) PROVE Saved(t)'
      <4>1. TailReply(r) /\ ~Abandoned(r) /\ r \in Reply /\ r.job.take = final[t]
        BY <3>1, <3>4, JobsTyped DEF TailJobs, ChunkReply, Abandoned
      <4>2. CASE TailFailed(r)
        <5>1. r.result = "cancelled" \/ final[t].chunks = <<>>
          BY <4>1, <4>2 DEF TailFailed, Fails
        <5>2. r.result # "cancelled"
          BY <4>1 DEF CancelledIsAborted, Abandoned
        <5> QED BY <2>1, <5>1, <5>2 DEF HasText
      <4>3. CASE TailFinished(r)
        <5>1. PICK o \in Combined(r), cleaned \in BOOLEAN :
                /\ history' = IF Recorded(o, cleaned, r) THEN Upsert(o) ELSE history
                /\ filtered' = IF HasText(o.parts) /\ ~cleaned THEN filtered \cup {o.take} ELSE filtered
          BY <4>3 DEF TailFinished
        <5>2. o.take = t /\ HasText(o.parts)
          BY <2>1, <4>1, CombinedKeeps
        <5>3. cleaned
          BY <5>1, <5>2
        <5>4. o \in history'
          BY <5>1, <5>2, <5>3 DEF Recorded, Upsert
        <5> QED BY <1>3, <4>1, <5>2, <5>4, CombinedKeeps DEF Saved
      <4> QED BY <4>1, <4>2, <4>3 DEF TailReply
    <3> QED BY <3>1, <3>2, <3>3, <3>4, JobsKept DEF TailJobs
  <2> QED BY <2>1, <2>2, <2>3 DEF SpeechCounts
<1> QED BY <1>2, <1>3

(* Decoded speech is never lost: once its take was stopped it is in an     *)
(* answer still to come or in History, through Stop, Retry, a full channel *)
(* and an aborted token, unless the user cancelled the take or the polish  *)
(* pipeline emptied its text.                                              *)
THEOREM DecodedSpeechKeptAlways == Spec => []DecodedSpeechKept
<1> DEFINE Inv == SpeechInv /\ CancelInv /\ KeptInv
<1>1. Init => Inv
  <2> SUFFICES ASSUME Init PROVE Inv
    OBVIOUS
  <2>1. Jobs = {} /\ TailJobs = {}
    BY DEF Init, Jobs, TailJobs
  <2>2. CancelInv
    BY <2>1 DEF Init, CancelInv, OneTailCounts, DiscardedAborted
  <2>3. KeptInv
    BY <2>1 DEF Init, KeptInv, RetryRepeatsNewest, CancelledIsAborted, SpeechCounts
  <2> QED BY <2>2, <2>3, SpeechInvInit
<1>2. Inv /\ [Next]_vars => Inv'
  <2> SUFFICES ASSUME Inv, [Next]_vars PROVE Inv'
    OBVIOUS
  <2>1. SpeechInv'
    BY SpeechInvStep
  <2>2. CancelInv'
    BY OneTailStep, DiscardStep DEF SpeechInv, CancelInv
  <2>3. KeptInv'
    BY RepeatStep, CancelledAnswerStep, SpeechCountsStep DEF KeptInv, SpeechInv
  <2> QED BY <2>1, <2>2, <2>3
<1>3. Inv => DecodedSpeechKept
  BY DEF KeptInv, SpeechCounts, DecodedSpeechKept, Saved
<1> HIDE DEF Inv
<1> QED
  BY <1>1, <1>2, <1>3, PTL DEF Spec
=============================================================================
