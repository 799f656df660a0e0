--------------------------- MODULE GlobalDictation ---------------------------
(***************************************************************************)
(* Global-shortcut dictation: the take state machine of the Application    *)
(* object, the RecordingController it shares with the main window, and the *)
(* single inference worker behind a bounded channel.                       *)
(*                                                                         *)
(* A take is recorded, decoded in chunks while recording continues, and    *)
(* its remaining audio (the tail) is decoded after Stop.  Every            *)
(* asynchronous answer comes back to the GTK thread in a continuation that *)
(* must decide whether it still belongs to the take on screen.             *)
(*                                                                         *)
(* Audio is abstracted to sample indices of the capture buffer: a decoded  *)
(* text is the interval of samples it stands for and whether it said       *)
(* anything.  The cancel token of a dictation is replaced whenever the     *)
(* generation is bumped and only then, so a generation names its token and *)
(* `aborted' is the set of generations whose token was aborted.            *)
(***************************************************************************)
EXTENDS Integers, Sequences, FiniteSets

CONSTANTS
  MaxTakes,  (* Recordings that may be started.  Bounds the model.         *)
  MaxGen,    (* Last dictation generation.  Bounds the model.              *)
  MaxLen,    (* Samples one recording may hold.                            *)
  MinChunk,  (* Uncommitted samples a chunk decode needs (CHUNK_MIN_SECS). *)
  QueueCap,  (* Capacity of the inference channel (4 in the code).         *)
  None       (* The absent value.                                          *)

ASSUME DictationAssumption ==
  /\ MaxTakes \in Nat /\ MaxGen \in Nat /\ MaxLen \in Nat
  /\ MinChunk \in Nat \ {0}
  /\ QueueCap \in Nat \ {0}

VARIABLES
  owner,      (* RecordingOwner: nobody, the mini panel, another surface.  *)
  rawLen,     (* AudioBuffer.raw_len() of the running capture.             *)
  consumed,   (* AudioBuffer.consumed_raw.                                 *)
  gen,        (* dictation_generation.                                     *)
  aborted,    (* Generations whose cancel token was aborted.               *)
  chunked,    (* The take's while-recording chunk state, or None.          *)
  retry,      (* retry_take: the audio retained for Retry, or None.        *)
  queue,      (* Jobs in the inference channel, oldest first.              *)
  running,    (* The job the worker decodes, or None.                      *)
  replies,    (* Answers the GTK thread has not looked at yet.             *)
  after,      (* Post-processing continuations of finished takes.          *)
  history,    (* Saved transcripts, at most one per take.                  *)
  panel,      (* What the mini panel shows.                                *)
  retryShown  (* Whether the panel's Retry button is visible.              *)

(* History variables: what happened to each take, for the properties.      *)
VARIABLES
  takes,      (* Number of recordings started; the newest take's id.       *)
  final,      (* The RetryTake built by Stop for each take, or None.       *)
  discarded,  (* Takes the user cancelled.                                 *)
  filtered    (* Takes whose text was emptied by the polish pipeline.      *)

buffer == <<rawLen, consumed>>
worker == <<queue, running, replies>>
screen == <<panel, retryShown>>
ghosts == <<takes, final, discarded, filtered>>
vars == <<owner, buffer, gen, aborted, chunked, retry, worker, after, history,
          screen, ghosts>>

-----------------------------------------------------------------------------
(* A part is a decoded interval of the take; `said' tells whether the      *)
(* decode produced text.                                                   *)
Part == [from: Nat, to: Nat, said: BOOLEAN]

Take == [id: Nat, chunks: Seq(Part), from: Nat, to: Nat]

Job == [kind: {"chunk", "tail"}, gen: Nat, take: Take]

Result == {"ok", "nospeech", "fail", "cancelled", "full"}

Reply == [job: Job, result: Result]

ChunkState == [gen: Nat, parts: Seq(Part), pending: BOOLEAN, disabled: BOOLEAN]

After == [take: Nat, gen: Nat, stage: {"improve", "late", "deliver", "copy"}]

Entry == [take: Nat, parts: Seq(Part), incomplete: BOOLEAN]

(* Option: None is no take, no chunk state and no job.                     *)
ASSUME NoneAssumption == None \notin Take \cup ChunkState \cup Job

NewChunkState(g) ==
  [gen |-> g, parts |-> <<>>, pending |-> FALSE, disabled |-> FALSE]

HasText(parts) == \E i \in DOMAIN parts : parts[i].said

Upsert(entry) == {e \in history : e.take # entry.take} \cup {entry}

Jobs ==
  {queue[i] : i \in DOMAIN queue} \cup {r.job : r \in replies}
    \cup (IF running = None THEN {} ELSE {running})

TailJobs == {j \in Jobs : j.kind = "tail"}

(* A handler that repaints the panel does not show a hidden one.           *)
Show(view) == panel' = IF panel = "hidden" THEN "hidden" ELSE view

-----------------------------------------------------------------------------
Init ==
  /\ owner = "none" /\ rawLen = 0 /\ consumed = 0
  /\ gen = 0 /\ aborted = {}
  /\ chunked = None /\ retry = None
  /\ queue = <<>> /\ running = None /\ replies = {}
  /\ after = {} /\ history = {}
  /\ panel = "hidden" /\ retryShown = FALSE
  /\ takes = 0 /\ final = [t \in 1..MaxTakes |-> None]
  /\ discarded = {} /\ filtered = {}

(***************************************************************************)
(* The inference channel and its single worker.                            *)
(***************************************************************************)

(* Mutant: a full channel loses the job without an answer.                 *)
EnqueueLossy(job) ==
  /\ queue' = IF Len(queue) < QueueCap THEN Append(queue, job) ELSE queue
  /\ UNCHANGED <<running, replies>>

(* try_send: a full channel answers the job at once instead of queueing it. *)
Enqueue(job) ==
  IF Len(queue) < QueueCap
    THEN queue' = Append(queue, job) /\ UNCHANGED <<running, replies>>
    ELSE /\ replies' = replies \cup {[job |-> job, result |-> "full"]}
         /\ UNCHANGED <<queue, running>>

(* The worker drops a job whose dictation was cancelled before it started. *)
WorkerTake ==
  /\ running = None /\ queue # <<>>
  /\ queue' = Tail(queue)
  /\ IF Head(queue).gen \in aborted
       THEN /\ replies' = replies \cup {[job |-> Head(queue), result |-> "cancelled"]}
            /\ UNCHANGED running
       ELSE running' = Head(queue) /\ UNCHANGED replies
  /\ UNCHANGED <<owner, buffer, gen, aborted, chunked, retry, after, history,
                 screen, ghosts>>

(* Empty audio never reaches a decoder; a running decode may notice an     *)
(* aborted token or finish in spite of it; a panic is answered as failure. *)
Outcomes(job) ==
  IF job.take.from = job.take.to
    THEN {"nospeech"}
    ELSE {"ok", "nospeech", "fail"}
           \cup (IF job.gen \in aborted THEN {"cancelled"} ELSE {})

WorkerFinish ==
  /\ running # None
  /\ \E r \in Outcomes(running) :
       replies' = replies \cup {[job |-> running, result |-> r]}
  /\ running' = None
  /\ UNCHANGED <<owner, buffer, gen, aborted, chunked, retry, queue, after,
                 history, screen, ghosts>>

(***************************************************************************)
(* Capture.                                                                *)
(***************************************************************************)
CaptureSample ==
  /\ owner # "none" /\ rawLen < MaxLen
  /\ rawLen' = rawLen + 1
  /\ UNCHANGED <<owner, consumed, gen, aborted, chunked, retry, worker, after,
                 history, screen, ghosts>>

(* The main window records through the same controller.                    *)
OtherStart ==
  /\ owner = "none"
  /\ owner' = "other" /\ rawLen' = 0 /\ consumed' = 0
  /\ UNCHANGED <<gen, aborted, chunked, retry, worker, after, history, screen,
                 ghosts>>

OtherStop ==
  /\ owner = "other"
  /\ owner' = "none" /\ rawLen' = 0 /\ consumed' = 0
  /\ UNCHANGED <<gen, aborted, chunked, retry, worker, after, history, screen,
                 ghosts>>

(***************************************************************************)
(* Starting, stopping, retrying and cancelling a take.                     *)
(***************************************************************************)

(* The global shortcut, or the New button of a result view, starts a take  *)
(* when nobody records.  Only Whisper gets chunk state.  Opening the       *)
(* device may fail.                                                        *)
Start ==
  /\ takes < MaxTakes /\ gen < MaxGen
  /\ owner = "none"
  /\ retry' = None
  /\ gen' = gen + 1
  /\ chunked' \in {None, NewChunkState(gen + 1)}
  /\ rawLen' = 0 /\ consumed' = 0
  /\ \/ /\ owner' = "mini" /\ panel' = "recording" /\ takes' = takes + 1
        /\ UNCHANGED retryShown
     \/ /\ owner' = "none" /\ panel' = "error" /\ retryShown' = FALSE
        /\ UNCHANGED takes
  /\ UNCHANGED <<aborted, worker, after, history, final, discarded, filtered>>

(* New is clicked while another surface records: the retained audio is     *)
(* dropped before try_acquire refuses the recording.                       *)
StartRefused ==
  /\ owner = "other" /\ panel \in {"result", "error"}
  /\ retry # None
  /\ retry' = None
  /\ UNCHANGED <<owner, buffer, gen, aborted, chunked, worker, after, history,
                 screen, ghosts>>

(* submit_global_take: retain the audio for Retry and queue its decode.    *)
Submit(take, g) ==
  /\ retry' = take
  /\ Show("transcribing") /\ retryShown' = FALSE
  /\ Enqueue([kind |-> "tail", gen |-> g, take |-> take])

(* Mutants: the whole recording is detached, committed or not; the chunks  *)
(* of a take without any are not defaulted to the empty list.              *)
TakeAtStopWhole ==
  [id |-> takes,
   chunks |-> IF chunked # None /\ chunked.gen = gen
                THEN chunked.parts ELSE <<>>,
   from |-> 0, to |-> rawLen]
TakeAtStopNoDefault ==
  [id |-> takes,
   chunks |-> IF chunked # None /\ chunked.gen = gen
                THEN chunked.parts ELSE None,
   from |-> consumed, to |-> rawLen]

(* Stop detaches the audio not yet committed and takes the chunk state.    *)
TakeAtStop ==
  [id |-> takes,
   chunks |-> IF chunked # None /\ chunked.gen = gen
                THEN chunked.parts ELSE <<>>,
   from |-> consumed, to |-> rawLen]

StopCapture ==
  /\ owner = "mini"
  /\ owner' = "none" /\ rawLen' = 0 /\ consumed' = 0
  /\ chunked' = None
  /\ final' = [final EXCEPT ![takes] = TakeAtStop]

Stop ==
  /\ StopCapture
  /\ Submit(TakeAtStop, gen)
  /\ UNCHANGED <<gen, aborted, after, history, takes, discarded, filtered>>

(* The backend chosen in Settings meanwhile is not installed: the decoded  *)
(* chunks are saved as an incomplete transcript and the take is abandoned. *)
StopUnready ==
  /\ StopCapture
  /\ Show("error") /\ retryShown' = FALSE
  /\ LET chunks == TakeAtStop.chunks IN
     \/ /\ HasText(chunks)
        /\ history' = Upsert([take |-> takes, parts |-> chunks, incomplete |-> TRUE])
        /\ UNCHANGED filtered
     \/ /\ HasText(chunks)
        /\ filtered' = filtered \cup {takes}
        /\ UNCHANGED history
     \/ /\ ~HasText(chunks)
        /\ UNCHANGED <<history, filtered>>
  /\ UNCHANGED <<gen, aborted, retry, worker, after, takes, discarded>>

Retry ==
  /\ panel \in {"result", "error"} /\ retryShown
  /\ owner = "none" /\ retry # None /\ gen < MaxGen
  /\ aborted' = aborted \cup {gen}
  /\ gen' = gen + 1
  /\ Submit(retry, gen + 1)
  /\ UNCHANGED <<owner, buffer, chunked, after, history, ghosts>>

(* Cancel button or the titlebar X of a view that is not a result.         *)
Cancel ==
  /\ panel \in {"recording", "transcribing"} /\ gen < MaxGen
  /\ retry' = None
  /\ aborted' = aborted \cup {gen}
  /\ gen' = gen + 1
  /\ chunked' = None
  /\ IF owner = "mini"
       THEN owner' = "none" /\ rawLen' = 0 /\ consumed' = 0
       ELSE UNCHANGED <<owner, buffer>>
  /\ panel' = "hidden"
  /\ discarded' = discarded \cup (IF owner = "mini" THEN {takes} ELSE {})
                    \cup {j.take.id : j \in {k \in TailJobs : k.gen = gen}}
  /\ UNCHANGED <<worker, after, history, retryShown, takes, final, filtered>>

(* The titlebar X of a result view.                                        *)
Close ==
  /\ panel \in {"result", "error"}
  /\ retry' = None
  /\ panel' = "hidden"
  /\ UNCHANGED <<owner, buffer, gen, aborted, chunked, worker, after, history,
                 retryShown, ghosts>>

(***************************************************************************)
(* Decoding while recording.                                               *)
(***************************************************************************)

(* Mutant: a second chunk may be queued behind the first.                  *)
MayDecodeAlways == chunked # None /\ chunked.gen = gen /\ ~chunked.disabled

(* One chunk at a time, until one fails.                                   *)
MayDecode ==
  chunked # None /\ chunked.gen = gen /\ ~chunked.pending /\ ~chunked.disabled

(* The uncommitted audio up to a cut, which is either verified quiet or a  *)
(* forced cut that may slice a word.                                       *)
ChunkDecode ==
  /\ owner = "mini" /\ MayDecode
  /\ \E cut \in (consumed + MinChunk)..rawLen :
       Enqueue([kind |-> "chunk", gen |-> gen,
                take |-> [id |-> takes, chunks |-> <<>>,
                          from |-> consumed, to |-> cut]])
  /\ chunked' = [chunked EXCEPT !.pending = TRUE]
  /\ UNCHANGED <<owner, buffer, gen, aborted, retry, after, history, screen,
                 ghosts>>

(* AudioBuffer::commit_consumed ignores a cut that is not in the buffer.   *)
CommitConsumed(cut) ==
  /\ consumed' = IF cut > consumed /\ cut <= rawLen THEN cut ELSE consumed
  /\ UNCHANGED rawLen

(* The watermarks split_chunk_outcome may choose: the cut itself when it   *)
(* is verified quiet, else any index the trailing segments are held back   *)
(* to; a watermark at the start commits nothing.                           *)
Watermarks(job) == job.take.from..job.take.to

CommitPart(part) ==
  /\ chunked' = [chunked EXCEPT !.pending = FALSE,
                                !.parts = Append(@, part)]
  /\ CommitConsumed(part.to)

DisableChunking ==
  /\ chunked' = [chunked EXCEPT !.pending = FALSE, !.disabled = TRUE]
  /\ UNCHANGED buffer

(* Mutant: the chunk state found is taken for the one the job came from.   *)
ChunkCurrentAnyTake(r) == r.job.kind = "chunk" /\ chunked # None

(* Otherwise the state was taken by Stop, dropped by Cancel, or belongs to *)
(* a newer take: the audio was never committed, so its text is dropped.    *)
ChunkCurrent(r) == chunked # None /\ chunked.gen = r.job.gen

ChunkReply(r) ==
  /\ r.job.kind = "chunk"
  /\ replies' = replies \ {r}
  /\ LET region == r.job.take IN
     \/ /\ ~ChunkCurrent(r)
        /\ UNCHANGED <<chunked, buffer>>
     \/ /\ ChunkCurrent(r) /\ r.result = "ok"
        /\ \E w \in Watermarks(r.job), said \in BOOLEAN :
             IF w = region.from
               THEN DisableChunking
               ELSE CommitPart([from |-> region.from, to |-> w, said |-> said])
     \/ /\ ChunkCurrent(r) /\ r.result = "nospeech"
        /\ CommitPart([from |-> region.from, to |-> region.to, said |-> FALSE])
     \/ /\ ChunkCurrent(r) /\ r.result \in {"fail", "cancelled", "full"}
        /\ DisableChunking
  /\ UNCHANGED <<owner, gen, aborted, retry, queue, running, after, history,
                 screen, ghosts>>

(***************************************************************************)
(* The answer to the final decode.                                         *)
(***************************************************************************)

(* finish_chunked_take: committed chunks survive a failed tail.            *)
Fails(take, result) ==
  \/ result = "cancelled"
  \/ take.chunks = <<>> /\ result \in {"nospeech", "fail", "full"}

Incomplete(result) == result \in {"fail", "full"}

Parts(take, result, said) ==
  IF Incomplete(result)
    THEN take.chunks
    ELSE Append(take.chunks, [from |-> take.from, to |-> take.to, said |-> said])

(* The outcomes of an answer: a successful decode may still hold no text.  *)
Combined(r) ==
  {[take |-> r.job.take.id, parts |-> Parts(r.job.take, r.result, said),
    incomplete |-> Incomplete(r.result)] :
     said \in IF r.result = "ok" THEN BOOLEAN ELSE {FALSE}}

(* Mutant: an answer is always taken for the take on screen.               *)
StaleNever(r) == r.job.gen # gen /\ FALSE

(* The take on screen is a newer one, or its capture is running.           *)
Stale(r) == gen # r.job.gen \/ owner = "mini"

(* Mutant: a take that is no longer on screen is forgotten.                *)
RecordedIfCurrent(o, cleaned, r) ==
  HasText(o.parts) /\ ~Stale(r) /\ cleaned \in BOOLEAN

(* A stale take is recorded by its cleaned text alone; the current one     *)
(* also when only its raw text is left.                                    *)
Recorded(o, cleaned, r) == HasText(o.parts) /\ (cleaned \/ ~Stale(r))

(* Only a complete take gives up the audio kept for Retry.                 *)
Retained(o) == IF o.incomplete THEN retry ELSE None

(* finish_global_dictation, without its history entry.  A clean complete   *)
(* text is delivered, or first improved by the LLM.                        *)
ShowOutcome(o, cleaned) ==
  \/ /\ ~HasText(o.parts)
     /\ Show("error") /\ retryShown' = FALSE /\ UNCHANGED after
  \/ /\ HasText(o.parts) /\ ~cleaned
     /\ Show("result") /\ retryShown' = FALSE /\ UNCHANGED after
  \/ /\ HasText(o.parts) /\ cleaned /\ o.incomplete
     /\ Show("result") /\ retryShown' = TRUE /\ UNCHANGED after
  \/ /\ HasText(o.parts) /\ cleaned /\ ~o.incomplete
     /\ \E stage \in {"improve", "deliver"} :
          /\ after' = after \cup {[take |-> o.take, gen |-> gen, stage |-> stage]}
          /\ IF stage = "improve" THEN Show("transcribing") ELSE UNCHANGED panel
     /\ UNCHANGED retryShown

(* A result whose take is no longer on screen goes to History only.        *)
TailFinished(r) ==
  /\ ~Fails(r.job.take, r.result)
  /\ \E o \in Combined(r), cleaned \in BOOLEAN :
       /\ history' = IF Recorded(o, cleaned, r) THEN Upsert(o) ELSE history
       /\ filtered' = IF HasText(o.parts) /\ ~cleaned
                        THEN filtered \cup {o.take} ELSE filtered
       /\ IF Stale(r)
            THEN UNCHANGED <<retry, screen, after>>
            ELSE /\ retry' = Retained(o)
                 /\ ShowOutcome(o, cleaned)

TailFailed(r) ==
  /\ Fails(r.job.take, r.result)
  /\ IF Stale(r)
       THEN UNCHANGED screen
       ELSE Show("error") /\ retryShown' = TRUE
  /\ UNCHANGED <<retry, after, history, filtered>>

(* Mutant: the token is not looked at again after the await.               *)
AbandonedNever(r) == r.job.gen \in aborted /\ FALSE

(* The take's token was aborted while its decode was on the way.           *)
Abandoned(r) == r.job.gen \in aborted

TailReply(r) ==
  /\ r.job.kind = "tail"
  /\ replies' = replies \ {r}
  /\ \/ /\ Abandoned(r)
        /\ UNCHANGED <<retry, screen, after, history, filtered>>
     \/ ~Abandoned(r) /\ TailFinished(r)
     \/ ~Abandoned(r) /\ TailFailed(r)
  /\ UNCHANGED <<owner, buffer, gen, aborted, chunked, queue, running, takes,
                 final, discarded>>

(***************************************************************************)
(* Auto-improve and delivery.                                              *)
(***************************************************************************)
Advance(c, next) ==
  after' = (after \ {c}) \cup {[c EXCEPT !.stage = s] : s \in next}

(* The LLM answered in time.                                               *)
Improved(c) ==
  /\ c.stage = "improve"
  /\ Advance(c, IF gen # c.gen \/ owner = "mini" THEN {} ELSE {"deliver"})
  /\ UNCHANGED <<owner, buffer, gen, aborted, chunked, retry, worker, history,
                 screen, ghosts>>

(* It did not: deliver the raw text and keep waiting for a late variant.   *)
ImproveTimeout(c) ==
  /\ c.stage = "improve"
  /\ Advance(c, IF gen # c.gen \/ owner = "mini" THEN {} ELSE {"deliver", "late"})
  /\ UNCHANGED <<owner, buffer, gen, aborted, chunked, retry, worker, history,
                 screen, ghosts>>

(* deliver_global_result and a late variant both look again before they    *)
(* repaint the panel.                                                      *)
OnScreen(c) == gen = c.gen /\ owner = "none"

(* The portal took the text, or the answer came too late for the panel.    *)
Repaint(c) ==
  /\ c.stage \in {"deliver", "late"}
  /\ Advance(c, {})
  /\ IF OnScreen(c)
       THEN Show("result") /\ retryShown' = FALSE
       ELSE UNCHANGED screen
  /\ UNCHANGED <<owner, buffer, gen, aborted, chunked, retry, worker, history,
                 ghosts>>

(* The portal did not: the text is put on the GTK clipboard and read back. *)
CopyToClipboard(c) ==
  /\ c.stage = "deliver" /\ OnScreen(c)
  /\ Advance(c, {"copy"})
  /\ UNCHANGED <<owner, buffer, gen, aborted, chunked, retry, worker, history,
                 screen, ghosts>>

(* The result is shown when the clipboard was read back, whatever the      *)
(* panel shows by then.                                                    *)
ReadBack(c) ==
  /\ c.stage = "copy"
  /\ Advance(c, {})
  /\ Show("result") /\ retryShown' = FALSE
  /\ UNCHANGED <<owner, buffer, gen, aborted, chunked, retry, worker, history,
                 ghosts>>

-----------------------------------------------------------------------------
User == Start \/ StartRefused \/ Stop \/ StopUnready \/ Retry \/ Cancel \/ Close

Other == OtherStart \/ OtherStop

PostProcess(c) ==
  Improved(c) \/ ImproveTimeout(c) \/ Repaint(c) \/ CopyToClipboard(c) \/ ReadBack(c)

Continuations ==
  \/ \E r \in replies : ChunkReply(r) \/ TailReply(r)
  \/ \E c \in after : PostProcess(c)

Next ==
  \/ User \/ Other \/ CaptureSample \/ ChunkDecode
  \/ WorkerTake \/ WorkerFinish \/ Continuations

Spec == Init /\ [][Next]_vars

(* The worker thread and the GTK main loop keep running; users, the        *)
(* microphone and other surfaces owe nothing.                              *)
Fairness == WF_vars(WorkerTake) /\ WF_vars(WorkerFinish) /\ WF_vars(Continuations)

FairSpec == Spec /\ Fairness

-----------------------------------------------------------------------------
(* The types of the variables.                                             *)
TypeOK ==
  /\ owner \in {"none", "mini", "other"}
  /\ rawLen \in Nat /\ consumed \in Nat
  /\ gen \in Nat /\ aborted \in SUBSET Nat
  /\ chunked \in ChunkState \cup {None}
  /\ retry \in Take \cup {None}
  /\ queue \in Seq(Job) /\ running \in Job \cup {None}
  /\ replies \in SUBSET Reply
  /\ after \in SUBSET After
  /\ history \in SUBSET Entry
  /\ panel \in {"hidden", "recording", "transcribing", "result", "error"}
  /\ retryShown \in BOOLEAN
  /\ takes \in 0..MaxTakes
  /\ final \in [1..MaxTakes -> Take \cup {None}]
  /\ discarded \in SUBSET Nat /\ filtered \in SUBSET Nat

(* The parts tile the samples from a up to b: in order, without a gap and  *)
(* without decoding a sample twice.                                        *)
Tiles(parts, a, b) ==
  /\ parts = <<>> => a = b
  /\ parts # <<>> => parts[1].from = a /\ parts[Len(parts)].to = b
  /\ \A i \in 1..Len(parts) : parts[i].from <= parts[i].to
  /\ \A i \in 1..(Len(parts) - 1) : parts[i].to = parts[i + 1].from

(* While a take records, the chunk texts kept for it are exactly the audio *)
(* the buffer has committed: maybe_chunk_decode commits each decoded       *)
(* watermark into the take it was cut from and into no other recording.    *)
ChunksMatchBuffer ==
  /\ owner = "mini" =>
       /\ consumed <= rawLen
       /\ IF chunked = None \/ chunked.gen # gen
            THEN consumed = 0
            ELSE Tiles(chunked.parts, 0, consumed)
  /\ owner # "mini" => consumed = 0

(* A saved transcript holds every sample of its take once: the tail decode *)
(* covers what the chunks did not, across Stop, Retry and stale answers;   *)
(* an incomplete one stops where the final decode should have begun.       *)
SpeechOnce ==
  \A e \in history :
    /\ e.take \in 1..MaxTakes
    /\ final[e.take] # None
    /\ Tiles(e.parts, 0, IF e.incomplete THEN final[e.take].from
                                         ELSE final[e.take].to)

(* Speech that was decoded while recording is never lost: once the take is *)
(* stopped it is in an answer still to come or in History, unless the user *)
(* cancelled the take or the polish pipeline emptied its text.             *)
DecodedSpeechKept ==
  \A t \in 1..MaxTakes :
    (final[t] # None /\ t \notin discarded \cup filtered)
      => (HasText(final[t].chunks)
            => \/ \E j \in TailJobs : j.take = final[t]
               \/ \E e \in history :
                    /\ e.take = t
                    /\ Len(e.parts) >= Len(final[t].chunks)
                    /\ SubSeq(e.parts, 1, Len(final[t].chunks)) = final[t].chunks)

(* "a stale result must not repaint the live Recording view": the panel    *)
(* shows it exactly while it owns the microphone; else its close button    *)
(* would hide the panel and leave the microphone open.                     *)
PanelMatchesCapture == owner = "mini" <=> panel = "recording"

(* Only the answer of the clipboard read-back can take the Recording view  *)
(* from a recording that goes on: every other late answer is held back by  *)
(* its look at the generation and the owner.                               *)
RecordingStaysVisible ==
  [][owner = "mini" /\ panel = "recording" /\ owner' = "mini"
       => \/ panel' = "recording"
          \/ \E c \in after : c.stage = "copy" /\ c \notin after']_vars

(* A take the user cancelled is not written to History afterwards, however *)
(* late its decode finishes.                                               *)
CancelledNeverSaved ==
  [][\A t \in discarded :
       {e \in history' : e.take = t} = {e \in history : e.take = t}]_vars
=============================================================================
