---------------------------- MODULE CaptureStream ----------------------------
(***************************************************************************)
(* The microphone's stream and the buffer behind it (audio/capture.rs,     *)
(* audio/buffer.rs), and where a take is cut while it is recorded          *)
(* (audio/chunking.rs).                                                    *)
(*                                                                         *)
(* The audio callback runs on a thread of its own and only tries the       *)
(* buffer's lock; what it cannot store it keeps for its next turn.  The    *)
(* GTK thread copies a stable chunk, has it decoded, and then drains the   *)
(* part whose words it has committed; at the end it decodes the rest.      *)
(*                                                                         *)
(* One frame of sound per callback, of a loudness: silence, a murmur that  *)
(* is part of a word, or speech.  The decoder is modelled from what its    *)
(* segments are used for: it finds the words of what it is given and their *)
(* bounds, finely or as one long segment.                                  *)
(***************************************************************************)
EXTENDS Naturals, Sequences, SequencesExt, FiniteSetsExt

CONSTANTS
  Starts,      (* How a recording may be begun: [mic, chunks].             *)
  MaxLive,     (* Frames of a recording at most (MAX_RECORDING_SECS).      *)
  MaxBuffer,   (* Frames held at most (MAX_BUFFER_SAMPLES).                *)
  MaxSpill,    (* Frames kept by the callback at most (SPILL_CAP_SAMPLES). *)
  MinCut, MaxCut,  (* CHUNK_MIN_SECS, CHUNK_MAX_SECS.                      *)
  QuietWindow, (* CHUNK_QUIET_WINDOW_SECS.                                 *)
  Guard        (* TAIL_GUARD_SECS.                                         *)

ASSUME CaptureAssumption ==
  /\ {MaxLive, MaxBuffer, MaxSpill} \subseteq Nat
  /\ {MinCut, MaxCut, QuietWindow, Guard} \subseteq Nat \ {0}
  /\ Starts \subseteq [mic : {"usb", "default"}, chunks : BOOLEAN]

VARIABLES
  plugged,     (* The USB microphone is there.                             *)
  handle,      (* The cached device and the name it was asked for by.      *)
  stale,       (* It has been unplugged since.                             *)
  missed,      (* Another microphone is recorded although the one asked    *)
               (* for was there.                                           *)
  stream,      (* "none", "live", or "dead" after its error callback.      *)
  capture,     (* RecordingState.                                          *)
  locked,      (* The GTK thread holds the buffer's lock.                  *)
  raw, drained,(* The samples held; how many were drained before them.     *)
  spill,       (* What the callback keeps.                                 *)
  deaf,        (* It has reported a limit and takes no more.               *)
  error,       (* The stream-error slot.                                   *)
  chunking,    (* "on", "off", or "disabled" for this take.                *)
  chunk,       (* The copy being decoded, while there is one.              *)
  parts,       (* What was committed: its words, and how long it is.       *)
  result,      (* The text of the last take, and the sound it is of.       *)
  spoken       (* Everything the callback was given for this take.         *)

device == <<plugged, handle, stale, missed>>
samples == <<raw, drained, spill, deaf, spoken>>
text == <<chunking, chunk, parts, result>>
captureVars == <<device, stream, capture, locked, samples, error, text>>

Loudness == 0..2   \* silence, murmur, speech
NoHandle == [for |-> "none", is |-> "none"]
NoChunk == [sound |-> <<>>, verified |-> FALSE]
NoParts == [text |-> <<>>, took |-> 0]
NoResult == [sound |-> <<>>, text |-> <<>>, incomplete |-> FALSE]

(* The types of the device handle, the buffer with its spill, the          *)
(* stream's errors and the texts of the chunks.                            *)
CaptureTypeOK ==
  /\ plugged \in BOOLEAN /\ stale \in BOOLEAN /\ missed \in BOOLEAN
  /\ handle \in {NoHandle} \cup [for : {"usb", "default"}, is : {"usb", "default"}]
  /\ stream \in {"none", "live", "dead"} /\ capture \in {"idle", "recording", "paused"}
  /\ locked \in BOOLEAN /\ deaf \in BOOLEAN
  /\ error \in {"none", "limit", "slow", "device"}
  /\ raw \in Seq(Loudness) /\ Len(raw) <= MaxBuffer /\ drained + Len(raw) <= MaxLive
  /\ spill \in Seq(Loudness) /\ Len(spill) <= MaxSpill
  /\ chunking \in {"on", "off", "disabled"}
  /\ chunk.sound \in Seq(Loudness) /\ chunk.verified \in BOOLEAN
  /\ parts.text \in Seq(Nat \X Nat) /\ parts.took \in 0..MaxLive
  /\ result.incomplete \in BOOLEAN

CaptureInit ==
  /\ plugged \in BOOLEAN /\ handle = NoHandle /\ stale = FALSE /\ missed = FALSE
  /\ stream = "none" /\ capture = "idle" /\ locked = FALSE
  /\ raw = <<>> /\ drained = 0 /\ spill = <<>> /\ deaf = FALSE /\ spoken = <<>>
  /\ error = "none" /\ chunking = "off" /\ chunk = NoChunk /\ parts = NoParts
  /\ result = NoResult

------------------------------------------------------------------------------
(* Devices.                                                                *)
There(mic) == mic = "usb" => plugged

Plug ==
  /\ plugged' = ~plugged
  /\ stale' = (stale \/ (plugged /\ handle.is = "usb"))
  /\ UNCHANGED <<handle, missed, stream, capture, locked, samples, error, text>>

(* Mutant: the default that stands in is remembered under the name.        *)
LookedUpAnyway(mic) ==
  [for |-> mic, is |-> IF There(mic) THEN mic ELSE "default"]

(* Only the device that was asked for is remembered under its name.        *)
LookedUp(mic) ==
  IF There(mic) THEN [for |-> mic, is |-> mic] ELSE NoHandle

Substitute(h) == IF h = NoHandle THEN "default" ELSE h.is

(* The handle that is tried: a cached one that no longer answers is looked *)
(* up once more.                                                           *)
Resolved(mic) ==
  IF handle.for = mic /\ ~stale THEN handle ELSE LookedUp(mic)

------------------------------------------------------------------------------
(* A recording.                                                            *)
(* Mutant: the answer to a chunk of an earlier take counts for this one.   *)
ClearedKeepsChunk ==
  /\ raw' = <<>> /\ drained' = 0 /\ spill' = <<>> /\ deaf' = FALSE /\ spoken' = <<>>
  /\ parts' = NoParts /\ UNCHANGED chunk

(* The answer to a chunk of an earlier take is dropped.                    *)
Cleared ==
  /\ raw' = <<>> /\ drained' = 0 /\ spill' = <<>> /\ deaf' = FALSE /\ spoken' = <<>>
  /\ chunk' = NoChunk /\ parts' = NoParts

Start(s) ==
  /\ ~locked
  /\ handle' = Resolved(s.mic) /\ stale' = FALSE
  /\ missed' = (There(s.mic) /\ Substitute(handle') # s.mic)
  /\ stream' = "live" /\ capture' = "recording" /\ error' = "none"
  /\ chunking' = IF s.chunks THEN "on" ELSE "off"
  /\ Cleared /\ result' = NoResult /\ UNCHANGED <<plugged, locked>>

(* No configuration, or the stream cannot be built or played: the handle   *)
(* may go, and the buffer may have been cleared before.                    *)
StartFails(s) ==
  /\ ~locked
  /\ \/ handle' \in {NoHandle, Resolved(s.mic)} /\ stale' = FALSE
     \/ UNCHANGED <<handle, stale>>
  /\ stream' = "none" /\ capture' = "idle"
  /\ \/ Cleared /\ error' = "none"
     \/ UNCHANGED <<samples, chunk, parts, error>>
  /\ result' = NoResult /\ UNCHANGED <<plugged, missed, locked, chunking>>

Pause ==
  /\ capture = "recording" /\ chunking = "off" /\ capture' = "paused"
  /\ UNCHANGED <<device, stream, locked, samples, error, text>>

Resume ==
  /\ capture = "paused" /\ capture' = "recording"
  /\ UNCHANGED <<device, stream, locked, samples, error, text>>

------------------------------------------------------------------------------
(* The callback.                                                           *)
(* Mutant: the samples drained are not counted.                            *)
FitsHeld(s) == Len(raw) + Len(s) <= MaxLive /\ Len(raw) + Len(s) <= MaxBuffer

Fits(s) == drained + Len(raw) + Len(s) <= MaxLive /\ Len(raw) + Len(s) <= MaxBuffer
Reports(e) == deaf' = TRUE /\ error' = e

(* Mutant: what was kept comes after what has just arrived.                *)
StoreLate(f) ==
  LET s == <<f>> \o spill IN
  IF Fits(s)
  THEN raw' = raw \o s /\ spill' = <<>> /\ UNCHANGED <<deaf, error>>
  ELSE raw' = raw /\ spill' = <<>> /\ Reports("limit")

(* What was kept comes first; once something is refused nothing follows.   *)
Store(f) ==
  /\ spill' = <<>>
  /\ IF Fits(spill \o <<f>>) THEN raw' = raw \o spill \o <<f>> /\ UNCHANGED <<deaf, error>>
     ELSE raw' = (IF Fits(spill) THEN raw \o spill ELSE raw) /\ Reports("limit")

Keep(f) ==
  /\ UNCHANGED raw
  /\ IF Len(spill) < MaxSpill THEN spill' = Append(spill, f) /\ UNCHANGED <<deaf, error>>
     ELSE UNCHANGED spill /\ Reports("slow")

(* Loudness only matters to the cuts.                                      *)
Callback ==
  /\ stream = "live" /\ capture = "recording" /\ ~deaf
  /\ \E f \in IF chunking = "on" THEN Loudness ELSE {2} :
       /\ spoken' = Append(spoken, f)
       /\ IF locked THEN Keep(f) ELSE Store(f)
  /\ UNCHANGED <<device, stream, capture, locked, drained, text>>

(* Mutant: the error is only logged.                                       *)
StreamDiesLogged ==
  /\ stream = "live" /\ stream' = "dead"
  /\ UNCHANGED <<device, capture, locked, samples, error, text>>

StreamDies ==
  /\ stream = "live" /\ stream' = "dead" /\ error' = "device"
  /\ UNCHANGED <<device, capture, locked, samples, text>>

------------------------------------------------------------------------------
(* Where to cut: choose_cut over the frames not yet drained.               *)
Loudest(w) == Max({0} \cup ToSet(w))
Sum(w) ==
  LET upTo[i \in 0..Len(w)] == IF i = 0 THEN 0 ELSE upTo[i - 1] + w[i] IN upTo[Len(w)]
Window(s, p) == SubSeq(s, p + 1, p + QuietWindow)
Positions(n) == {p \in MinCut..n : (p - MinCut) % QuietWindow = 0 /\ p + QuietWindow <= n}

(* A window reads as a pause below the silence threshold, which lies       *)
(* between a murmur and speech; it is verified only if even its loudest    *)
(* frame is far below the speech (QUIET_FRAME_RATIO is a quarter).         *)
IsPause(w) == Sum(w) <= 1
Verified(w, s) == 4 * Loudest(w) <= Loudest(s)

Earliest(ps) == {p \in ps : \A q \in ps : p <= q}

Cut(s) ==
  LET at == Positions(Min({MaxCut, Len(s)}))
      pauses == {p \in at : IsPause(Window(s, p))}
      quietest == {p \in at : \A q \in at : Sum(Window(s, p)) <= Sum(Window(s, q))}
      Before(p) == SubSeq(s, 1, p + QuietWindow \div 2)
  IN IF pauses # {}
     THEN {[sound |-> Before(p), verified |-> Verified(Window(s, p), s)] : p \in Earliest(pauses)}
     ELSE IF Len(s) >= MaxCut
          THEN {[sound |-> Before(p), verified |-> FALSE] : p \in Earliest(quietest)}
          ELSE {}

(* What is decoded: from the first sound to the last, and how much silence *)
(* before it is left out.  The padding and the shortest speech, 0.1 s, are *)
(* less than a frame.                                                      *)
Conditioned(s) ==
  LET loud == {i \in DOMAIN s : s[i] > 0} IN
  IF loud = {} THEN [sound |-> <<>>, lead |-> 0]
  ELSE [sound |-> SubSeq(s, Min(loud), Max(loud)), lead |-> Min(loud) - 1]

(* The words of a sound, [from, to), which are its longest loud stretches. *)
Words(s) ==
  LET loud == {i \in DOMAIN s : s[i] > 0}
      Stretch(i, j) == i..j \subseteq loud /\ i - 1 \notin loud /\ j + 1 \notin loud
  IN {<<w[1] - 1, w[2]>> : w \in {v \in loud \X loud : v[1] <= v[2] /\ Stretch(v[1], v[2])}}

InOrder(ws) ==
  {w \in [1..Cardinality(ws) -> ws] : \A i, j \in DOMAIN w : i < j => w[i][2] <= w[j][1]}

(* The decoder's segments: the words, or all of them as one.               *)
Decoded(s) ==
  UNION {{fine, IF fine = <<>> THEN fine ELSE <<(<<fine[1][1], Last(fine)[2]>>)>>} :
         fine \in InOrder(Words(s))}

Moved(segs, n) == [i \in DOMAIN segs |-> <<segs[i][1] + n, segs[i][2] + n>>]

Segments(s) ==
  UNION {{Moved(segs, c.lead) : segs \in Decoded(c.sound)} : c \in {Conditioned(s)}}

(* Mutant: everything decoded is committed up to the cut.                  *)
SplitAtCut(segs, cut) == [kept |-> segs, watermark |-> cut]

(* split_commit: from the first segment that ends within the guard of a    *)
(* cut that is not verified, everything is held back.                      *)
SplitCommit(segs, cut) ==
  LET late == {i \in DOMAIN segs : segs[i][2] + Guard > cut}
      held == Min(late)
      mark == Min({segs[held][1], cut})
  IN IF late = {} THEN [kept |-> segs, watermark |-> cut]
     ELSE IF mark = 0 \/ \E i \in 1..(held - 1) : segs[i][2] > mark
     THEN [kept |-> <<>>, watermark |-> 0]
     ELSE [kept |-> SubSeq(segs, 1, held - 1), watermark |-> mark]

------------------------------------------------------------------------------
(* The GTK thread at the buffer.                                           *)
Lock ==
  /\ capture # "idle" /\ ~locked /\ locked' = TRUE
  /\ UNCHANGED <<device, stream, capture, samples, error, text>>

(* A live preview, the duration, or nothing to cut.                        *)
Unlock ==
  /\ locked /\ locked' = FALSE
  /\ UNCHANGED <<device, stream, capture, samples, error, text>>

Peek ==
  /\ locked /\ locked' = FALSE
  /\ chunking = "on" /\ chunk = NoChunk
  /\ \E c \in Cut(raw) : chunk' = c
  /\ UNCHANGED <<device, stream, capture, samples, error, chunking, parts, result>>

Drain(n) ==
  /\ drained' = drained + n
  /\ raw' = SubSeq(raw, n + 1, Len(raw))

(* One more text behind the ones that are joined, moved to where they end. *)
Joined(segs, took) ==
  [text |-> parts.text \o Moved(segs, parts.took), took |-> parts.took + took]

(* The chunk's answer: its words up to the watermark are committed and     *)
(* their samples drained, or chunking ends for this take.                  *)
Commit ==
  /\ locked /\ locked' = FALSE
  /\ chunk # NoChunk /\ chunk' = NoChunk
  /\ \E segs \in Segments(chunk.sound) :
       LET cut == Len(chunk.sound)
           split == IF chunk.verified \/ segs = <<>> THEN [kept |-> segs, watermark |-> cut]
                    ELSE SplitCommit(segs, cut)
       IN IF split.watermark = 0
          THEN chunking' = "disabled" /\ UNCHANGED <<parts, raw, drained>>
          ELSE /\ parts' = Joined(split.kept, split.watermark)
               /\ Drain(split.watermark) /\ UNCHANGED chunking
  /\ UNCHANGED <<device, stream, capture, spill, deaf, spoken, error, result>>

ChunkFails ==
  /\ chunk # NoChunk /\ ~locked /\ chunk' = NoChunk /\ chunking' = "disabled"
  /\ UNCHANGED <<device, stream, capture, locked, samples, error, parts, result>>

------------------------------------------------------------------------------
(* The end of a take: what was not drained is decoded as the tail.         *)
(* Mutant: a tail that fails after chunks is as good as a silent one.      *)
FinishedSilently(sound, failed, segs) ==
  [sound |-> sound, incomplete |-> FALSE,
   text |-> (IF failed THEN parts ELSE Joined(segs, Len(raw))).text]

(* finish_chunked_take: the committed text is kept when the tail fails, and *)
(* says that it is incomplete.  With no chunk the tail's failure is all.   *)
Finished(sound, failed, segs) ==
  IF parts = NoParts /\ failed THEN NoResult
  ELSE [sound |-> sound, incomplete |-> failed,
        text |-> (IF failed THEN parts ELSE Joined(segs, Len(raw))).text]

Stopped ==
  /\ stream' = "none" /\ capture' = "idle" /\ Cleared
  /\ \E segs \in Segments(raw), failed \in BOOLEAN :
       result' = Finished(SubSeq(spoken, 1, drained) \o raw, failed, segs)
  /\ UNCHANGED <<device, locked, chunking>>

Stop == capture # "idle" /\ ~locked /\ Stopped /\ UNCHANGED error

(* Mutant: an error is taken while paused, and nothing done about it.      *)
PollRecording ==
  /\ capture # "idle" /\ ~locked /\ error # "none"
  /\ error' = "none"
  /\ IF capture = "recording" THEN Stopped
     ELSE UNCHANGED <<device, stream, capture, locked, samples, text>>

(* The poller of the view that records.                                    *)
Poll ==
  /\ capture # "idle" /\ ~locked /\ error # "none"
  /\ error' = "none" /\ Stopped

DeviceNext ==
  \/ Plug \/ StreamDies \/ Pause \/ Resume
  \/ \E s \in Starts : StartFails(s)

TakeNext ==
  \/ \E s \in Starts : Start(s)
  \/ Callback \/ Stop \/ Poll
  \/ Lock \/ Unlock \/ Peek \/ Commit \/ ChunkFails

CaptureNext == DeviceNext \/ TakeNext

------------------------------------------------------------------------------
(* The buffer, behind what was drained and before what the callback still  *)
(* keeps, is what was spoken: nothing is dropped, doubled, out of order or *)
(* of another take; and once a limit is reported it is a beginning of it.  *)
NothingDropped ==
  capture # "idle" =>
    LET rest == SubSeq(spoken, drained + 1, Len(spoken)) IN
    IF deaf THEN IsPrefix(raw, rest) ELSE raw \o spill = rest

(* What is being decoded is what the buffer begins with, so that draining  *)
(* takes exactly what was decoded.                                         *)
ChunkIsPrefix == chunk # NoChunk => IsPrefix(chunk.sound, raw)

(* Committed text holds each word before the mark once and whole, and no   *)
(* sound before the mark is without its text.                              *)
CommittedWordsWhole ==
  LET committed == parts.text
      Silent(i) == i = 0 \/ i > Len(spoken) \/ spoken[i] = 0 IN
  /\ \A i \in DOMAIN committed :
       /\ Silent(committed[i][1]) /\ Silent(committed[i][2] + 1)
       /\ i > 1 => committed[i - 1][2] <= committed[i][1]
  /\ capture # "idle" =>
       \A n \in 1..drained : spoken[n] > 0 =>
         \E i \in DOMAIN committed : committed[i][1] < n /\ n <= committed[i][2]

(* The text of a take says every word of its sound once, in order, or that *)
(* it is incomplete; and then it says a beginning of it.                   *)
TakeIsWhole ==
  LET Said(n) == {i \in DOMAIN result.text :
                    result.text[i][1] < n /\ n <= result.text[i][2]}
  IN /\ \A n \in DOMAIN result.sound : result.sound[n] > 0 =>
          Cardinality(Said(n)) = IF result.incomplete /\ Said(n) = {} THEN 0 ELSE 1
     /\ \A i \in DOMAIN result.text : i > 1 => result.text[i - 1][2] <= result.text[i][1]

(* A view that shows a recording hears, or the poller will know why not.   *)
DeafIsReported ==
  capture # "idle" /\ (deaf \/ stream = "dead") => error # "none"

(* No other microphone is recorded while the one asked for is there, after *)
(* whatever was plugged, substituted and remembered before.                *)
RequestedMicUsed == ~missed

(* A recording whose stream died, or that reached a limit, ends.           *)
DeadStreamEnds ==
  capture # "idle" /\ (deaf \/ stream = "dead") ~> capture = "idle" \/ (stream = "live" /\ ~deaf)

(* Every sound from the microphone that was asked for is decoded once, in  *)
(* order and in whole words, or the take says that it is not whole.        *)
CaptureSafety ==
  /\ CaptureTypeOK
  /\ NothingDropped
  /\ ChunkIsPrefix
  /\ CommittedWordsWhole
  /\ TakeIsWhole
  /\ DeafIsReported
  /\ RequestedMicUsed
=============================================================================
