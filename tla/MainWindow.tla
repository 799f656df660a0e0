----------------------------- MODULE MainWindow -----------------------------
(***************************************************************************)
(* The main window's sessions on the GTK thread: recordings with their     *)
(* live preview, audio files, retries, AI chips, summaries and voice       *)
(* edits, and the one result they all end in.                              *)
(*                                                                         *)
(* A session is numbered by operation_generation; its answers carry the    *)
(* number and most of them are dropped when it has moved on.  Microphone   *)
(* audio is decoded by one worker in the order it was queued (a full       *)
(* queue answers with an error); files and AI requests each have a thread. *)
(*                                                                         *)
(* The microphone is shared with the panel, which appears here only as     *)
(* far as it starts and ends recordings.  Writes to the history are        *)
(* HistoryStore's; settings and wording are left out.                      *)
(***************************************************************************)
EXTENDS Integers, Sequences, FiniteSets

CONSTANT MaxActs   (* User acts that begin something.  Bounds the model.   *)

ASSUME MainWindowAssumption == MaxActs \in Nat

VARIABLES
  speaker,      (* Who started the capture that runs.                      *)
  dead,         (* Its stream reported a fatal error.                      *)
  polls,        (* The voice edits' error polls that still run.            *)
  generation,   (* operation_generation.                                   *)
  queue,        (* The window's jobs at the inference worker.              *)
  threads,      (* Its files and AI requests under way.                    *)
  result,       (* The session whose result is shown, 0 for none.          *)
  variants,     (* Who rewrote the shown result, from which and asked when.  *)
  controls,     (* The result's chips, selector and Voice edit are shown.  *)
  chipsOn,      (* The chips are sensitive.                                *)
  summary,      (* [of, loading]: the summary section.                     *)
  retry,        (* The session whose audio retry_take holds, 0 for none.   *)
  retryShown,   (* The retry banner is revealed.                           *)
  spinner,      (* decoding: the transcribing animation runs.              *)
  preview,      (* The session whose tentative text hides the result.      *)
  live,         (* The live loop.                                          *)
  recording,    (* The controls and the card show a recording.             *)
  paused,       (* They show it paused.                                    *)
  voiceEditing, (* voice_editing: the button says "Stop edit".             *)
  visible,      (* The window is not hidden.                               *)
  acts

mic == <<speaker, dead, polls>>
jobs == <<queue, threads>>
shown == <<result, variants, controls, chipsOn, summary>>
kept == <<retry, retryShown>>
card == <<spinner, preview, live, recording, paused>>
own == <<generation, jobs, shown, kept, card, voiceEditing, visible>>
windowVars == <<mic, own, acts>>

Session == 0 .. MaxActs
Job(kind) == [kind : {kind}, gen : Session, of : Session]
Queued == UNION {Job(k) : k \in {"live", "take", "retry", "edit"}}
Threaded == UNION {Job(k) : k \in {"file", "chip", "summary", "editLlm"}}

NewJob(k, g, r) == [kind |-> k, gen |-> g, of |-> r]

Owner ==
  CASE speaker = "none" -> "None"
    [] speaker = "main" -> "Main"
    [] speaker = "panel" -> "Mini"
    [] OTHER -> "VoiceEdit"

NoSummary == [of |-> 0, loading |-> FALSE]

WindowInit ==
  /\ speaker = "none" /\ dead = FALSE /\ polls = {}
  /\ generation = 0 /\ queue = <<>> /\ threads = {}
  /\ result = 0 /\ variants = {} /\ controls = FALSE /\ chipsOn = TRUE
  /\ summary = NoSummary
  /\ retry = 0 /\ retryShown = FALSE
  /\ spinner = FALSE /\ preview = 0 /\ live = "off" /\ recording = FALSE /\ paused = FALSE
  /\ voiceEditing = FALSE /\ visible = TRUE /\ acts = 0

Act == acts < MaxActs /\ acts' = acts + 1

UserAct == visible /\ Act

(* An act that only ends or repaints something needs no bound.             *)
FreeAct == visible /\ UNCHANGED acts

(* A stopped or cancelled capture takes its stream with it.                *)
FreeMic == speaker' = "none" /\ dead' = FALSE

(* try_acquire, then start.  An owner that is recording acquires again,    *)
(* and start drops the capture there was.                                  *)
TakeMic(who, ownerName) ==
  /\ Owner \in {"None", ownerName}
  /\ speaker' = who /\ dead' = FALSE

StartFails(ownerName) == Owner \in {"None", ownerName} /\ FreeMic

(***************************************************************************)
(* The transcript view.                                                    *)
(***************************************************************************)
(* set_recording(true) also ends the animation.                            *)
ShowRecording == recording' = TRUE /\ spinner' = FALSE

ShowIdle == recording' = FALSE /\ paused' = FALSE

StartAnimation == spinner' = TRUE

StopAnimation == spinner' = FALSE

HideResultControls == controls' = FALSE

(* The tentative bubble hides the result's, and comes off with a clear.    *)
SetLivePreview == preview' = generation

ClearLivePreview == preview' = 0

(***************************************************************************)
(* Sessions.                                                               *)
(***************************************************************************)
BeginOperation ==
  /\ generation' = generation + 1
  /\ retry' = 0 /\ retryShown' = FALSE

(* on_record.  Live preview depends on the settings and the backend.       *)
Record ==
  /\ UserAct
  /\ Owner = "None" /\ TakeMic("main", "Main")
  /\ BeginOperation
  /\ ShowRecording /\ HideResultControls
  /\ live' \in {"off", "ready"}
  /\ UNCHANGED <<polls, jobs, result, variants, chipsOn, summary, preview, paused,
                 voiceEditing, visible>>

Pause ==
  /\ FreeAct /\ recording /\ paused' = ~paused
  /\ UNCHANGED <<mic, generation, jobs, shown, kept, spinner, preview, live,
                 recording, voiceEditing, visible>>

(* on_stop: the audio is kept for a retry before anything can fail.        *)
OnStop(ready) ==
  /\ FreeMic
  /\ ShowIdle /\ live' = "off"
  /\ retry' = generation
  /\ IF ready
       THEN /\ StartAnimation
            /\ queue' = Append(queue, NewJob("take", generation, 0))
            /\ UNCHANGED retryShown
       ELSE /\ retryShown' = TRUE
            /\ UNCHANGED <<spinner, queue>>
  /\ UNCHANGED <<polls, generation, threads, shown, preview, voiceEditing, visible>>

Stop == FreeAct /\ recording /\ \E ready \in BOOLEAN : OnStop(ready)

(* The record timer finds the stream dead.                                 *)
RecordTimer ==
  /\ Owner = "Main" /\ dead
  /\ \E ready \in BOOLEAN : OnStop(ready)
  /\ UNCHANGED acts

(* Mutant: Escape cancels whoever records.                                 *)
OnCancelAnyone ==
  /\ BeginOperation /\ FreeMic
  /\ ShowIdle /\ ClearLivePreview /\ StopAnimation /\ live' = "off"
  /\ UNCHANGED <<polls, jobs, shown, voiceEditing, visible>>

(* Mutant: cancelling does not stop the animation.                         *)
OnCancelSpinning ==
  /\ Owner \in {"Main", "None"}
  /\ BeginOperation /\ FreeMic
  /\ ShowIdle /\ ClearLivePreview /\ live' = "off"
  /\ UNCHANGED <<polls, jobs, shown, spinner, voiceEditing, visible>>

(* Mutant: the controls keep showing the cancelled recording.              *)
OnCancelShown ==
  /\ Owner \in {"Main", "None"}
  /\ BeginOperation /\ FreeMic
  /\ ClearLivePreview /\ StopAnimation /\ live' = "off"
  /\ UNCHANGED <<polls, jobs, shown, recording, paused, voiceEditing, visible>>

(* on_cancel, which Escape reaches in an idle window too.                  *)
OnCancel ==
  /\ Owner \in {"Main", "None"}
  /\ BeginOperation /\ FreeMic
  /\ ShowIdle /\ ClearLivePreview /\ StopAnimation /\ live' = "off"
  /\ UNCHANGED <<polls, jobs, shown, voiceEditing, visible>>

Cancel == UserAct /\ OnCancel

(* retry_last_audio keeps the take it retries.                             *)
Retry ==
  /\ UserAct /\ retryShown /\ retry # 0 /\ Owner = "None"
  /\ generation' = generation + 1 /\ retryShown' = FALSE
  /\ StartAnimation
  /\ queue' = Append(queue, NewJob("retry", generation + 1, 0))
  /\ UNCHANGED <<mic, threads, shown, retry, preview, live, recording, paused,
                 voiceEditing, visible>>

(* transcribe_file leaves the old result and its controls in place.        *)
TranscribeFile ==
  /\ UserAct /\ Owner = "None"
  /\ BeginOperation
  /\ StartAnimation /\ live' = "off"
  /\ threads' = threads \cup {NewJob("file", generation + 1, 0)}
  /\ UNCHANGED <<mic, queue, shown, preview, recording, paused, voiceEditing, visible>>

(***************************************************************************)
(* The live preview.                                                       *)
(***************************************************************************)
LiveTick ==
  /\ live = "ready" /\ Owner = "Main"
  /\ live' = "busy"
  /\ queue' = Append(queue, NewJob("live", generation, 0))
  /\ UNCHANGED <<mic, generation, threads, shown, kept, spinner, preview, recording,
                 paused, voiceEditing, visible, acts>>

Head1 == Head(queue)

(* A slow or failed decode ends the loop; silence shows nothing.           *)
LiveAnswer ==
  /\ queue # <<>> /\ Head1.kind = "live"
  /\ queue' = Tail(queue)
  /\ IF Head1.gen = generation /\ live = "busy"
       THEN /\ live' \in {"ready", "off"}
            /\ \/ Owner = "Main" /\ SetLivePreview
               \/ UNCHANGED preview
       ELSE UNCHANGED <<live, preview>>
  /\ UNCHANGED <<mic, generation, threads, shown, kept, spinner, recording, paused,
                 voiceEditing, visible, acts>>

(***************************************************************************)
(* Answers.                                                                *)
(***************************************************************************)
(* Mutant: every answer counts.                                            *)
IsCurrentAlways(g) == g \in Session

IsCurrent(g) == g = generation

(* Mutant: a follow-up is queued as a recording.                           *)
FollowUpsTake(g) ==
  SUBSET {NewJob("take", generation, g), NewJob("chip", generation, g)}

(* The summary and the automatic improvement that a new result starts.     *)
FollowUps(g) ==
  SUBSET {NewJob("summary", generation, g), NewJob("chip", generation, g)}

(* Mutant: the tentative text stays above the result.                      *)
ShowResultBehind(g, more) ==
  /\ result' = g /\ variants' = {} /\ controls' = TRUE
  /\ chipsOn' = (\A j \in more : j.kind # "chip")
  /\ summary' = [of |-> 0, loading |-> \E j \in more : j.kind = "summary"]
  /\ UNCHANGED preview

(* add_result_message: the view is cleared and shows one result.           *)
ShowResult(g, more) ==
  /\ result' = g /\ variants' = {} /\ controls' = TRUE
  /\ chipsOn' = (\A j \in more : j.kind # "chip")
  /\ summary' = [of |-> 0, loading |-> \E j \in more : j.kind = "summary"]
  /\ ClearLivePreview

(* Mutant: only a result stops the animation.                              *)
ApplySpinning(g) ==
  \/ \E more \in FollowUps(g) :
       /\ ShowResult(g, more) /\ threads' = threads \cup more /\ spinner' = FALSE
       /\ retry' = 0 /\ retryShown' = FALSE
  \/ /\ retry' = 0 /\ retryShown' = FALSE /\ ClearLivePreview
     /\ UNCHANGED <<shown, threads, spinner>>

(* apply_transcription_result.                                             *)
Apply(g) ==
  /\ StopAnimation
  /\ \/ \E more \in FollowUps(g) :
          /\ ShowResult(g, more) /\ threads' = threads \cup more
          /\ retry' = 0 /\ retryShown' = FALSE
     \/ (* Silence. *)
        /\ retry' = 0 /\ retryShown' = FALSE /\ ClearLivePreview
        /\ UNCHANGED <<shown, threads>>
     \/ (* An error. *)
        /\ retryShown' = (retry # 0) /\ ClearLivePreview
        /\ UNCHANGED <<shown, threads, retry>>

TakeAnswer ==
  /\ queue # <<>> /\ Head1.kind \in {"take", "retry"}
  /\ queue' = Tail(queue)
  /\ IF IsCurrent(Head1.gen)
       THEN Apply(Head1.gen)
       ELSE UNCHANGED <<threads, shown, kept, spinner, preview>>
  /\ UNCHANGED <<mic, generation, live, recording, paused, voiceEditing, visible, acts>>

(* Mutant: a file's audio is kept though the window was closed.            *)
RetainedAlways == {0, generation}

(* What a failed file leaves to retry: nothing when it was not decoded.    *)
Retained == IF visible THEN {0, generation} ELSE {0}

FileAnswer(j) ==
  /\ j \in threads /\ j.kind = "file"
  /\ IF ~IsCurrent(j.gen)
       THEN threads' = threads \ {j} /\ UNCHANGED <<shown, kept, spinner, preview>>
       ELSE /\ StopAnimation
            /\ \/ \E more \in FollowUps(j.gen) :
                    /\ ShowResult(j.gen, more) /\ threads' = (threads \ {j}) \cup more
                    /\ UNCHANGED kept
               \/ (* Silence. *)
                  threads' = threads \ {j} /\ UNCHANGED <<shown, kept, preview>>
               \/ (* An error. *)
                  /\ retry' \in Retained /\ retryShown' = (retry' # 0)
                  /\ threads' = threads \ {j} /\ UNCHANGED <<shown, preview>>
  /\ UNCHANGED <<mic, generation, queue, live, recording, paused, voiceEditing, visible,
                 acts>>

(***************************************************************************)
(* The result's AI requests.                                               *)
(***************************************************************************)
(* refresh_result_controls.                                                *)
Refresh == controls' = TRUE /\ chipsOn' = TRUE

SelectMessage ==
  /\ FreeAct /\ result # 0 /\ preview = 0
  /\ Refresh
  /\ UNCHANGED <<mic, generation, jobs, result, variants, summary, kept, card,
                 voiceEditing, visible>>

(* run_preset_on_message.                                                  *)
Chip ==
  /\ UserAct /\ controls /\ chipsOn /\ result # 0
  /\ NewJob("chip", generation, result) \notin threads
  /\ threads' = threads \cup {NewJob("chip", generation, result)}
  /\ chipsOn' = FALSE
  /\ UNCHANGED <<mic, generation, queue, result, variants, controls, summary, kept, card,
                 voiceEditing, visible>>

(* A stale answer leaves the chips as they are.                            *)
ChipAnswer(j) ==
  /\ j \in threads /\ j.kind = "chip"
  /\ threads' = threads \ {j}
  /\ IF IsCurrent(j.gen)
       THEN \/ variants' = variants \cup {<<"chip", j.of, j.gen>>} /\ Refresh
            \/ chipsOn' = TRUE /\ UNCHANGED <<variants, controls>>
       ELSE UNCHANGED <<variants, chipsOn, controls>>
  /\ UNCHANGED <<mic, generation, queue, result, summary, kept, card, voiceEditing,
                 visible, acts>>

SummaryAnswer(j) ==
  /\ j \in threads /\ j.kind = "summary"
  /\ threads' = threads \ {j}
  /\ summary' \in IF IsCurrent(j.gen)
                    THEN {NoSummary, [of |-> j.of, loading |-> FALSE]} ELSE {summary}
  /\ UNCHANGED <<mic, generation, queue, result, variants, controls, chipsOn, kept, card,
                 voiceEditing, visible, acts>>

(***************************************************************************)
(* Voice edits of the result.                                              *)
(***************************************************************************)
StartVoiceEdit ==
  /\ UserAct /\ ~voiceEditing /\ controls /\ result # 0
  /\ \/ /\ TakeMic("mainEdit", "VoiceEdit")
        /\ voiceEditing' = TRUE /\ polls' = polls \cup {"main"}
     \/ StartFails("VoiceEdit") /\ UNCHANGED <<voiceEditing, polls>>
  /\ UNCHANGED <<generation, jobs, shown, kept, card, visible>>

(* Mutant: ending an edit leaves the button at "Stop edit" and the         *)
(* microphone on.                                                          *)
StopVoiceEditMainLeaks ==
  /\ voiceEditing' = FALSE
  /\ IF Owner = "VoiceEdit"
       THEN queue' \in {queue, Append(queue, NewJob("edit", generation, result))}
       ELSE UNCHANGED queue
  /\ UNCHANGED <<speaker, dead, generation, threads, shown, kept, card, visible>>

(* stop_voice_edit_main: the owner says voice edit, not whose.             *)
StopVoiceEditMain ==
  /\ voiceEditing' = FALSE
  /\ IF Owner = "VoiceEdit"
       THEN /\ FreeMic
            /\ queue' \in {queue, Append(queue, NewJob("edit", generation, result))}
       ELSE UNCHANGED <<speaker, dead, queue>>
  /\ UNCHANGED <<generation, threads, shown, kept, card, visible>>

StopVoiceEdit == FreeAct /\ voiceEditing /\ controls /\ StopVoiceEditMain /\ UNCHANGED polls

(* Mutant: the poll ends without looking for an error.                     *)
MainPollBlind ==
  /\ "main" \in polls /\ polls' = polls \ {"main"}
  /\ UNCHANGED <<speaker, dead, own, acts>>

(* The window's 500 ms poll.                                               *)
MainPoll ==
  /\ "main" \in polls /\ polls' = polls \ {"main"}
  /\ \/ /\ ~voiceEditing \/ Owner # "VoiceEdit"
        /\ UNCHANGED <<speaker, dead, own>>
     \/ voiceEditing /\ Owner = "VoiceEdit" /\ dead /\ StopVoiceEditMain
  /\ UNCHANGED acts

(* Heard nothing, or the instruction goes on to the AI.                    *)
EditHeard ==
  /\ queue # <<>> /\ Head1.kind = "edit"
  /\ queue' = Tail(queue)
  /\ threads' \in {threads, threads \cup {NewJob("editLlm", Head1.gen, Head1.of)}}
  /\ UNCHANGED <<mic, generation, shown, kept, card, voiceEditing, visible, acts>>

(* The edit joins the message that is there now.                           *)
EditAnswer(j) ==
  /\ j \in threads /\ j.kind = "editLlm"
  /\ threads' = threads \ {j}
  /\ \/ variants' = variants \cup {<<"edit", j.of, j.gen>>} /\ Refresh
     \/ UNCHANGED <<variants, controls, chipsOn>>
  /\ UNCHANGED <<mic, generation, queue, result, summary, kept, card, voiceEditing,
                 visible, acts>>

(***************************************************************************)
(* The window itself.                                                      *)
(***************************************************************************)
(* close_request: only the window's own recording keeps it open.           *)
Close ==
  /\ UserAct /\ Owner # "Main"
  /\ retry' = 0 /\ retryShown' = FALSE /\ visible' = FALSE
  /\ UNCHANGED <<mic, generation, jobs, shown, card, voiceEditing>>

PresentWindow ==
  /\ ~visible /\ visible' = TRUE
  /\ UNCHANGED <<mic, generation, jobs, shown, kept, card, voiceEditing, acts>>

(***************************************************************************)
(* The panel and the microphone.                                           *)
(***************************************************************************)
StreamDies == speaker # "none" /\ ~dead /\ dead' = TRUE /\ UNCHANGED <<speaker, polls, own, acts>>

PanelTake ==
  /\ Act /\ Owner = "None" /\ TakeMic("panel", "Mini") /\ UNCHANGED <<polls, own>>

PanelTakeEnds == Owner = "Mini" /\ FreeMic /\ UNCHANGED <<polls, own, acts>>

PanelTakeDies == Owner = "Mini" /\ dead /\ FreeMic /\ UNCHANGED <<polls, own, acts>>

PanelEdit ==
  /\ Act
  /\ \/ TakeMic("panelEdit", "VoiceEdit") /\ polls' = polls \cup {"panel"}
     \/ StartFails("VoiceEdit") /\ UNCHANGED polls
  /\ UNCHANGED own

(* The panel's Stop and Cancel ask only whether the owner is VoiceEdit.    *)
PanelEndsEdit == Owner = "VoiceEdit" /\ FreeMic /\ UNCHANGED <<polls, own, acts>>

PanelPoll ==
  /\ "panel" \in polls /\ (Owner # "VoiceEdit" \/ dead)
  /\ polls' = polls \ {"panel"}
  /\ IF Owner = "VoiceEdit" THEN FreeMic ELSE UNCHANGED <<speaker, dead>>
  /\ UNCHANGED <<own, acts>>

Panel == PanelTake \/ PanelTakeEnds \/ PanelTakeDies \/ PanelEdit \/ PanelEndsEdit \/ PanelPoll

Answers ==
  \/ LiveAnswer \/ TakeAnswer \/ EditHeard
  \/ \E j \in threads : FileAnswer(j) \/ ChipAnswer(j) \/ SummaryAnswer(j) \/ EditAnswer(j)

WindowNext ==
  \/ Record \/ Pause \/ Stop \/ RecordTimer \/ Cancel \/ Retry \/ TranscribeFile
  \/ LiveTick \/ Answers
  \/ SelectMessage \/ Chip \/ StartVoiceEdit \/ StopVoiceEdit \/ MainPoll
  \/ Close \/ PresentWindow \/ StreamDies \/ Panel

WindowSpec == WindowInit /\ [][WindowNext]_windowVars

(* The timers run and every request is answered; users owe nothing.        *)
Fairness ==
  /\ WF_windowVars(Answers) /\ WF_windowVars(RecordTimer) /\ WF_windowVars(MainPoll)
  /\ WF_windowVars(PanelTakeDies) /\ WF_windowVars(PanelPoll)

FairSpec == WindowSpec /\ Fairness

-----------------------------------------------------------------------------
(* The types of the window's state: who records, the session's requests,   *)
(* and what the view shows.                                                *)
WindowTypeOK ==
  /\ speaker \in {"none", "main", "mainEdit", "panelEdit", "panel"}
  /\ dead \in BOOLEAN /\ polls \subseteq {"main", "panel"}
  /\ generation \in Session /\ queue \in Seq(Queued) /\ threads \subseteq Threaded
  /\ result \in Session /\ variants \subseteq {"chip", "edit"} \X Session \X Session
  /\ controls \in BOOLEAN /\ chipsOn \in BOOLEAN
  /\ summary \in [of : Session, loading : BOOLEAN]
  /\ retry \in Session /\ retryShown \in BOOLEAN
  /\ spinner \in BOOLEAN /\ preview \in Session /\ live \in {"off", "ready", "busy"}
  /\ recording \in BOOLEAN /\ paused \in BOOLEAN
  /\ voiceEditing \in BOOLEAN /\ visible \in BOOLEAN /\ acts \in Session

(* The window shows a recording, or a paused one, exactly while it owns    *)
(* the microphone, whatever the panel does with it.                        *)
UiMatchesMicrophone == (recording <=> Owner = "Main") /\ (paused => recording)

Waited(j) == j.gen = generation /\ j.kind \in {"take", "retry", "file"}

(* The transcribing animation always has an answer to wait for: a take, a  *)
(* file or a retry of the current session.                                 *)
SpinnerHasWork ==
  spinner => \/ \E i \in DOMAIN queue : Waited(queue[i])
             \/ \E j \in threads : Waited(j)

(* The summary section shows the summary of the result above it.           *)
SummaryIsOwn == summary.of \in {0, result}

(* A hidden window keeps no audio to retry: close_request drops it, and a  *)
(* file that fails later does not bring it back.                           *)
ClosedKeepsNoAudio == ~visible => retry = 0 /\ ~retryShown

(* Tentative text never hides the result of the same session.              *)
PreviewNeverHidesResult == preview # 0 => result # preview

(* A voice edit the window started can always be stopped from the window.  *)
EditHasStop == speaker = "mainEdit" => voiceEditing

(* A result only ever gives way to the current session's result, which is  *)
(* newer: an answer that comes late replaces nothing.                      *)
NewestResultWins == [][result' # result => result' = generation /\ result' > result]_windowVars

(* A preset's answer rewrites the result it was asked for, or the result   *)
(* of the session it was asked in: never one of a session begun after the  *)
(* click.                                                                  *)
PresetInItsSession ==
  \A v \in variants : v[1] = "chip" => result \in {v[2], v[3]}

(* The window never ends a dictation of the panel's: a step that does      *)
(* leaves the window as it was.                                            *)
PanelTakeSafe == [][speaker = "panel" /\ speaker' # "panel" => UNCHANGED own]_windowVars

(* A stream that died does not hold the microphone: whoever recorded ends. *)
DeadMicrophoneFreed == dead ~> ~dead

(* The transcribing animation ends.                                        *)
AnimationEnds == spinner ~> ~spinner

(* What the window shows belongs together: its controls match the          *)
(* microphone and the work under way, and preview, summary and presets     *)
(* are of the result they stand beside.                                    *)
WindowSafety ==
  /\ WindowTypeOK
  /\ UiMatchesMicrophone
  /\ SpinnerHasWork
  /\ EditHasStop
  /\ ClosedKeepsNoAudio
  /\ SummaryIsOwn
  /\ PreviewNeverHidesResult
  /\ PresetInItsSession

(* Neither a dead stream nor an answer that was dropped leaves the window  *)
(* waiting for good.                                                       *)
WindowComesToRest ==
  DeadMicrophoneFreed /\ AnimationEnds

(* No step of the window touches what is not its own: not a newer          *)
(* session's result, and not a dictation of the panel's.                   *)
StepsTouchTheirOwn ==
  NewestResultWins /\ PanelTakeSafe
=============================================================================
