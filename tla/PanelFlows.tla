----------------------------- MODULE PanelFlows -----------------------------
(***************************************************************************)
(* What the dictation panel does with a finished transcript: delivery      *)
(* without auto-paste, the automatic improvement, chips, voice edits, the  *)
(* raw/polished selector, and the transformation of a selection.           *)
(*                                                                         *)
(* All of it runs on the GTK thread, in handlers and in coroutines that    *)
(* wait for the decoder, the AI or the portal and look at                  *)
(* dictation_generation and at the microphone's owner when they wake up,   *)
(* most of them.  The take itself is GlobalDictation's: here it is one     *)
(* decode.  The auto-paste delivery is PasteDelivery's.                    *)
(*                                                                         *)
(* A text is known by the take it comes from and by who wrote it.          *)
(***************************************************************************)
EXTENDS Integers, Sequences, FiniteSets

CONSTANT MaxBegun   (* User acts that begin something.  Bounds the model.   *)

ASSUME PanelAssumption == MaxBegun \in Nat

VARIABLES
  owner,        (* The microphone's owner.                                 *)
  generation,   (* dictation_generation.                                   *)
  decodes,      (* Takes and spoken instructions at the inference worker.  *)
  threads,      (* What the other coroutines wait for.                     *)
  res,          (* last_result_state.                                      *)
  target,       (* voice_edit_target.                                      *)
  retry,        (* The take retry_take holds, 0 for none.                  *)
  saved,        (* Per take, the polished text in its history entry.       *)
  page,         (* The panel's page.                                       *)
  shown,        (* The text on its result page.                            *)
  extras,       (* The result's chips, selector and Voice edit show.       *)
  chipsOn,      (* The chips are sensitive.                                *)
  retryShown, visible,
  edits,        (* Voice edits stopped.                                    *)
  cancelled,    (* The latest of them when something was cancelled.        *)
  begun

work == <<decodes, threads>>
result == <<res, target, saved>>
screen == <<page, shown, extras, chipsOn, retryShown, visible>>
counts == <<edits, cancelled>>
panelVars == <<owner, generation, work, result, retry, screen, counts, begun>>

Session == 0 .. MaxBegun
Text == [of : Session, by : {"none", "raw", "clean", "chip", "edit", "auto", "transform", "error"}]
Request(kinds) == [kind : kinds, gen : Session, n : Session, text : Text]

NoText == [of |-> 0, by |-> "none"]
Error == [of |-> 0, by |-> "error"]
Raw(r) == [of |-> r.of, by |-> "raw"]

(* Mutant: a request is numbered as the next session's.                    *)
WaitAhead(kind, n, text) == [kind |-> kind, gen |-> generation + 1, n |-> n, text |-> text]

Wait(kind, n, text) == [kind |-> kind, gen |-> generation, n |-> n, text |-> text]

PanelInit ==
  /\ owner = "None" /\ generation = 0 /\ decodes = <<>> /\ threads = {}
  /\ res = [of |-> 0, variants |-> <<>>, active |-> 0] /\ target = NoText /\ retry = 0
  /\ saved = [s \in Session |-> NoText]
  /\ page = "result" /\ shown = NoText /\ extras = FALSE /\ chipsOn = TRUE
  /\ retryShown = FALSE /\ visible = FALSE
  /\ edits = 0 /\ cancelled = 0 /\ begun = 0

Act == begun < MaxBegun /\ begun' = begun + 1

(***************************************************************************)
(* The result state.                                                       *)
(***************************************************************************)
ActiveText(r) == IF r.active \in DOMAIN r.variants THEN r.variants[r.active] ELSE Raw(r)

(* polished_text: with the raw text active, the variant made last.         *)
PolishedText(r) ==
  LET i == IF r.active = 0 THEN Len(r.variants) ELSE r.active
  IN  IF i \in DOMAIN r.variants THEN r.variants[i] ELSE NoText

(* push_variant activates what it adds.                                    *)
PushVariant(r, t) ==
  [r EXCEPT !.variants = Append(@, t), !.active = Len(r.variants) + 1]

(* Mutant: no clamp.                                                       *)
SetActiveAnywhere(r, i) == [r EXCEPT !.active = i]

SetActive(r, i) ==
  [r EXCEPT !.active = IF i > Len(r.variants) THEN Len(r.variants) ELSE i]

FromTranscript(g, cleaned) ==
  LET raw == [of |-> g, variants |-> <<>>, active |-> 0]
  IN  IF cleaned THEN PushVariant(raw, [of |-> g, by |-> "clean"]) ELSE raw

(* Nothing to polish leaves the entry alone.                               *)
Persist(r) ==
  saved' = IF r.of = 0 \/ PolishedText(r) = NoText THEN saved
           ELSE [saved EXCEPT ![r.of] = PolishedText(r)]

(***************************************************************************)
(* The panel's pages.                                                      *)
(***************************************************************************)
ShowRecording ==
  /\ page' = "recording" /\ extras' = FALSE
  /\ UNCHANGED <<shown, chipsOn, retryShown>>

ShowTranscribing == page' = "transcribing" /\ UNCHANGED <<shown, extras, chipsOn>>

ShowError(again) ==
  /\ page' = "result" /\ shown' = Error /\ extras' = FALSE /\ retryShown' = again
  /\ UNCHANGED chipsOn

ShowResult(t) == page' = "result" /\ shown' = t

RenderExtras == extras' = TRUE /\ chipsOn' = TRUE

ShowActive(r) == ShowResult(ActiveText(r)) /\ RenderExtras /\ retryShown' = FALSE

RefreshActive(r) == Persist(r) /\ ShowActive(r)

(***************************************************************************)
(* Takes.                                                                  *)
(***************************************************************************)
(* New, or the shortcut.  An owner that records acquires again.            *)
StartTake ==
  /\ Act
  /\ owner = "None" \/ (owner = "Mini" /\ page = "result" /\ visible)
  /\ generation' = generation + 1 /\ retry' = 0 /\ visible' = TRUE
  /\ \/ owner' = "Mini" /\ ShowRecording
     \/ owner' = "None" /\ ShowError(FALSE)
  /\ UNCHANGED <<work, result, counts>>

(* stop_global_dictation and submit_global_take.                           *)
StopTake ==
  /\ owner = "Mini" /\ owner' = "None"
  /\ retry' = generation /\ retryShown' = FALSE /\ ShowTranscribing
  /\ decodes' = Append(decodes, Wait("take", 0, NoText))
  /\ UNCHANGED <<generation, threads, result, visible, counts, begun>>

RetryTake ==
  /\ Act /\ visible /\ page = "result" /\ retryShown /\ owner = "None" /\ retry # 0
  /\ generation' = generation + 1 /\ retryShown' = FALSE /\ ShowTranscribing
  /\ decodes' = Append(decodes, [Wait("take", 0, NoText) EXCEPT !.gen = generation + 1])
  /\ UNCHANGED <<owner, threads, result, retry, visible, counts>>

(* Mutant: cancelling leaves the generation alone.                         *)
CancelTakeSame ==
  /\ Act /\ visible /\ page # "result" /\ owner # "VoiceEdit"
  /\ retry' = 0 /\ visible' = FALSE
  /\ owner' = IF owner = "Mini" THEN "None" ELSE owner
  /\ cancelled' = edits
  /\ UNCHANGED <<generation, work, result, page, shown, extras, chipsOn, retryShown, edits>>

CancelTake ==
  /\ Act /\ visible /\ page # "result" /\ owner # "VoiceEdit"
  /\ generation' = generation + 1 /\ retry' = 0 /\ visible' = FALSE
  /\ owner' = IF owner = "Mini" THEN "None" ELSE owner
  /\ cancelled' = edits
  /\ UNCHANGED <<work, result, page, shown, extras, chipsOn, retryShown, edits>>

ClosePanel ==
  /\ visible /\ page = "result"
  /\ visible' = FALSE /\ retry' = 0
  /\ UNCHANGED <<owner, generation, work, result, page, shown, extras, chipsOn, retryShown,
                 counts, begun>>

Stale(j) == j.gen # generation

(* deliver_active_result, then the portal.                                 *)
Deliver(r, rest) ==
  /\ Persist(r)
  /\ threads' = rest \cup {Wait("portal", 0, ActiveText(r))}

(* finish_global_dictation, or the failure that leads to a retry.          *)
TakeAnswer ==
  /\ decodes # <<>> /\ decodes' = Tail(decodes)
  /\ LET j == Head(decodes) IN
     /\ j.kind = "take"
     /\ IF Stale(j) \/ owner = "Mini"
          THEN UNCHANGED <<threads, res, saved, retry, page, shown, extras, chipsOn, retryShown>>
          ELSE \/ (* An error keeps the audio; silence does not. *)
                  \E failed \in BOOLEAN :
                    /\ ShowError(failed)
                    /\ retry' = IF failed THEN retry ELSE 0
                    /\ UNCHANGED <<threads, res, saved>>
               \/ \E cleaned \in BOOLEAN :
                    LET new == FromTranscript(j.gen, cleaned) IN
                    /\ res' = new
                    /\ \/ (* Filtered. *)
                          RefreshActive(new) /\ retry' = 0 /\ UNCHANGED threads
                       \/ (* Partial: shown without the extras. *)
                          /\ ShowResult(ActiveText(new)) /\ retryShown' = TRUE
                          /\ UNCHANGED <<threads, saved, retry, extras, chipsOn>>
                       \/ (* Improved first. *)
                          /\ ShowTranscribing /\ retry' = 0
                          /\ threads' = threads \cup {Wait("auto", 0, ActiveText(new))}
                          /\ UNCHANGED <<saved, retryShown>>
                       \/ /\ Deliver(new, threads) /\ retry' = 0
                          /\ UNCHANGED <<page, shown, extras, chipsOn, retryShown>>
  /\ UNCHANGED <<owner, generation, target, visible, counts, begun>>

(* The answer in 12 seconds, or the text without it.                       *)
AutoAnswer(j) ==
  /\ j \in threads /\ j.kind = "auto"
  /\ IF Stale(j) \/ owner = "Mini"
       THEN threads' = threads \ {j} /\ UNCHANGED <<res, saved>>
       ELSE \/ \E r \in {res, PushVariant(res, [j.text EXCEPT !.by = "auto"])} :
                 res' = r /\ Deliver(r, threads \ {j})
            \/ /\ UNCHANGED res
               /\ Deliver(res, (threads \ {j}) \cup {[j EXCEPT !.kind = "late"]})
  /\ UNCHANGED <<owner, generation, decodes, target, retry, screen, counts, begun>>

(* Mutant: a late improvement joins whatever result there is.              *)
LateAnswerAny(j) ==
  /\ j \in threads /\ j.kind = "late"
  /\ threads' = threads \ {j}
  /\ IF owner # "None"
       THEN UNCHANGED <<res, saved, page, shown, extras, chipsOn, retryShown>>
       ELSE \E r \in {res, PushVariant(res, [j.text EXCEPT !.by = "auto"])} :
              res' = r /\ RefreshActive(r)
  /\ UNCHANGED <<owner, generation, decodes, target, retry, visible, counts, begun>>

LateAnswer(j) ==
  /\ j \in threads /\ j.kind = "late"
  /\ threads' = threads \ {j}
  /\ IF Stale(j) \/ owner # "None"
       THEN UNCHANGED <<res, saved, page, shown, extras, chipsOn, retryShown>>
       ELSE \E r \in {res, PushVariant(res, [j.text EXCEPT !.by = "auto"])} :
              res' = r /\ RefreshActive(r)
  /\ UNCHANGED <<owner, generation, decodes, target, retry, visible, counts, begun>>

(* The portal answers within five seconds, or counts as having failed; the *)
(* GTK clipboard is then waited for without another look.                  *)
PortalAnswer(j) ==
  /\ j \in threads /\ j.kind = "portal"
  /\ \/ /\ Stale(j) \/ owner # "None"
        /\ threads' = threads \ {j}
        /\ UNCHANGED <<page, shown, extras, chipsOn, retryShown>>
     \/ /\ ~Stale(j) /\ owner = "None"
        /\ threads' = threads \ {j}
        /\ ShowResult(j.text) /\ RenderExtras /\ retryShown' = FALSE
     \/ /\ ~Stale(j) /\ owner = "None"
        /\ threads' = (threads \ {j}) \cup {[j EXCEPT !.kind = "clipboard"]}
        /\ UNCHANGED <<page, shown, extras, chipsOn, retryShown>>
  /\ UNCHANGED <<owner, generation, decodes, result, retry, visible, counts, begun>>

ClipboardAnswer(j) ==
  /\ j \in threads /\ j.kind = "clipboard"
  /\ threads' = threads \ {j}
  /\ ShowResult(j.text) /\ RenderExtras /\ retryShown' = FALSE
  /\ UNCHANGED <<owner, generation, decodes, result, retry, visible, counts, begun>>

(***************************************************************************)
(* Chips, the selector and voice edits.                                    *)
(***************************************************************************)
OnResult == visible /\ page = "result" /\ extras

Chip ==
  /\ Act /\ OnResult /\ chipsOn /\ res.of # 0
  /\ chipsOn' = FALSE
  /\ threads' = threads \cup {Wait("chip", 0, ActiveText(res))}
  /\ UNCHANGED <<owner, generation, decodes, result, retry, page, shown, extras, retryShown,
                 visible, counts>>

(* Mutant: a stale answer returns before it gives the chips back.          *)
ChipAnswerLast(j) ==
  /\ j \in threads /\ j.kind = "chip" /\ threads' = threads \ {j}
  /\ \/ /\ Stale(j) \/ owner # "None"
        /\ UNCHANGED <<res, page, shown, extras, chipsOn, retryShown>>
     \/ /\ ~Stale(j) /\ owner = "None"
        /\ LET r == PushVariant(res, [j.text EXCEPT !.by = "chip"])
           IN  res' = r /\ ShowActive(r)
     \/ chipsOn' = TRUE /\ UNCHANGED <<res, page, shown, extras, retryShown>>
  /\ UNCHANGED <<owner, generation, decodes, target, saved, retry, visible, counts, begun>>

(* Mutant: the answer is shown over a recording.                           *)
ChipAnswerAnyOwner(j) ==
  /\ j \in threads /\ j.kind = "chip" /\ threads' = threads \ {j}
  /\ \/ LET r == PushVariant(res, [j.text EXCEPT !.by = "chip"])
        IN  res' = r /\ ShowActive(r)
     \/ chipsOn' = TRUE /\ UNCHANGED <<res, page, shown, extras, retryShown>>
  /\ UNCHANGED <<owner, generation, decodes, target, saved, retry, visible, counts, begun>>

(* The chips come back whatever becomes of the answer.                     *)
ChipAnswer(j) ==
  /\ j \in threads /\ j.kind = "chip" /\ threads' = threads \ {j}
  /\ \/ /\ ~Stale(j) /\ owner = "None"
        /\ LET r == PushVariant(res, [j.text EXCEPT !.by = "chip"])
           IN  res' = r /\ ShowActive(r)
     \/ (* Stale, failed or empty. *)
        chipsOn' = TRUE /\ UNCHANGED <<res, page, shown, extras, retryShown>>
  /\ UNCHANGED <<owner, generation, decodes, target, saved, retry, visible, counts, begun>>

(* The selector of another result may still hold more variants.            *)
ChooseVariant ==
  /\ OnResult
  /\ \E i \in 0 .. Len(res.variants) + 1 :
       res' = SetActive(res, i) /\ ShowActive(res')
  /\ UNCHANGED <<owner, generation, work, target, saved, retry, visible, counts, begun>>

(* An owner that records acquires again, the window's edit included.       *)
StartVoiceEdit ==
  /\ Act /\ OnResult /\ res.of # 0 /\ owner \in {"None", "VoiceEdit"}
  /\ visible' = TRUE
  /\ \/ owner' = "VoiceEdit" /\ target' = ActiveText(res) /\ ShowRecording
     \/ owner' = "None" /\ target' = NoText /\ ShowError(FALSE)
  /\ UNCHANGED <<generation, work, res, saved, retry, counts>>

(* The panel's Stop, or its poll on a dead stream.  Without a sound the    *)
(* error gives way to the result at once.                                  *)
StopVoiceEdit ==
  /\ owner = "VoiceEdit" /\ page = "recording" /\ owner' = "None"
  /\ \/ /\ ShowTranscribing /\ UNCHANGED retryShown
        /\ decodes' = Append(decodes, Wait("edit", edits + 1, NoText)) /\ edits' = edits + 1
     \/ ShowActive(res) /\ UNCHANGED <<decodes, edits>>
  /\ UNCHANGED <<generation, threads, result, retry, visible, cancelled, begun>>

CancelVoiceEdit ==
  /\ Act /\ visible /\ page # "result" /\ owner = "VoiceEdit"
  /\ generation' = generation + 1
  /\ owner' = "None" /\ target' = NoText /\ cancelled' = edits
  /\ ShowActive(res)
  /\ UNCHANGED <<work, res, saved, retry, visible, edits>>

(* run_voice_edit_llm, or what stands in its way.                          *)
EditHeard ==
  /\ decodes # <<>> /\ decodes' = Tail(decodes)
  /\ LET j == Head(decodes) IN
     /\ j.kind = "edit"
     /\ IF Stale(j) \/ owner # "None"
          THEN UNCHANGED <<threads, target, page, shown, extras, chipsOn, retryShown>>
          ELSE \/ ShowError(FALSE) /\ UNCHANGED <<threads, target>>
               \/ target' = NoText /\ ShowActive(res) /\ UNCHANGED threads
               \/ /\ target # NoText /\ target' = NoText /\ ShowTranscribing
                  /\ threads' = threads \cup {Wait("editLlm", j.n, target)}
                  /\ UNCHANGED retryShown
  /\ UNCHANGED <<owner, generation, res, saved, retry, visible, counts, begun>>

(* Mutant: a failed edit is not shown.                                     *)
EditAnswerSilent(j) ==
  /\ j \in threads /\ j.kind = "editLlm" /\ threads' = threads \ {j}
  /\ \/ /\ ~Stale(j) /\ owner = "None"
        /\ LET r == PushVariant(res, [j.text EXCEPT !.by = "edit"])
           IN  res' = r /\ ShowActive(r)
     \/ UNCHANGED <<res, page, shown, extras, chipsOn, retryShown>>
  /\ UNCHANGED <<owner, generation, decodes, target, saved, retry, visible, counts, begun>>

EditAnswer(j) ==
  /\ j \in threads /\ j.kind = "editLlm" /\ threads' = threads \ {j}
  /\ \/ /\ Stale(j) \/ owner # "None"
        /\ UNCHANGED <<res, page, shown, extras, chipsOn, retryShown>>
     \/ /\ ~Stale(j) /\ owner = "None"
        /\ \/ LET r == PushVariant(res, [j.text EXCEPT !.by = "edit"])
              IN  res' = r /\ ShowActive(r)
           \/ ShowError(FALSE) /\ UNCHANGED res
  /\ UNCHANGED <<owner, generation, decodes, target, saved, retry, visible, counts, begun>>

(***************************************************************************)
(* The transformation of a selection.                                      *)
(***************************************************************************)
TransformSelection ==
  /\ Act /\ owner = "None"
  /\ threads' = threads \cup {Wait("selection", 0, NoText)}
  /\ UNCHANGED <<owner, generation, decodes, result, retry, screen, counts>>

(* The clipboards were read.  Nobody looks at the owner again.             *)
SelectionRead(j) ==
  /\ j \in threads /\ j.kind = "selection" /\ visible' = TRUE
  /\ \/ ShowError(FALSE) /\ threads' = threads \ {j}
     \/ /\ ShowTranscribing /\ UNCHANGED retryShown
        /\ threads' = (threads \ {j}) \cup {Wait("transform", 0, NoText)}
  /\ UNCHANGED <<owner, generation, decodes, result, retry, counts, begun>>

TransformAnswer(j) ==
  /\ j \in threads /\ j.kind = "transform"
  /\ \/ /\ threads' = (threads \ {j}) \cup {Wait("portal", 0, [of |-> 0, by |-> "transform"])}
        /\ UNCHANGED <<page, shown, extras, chipsOn, retryShown>>
     \/ threads' = threads \ {j} /\ ShowError(FALSE)
  /\ UNCHANGED <<owner, generation, decodes, result, retry, visible, counts, begun>>

(***************************************************************************)
(* The main window's use of the microphone.                                *)
(***************************************************************************)
WindowRecords ==
  /\ Act
  /\ \/ owner = "None" /\ owner' \in {"Main", "VoiceEdit"}
     \/ owner = "VoiceEdit" /\ owner' \in {"VoiceEdit", "None"}
  /\ UNCHANGED <<generation, work, result, retry, screen, counts>>

WindowEnds ==
  /\ owner \in {"Main", "VoiceEdit"} /\ owner' = "None"
  /\ UNCHANGED <<generation, work, result, retry, screen, counts, begun>>

Answers ==
  \/ TakeAnswer \/ EditHeard
  \/ \E j \in threads :
       \/ AutoAnswer(j) \/ LateAnswer(j) \/ PortalAnswer(j) \/ ClipboardAnswer(j)
       \/ ChipAnswer(j) \/ EditAnswer(j) \/ SelectionRead(j) \/ TransformAnswer(j)

PanelNext ==
  \/ StartTake \/ StopTake \/ RetryTake \/ CancelTake \/ ClosePanel
  \/ Chip \/ ChooseVariant \/ StartVoiceEdit \/ StopVoiceEdit \/ CancelVoiceEdit
  \/ TransformSelection \/ WindowRecords \/ WindowEnds \/ Answers

PanelSpec == PanelInit /\ [][PanelNext]_panelVars

(* Every request is answered or times out; users owe nothing.              *)
FairPanelSpec == PanelSpec /\ WF_panelVars(Answers)

-----------------------------------------------------------------------------
(* The types of the panel's state: whose take it is, what is decoded or    *)
(* asked for, and what is shown.                                           *)
PanelTypeOK ==
  /\ owner \in {"None", "Mini", "Main", "VoiceEdit"} /\ generation \in Session
  /\ decodes \in Seq(Request({"take", "edit"}))
  /\ threads \subseteq Request({"auto", "late", "portal", "clipboard", "chip", "editLlm",
                                "selection", "transform"})
  /\ res.of \in Session /\ res.variants \in Seq(Text) /\ res.active \in Nat
  /\ target \in Text /\ retry \in Session /\ saved \in [Session -> Text]
  /\ page \in {"recording", "transcribing", "result"} /\ shown \in Text
  /\ extras \in BOOLEAN /\ chipsOn \in BOOLEAN /\ retryShown \in BOOLEAN /\ visible \in BOOLEAN
  /\ edits \in Session /\ cancelled \in Session /\ begun \in Session

(* The active index always names the raw text or a variant that exists,    *)
(* whichever result the selector was built for.                            *)
ActiveExists == res.active <= Len(res.variants)

(* An automatic improvement belongs to the result it was made from, in the *)
(* panel and in the history, however late it arrives.                      *)
ImprovementOnItsResult ==
  /\ \A i \in DOMAIN res.variants : res.variants[i].by = "auto" => res.variants[i].of = res.of
  /\ \A s \in Session : saved[s].by = "auto" => saved[s].of = s

Unchecked == {j \in threads : j.kind \in {"selection", "transform", "clipboard"}}

(* Nothing repaints the page of a live dictation but a transformation or a *)
(* delivery that waits for the clipboard, the two that do not look at the  *)
(* owner again.                                                            *)
RecordingPageKept ==
  [][owner = "Mini" /\ page = "recording" /\ owner' = "Mini" /\ page' # "recording"
       => Unchecked \ threads' # {} \/ begun' > begun]_panelVars

(* The answer to a voice edit that was cancelled changes nothing.          *)
CancelledEditIsDropped ==
  [][\A j \in threads : j.kind = "editLlm" /\ j.n <= cancelled /\ j \notin threads'
       => res' = res /\ page' = page]_panelVars

(* The chips a request disabled come back.                                 *)
ChipsComeBack == ~chipsOn ~> chipsOn

(* The panel does not stay at transcribing or improving, unless it is      *)
(* closed: as long as nobody records behind a waiting panel, in which case *)
(* the answer it waits for is dropped.                                     *)
WaitingEnds ==
  [](page = "transcribing" => owner = "None")
    => (page = "transcribing" ~> page # "transcribing" \/ ~visible)

(* The panel's selector names a text that exists, and an improvement is    *)
(* kept with the take it was made of, on the panel and in the history.     *)
PanelSafety ==
  PanelTypeOK /\ ActiveExists /\ ImprovementOnItsResult

(* An answer that comes late neither covers a live dictation nor applies   *)
(* an edit that was cancelled.                                             *)
LateAnswersHarmless ==
  RecordingPageKept /\ CancelledEditIsDropped

(* Whatever answer is dropped, the panel does not keep its chips disabled  *)
(* or wait for good.                                                       *)
PanelComesToRest ==
  ChipsComeBack /\ WaitingEnds
=============================================================================
