------------------------------- MODULE MCParts -------------------------------
(***************************************************************************)
(* Five parts that share nothing: the sidecars' files, the text pages, the *)
(* shortcuts, the voice-activity pass and the capture.  A behaviour steps  *)
(* one of them, the one it has chosen, so that the state space is the sum  *)
(* of theirs; and the capture is either started on a microphone that comes *)
(* and goes, or cut into chunks on one that stays.                         *)
(***************************************************************************)
EXTENDS SidecarFiles, SettingsPages, GlobalShortcuts,
  VoiceActivity, CaptureStream, TLC

CONSTANTS u1, u2, u3, u4, a, b

VARIABLE focus
vars == <<fileVars, pageVars, shortcutVars, voiceVars, captureVars, focus>>

(* Two endpoints on one authority, one on another, one that is not allowed. *)
MCScopeOf == (u1 :> a) @@ (u2 :> a) @@ (u3 :> b) @@ (u4 :> NoScope)

MCStarts == {[mic |-> "usb", chunks |-> FALSE], [mic |-> "default", chunks |-> FALSE],
             [mic |-> "default", chunks |-> TRUE]}

Init ==
  /\ FilesInit /\ PagesInit /\ ShortcutsInit /\ VoiceInit /\ CaptureInit
  /\ focus \in {"files", "pages", "keys", "voice", "mics", "cuts"}
  /\ focus # "pages" => url = u1
  /\ focus # "mics" => plugged
  /\ focus # "voice" => file = 1

Files ==
  /\ focus = "files" /\ FilesNext
  /\ UNCHANGED <<pageVars, shortcutVars, voiceVars, captureVars, focus>>
Pages ==
  /\ focus = "pages" /\ PagesNext
  /\ UNCHANGED <<fileVars, shortcutVars, voiceVars, captureVars, focus>>
Keys ==
  /\ focus = "keys" /\ ShortcutsNext
  /\ UNCHANGED <<fileVars, pageVars, voiceVars, captureVars, focus>>
Voice ==
  /\ focus = "voice" /\ VoiceNext
  /\ UNCHANGED <<fileVars, pageVars, shortcutVars, captureVars, focus>>
Capture ==
  /\ \/ focus = "mics" /\ CaptureNext /\ chunking' # "on"
     \/ focus = "cuts" /\ TakeNext /\ chunking' # "off" /\ error' # "slow"
  /\ UNCHANGED <<fileVars, pageVars, shortcutVars, voiceVars, focus>>
Next == Files \/ Pages \/ Keys \/ Voice \/ Capture

(* The spawned tasks run, and each answer is handled; time passes and the  *)
(* retry it brings is made; a job that waits looks at its token; a lock    *)
(* held is released; the timer has its turn however often the GTK thread   *)
(* has something else to do.                                               *)
Fairness ==
  /\ \A k \in Kind : WF_fileVars(focus = "files" /\ TaskOf(k))
  /\ \A t \in Thing : WF_fileVars(focus = "files" /\ Answered(t))
  /\ WF_shortcutVars(focus = "keys" /\ (Tick \/ Retry))
  /\ \A j \in Job : WF_voiceVars(focus = "voice" /\ GiveUp(j))
  /\ WF_captureVars(focus \in {"mics", "cuts"} /\ Unlock)
  /\ SF_captureVars(focus \in {"mics", "cuts"} /\ Poll)

Spec == Init /\ [][Next]_vars /\ Fairness

(* What waits, ends: a download that is shown, the time between two tries  *)
(* for a session, a cancelled job, a recording whose stream died.          *)
PartsComeToRest ==
  FileRowsSettle /\ RetryComes /\ CancelledGivesUp /\ DeadStreamEnds
=============================================================================
