---------------------------- MODULE PasteDelivery ----------------------------
(***************************************************************************)
(* Delivery of a transcript into the focused application: the coroutine on *)
(* the GTK thread that hides the panel and waits, the portal actor that    *)
(* owns the RemoteDesktop session and the clipboard selection, the key     *)
(* chord, and the ydotool fallback on a blocking thread.                   *)
(*                                                                         *)
(* Three parties share a DeliveryRequest: the GTK thread cancels it, the   *)
(* clock expires it, and whoever is about to press a key looks at it.      *)
(*                                                                         *)
(* The text of request r is r itself; Foreign is the text another surface  *)
(* of the program copies.  Keys are positions of the chord, the last one   *)
(* is V.                                                                   *)
(***************************************************************************)
EXTENDS Integers, Sequences, FiniteSets

CONSTANTS
  MaxRequests,  (* Paste requests.  Bounds the model.                      *)
  MaxActs,      (* Things the user does.  Bounds the model.              *)
  ChordLen,     (* Keys of the configured shortcut: 2 or 3.                *)
  QueueCap,     (* Capacity of the actor's channel (16 in the code).       *)
  Foreign,      (* Another surface's text.                                 *)
  Portal,       (* The clipboard's content is what the actor serves.       *)
  None          (* The absent value.                                       *)

Outcome == {"ShortcutSent", "ClipboardOnly", "Unavailable", "Cancelled"}

ASSUME PasteAssumption ==
  /\ MaxRequests \in Nat \ {0} /\ MaxActs \in Nat
  /\ ChordLen \in {2, 3} /\ QueueCap \in Nat \ {0}
  /\ Foreign \notin 1..MaxRequests /\ None \notin 1..MaxRequests
  /\ Portal \notin 1..MaxRequests
  /\ None # Foreign /\ None # Portal /\ Portal # Foreign
  /\ None \notin Outcome \cup {"ydotool"}

VARIABLES
  ui,         (* Where each request's coroutine waits.                     *)
  copied,     (* The coroutine's `copied'.                                 *)
  pending,    (* pending_paste, or None.                                   *)
  flags,      (* The shared DeliveryRequest of each request.               *)
  stale,      (* Requests of an earlier dictation generation.              *)
  recording,  (* RecordingOwner.                                           *)
  panel,      (* Whether the mini panel is visible.                        *)
  focus,      (* Who holds the keyboard: panel, another window of ours, app.*)
  sending,    (* Commands whose sender waits for room in the channel.      *)
  queue,      (* The actor's channel.                                      *)
  actor,      (* The command the actor executes and where it waits.        *)
  live,       (* The live portal session: absent, without or with clipboard.*)
  token,      (* Whether the restore-token file exists.                    *)
  current,    (* The text the actor serves.                                *)
  clip,       (* The text a paste would read, or Portal.                 *)
  chord,      (* The key chord of each request.                            *)
  reply       (* The outcome sent back for each request or copy, or None.  *)

(* History variables.                                                      *)
VARIABLES
  late,       (* Requests one of whose keys went down after they ended.     *)
  acts        (* Things the user did, moving the focus aside.              *)

uiVars == <<ui, copied, pending, stale, recording, panel, focus>>
actorVars == <<sending, queue, actor, live, token, current>>
ghosts == <<late, acts>>
vars == <<uiVars, flags, actorVars, clip, chord, reply, ghosts>>

-----------------------------------------------------------------------------
Requests == 1..MaxRequests

Used == {r \in Requests : ui[r] # "idle"}

Flags == [cancelled: BOOLEAN, started: BOOLEAN, expired: BOOLEAN]

Command ==
  [kind: {"deliver", "inject", "copy", "grant", "close"},
   r: Requests \cup {Foreign, None}]

Chord ==
  [pc: {"none", "press", "check", "release", "done"},
   key: 1..ChordLen, held: 0..ChordLen,
   result: {"Sent", "Cancelled", "Failed"}, by: {"deliver", "inject", "ydotool"}]

NoChord ==
  [pc |-> "none", key |-> 1, held |-> 0, result |-> "Sent", by |-> "deliver"]

Idle == [pc |-> "idle", cmd |-> [kind |-> "close", r |-> None], tries |-> 0]

is_current(r) == ~flags[r].cancelled /\ ~flags[r].expired

Cancelled(f, r) == [f EXCEPT ![r].cancelled = TRUE]

(* A paste reads what the clipboard owner serves.                          *)
ClipText == IF clip = Portal THEN current ELSE clip

Owns(r) == r \notin stale /\ recording = "none" /\ pending = r

Init ==
  /\ ui = [r \in Requests |-> "idle"] /\ copied = [r \in Requests |-> FALSE]
  /\ pending = None /\ stale = {} /\ recording = "none"
  /\ panel = "shown" /\ focus = "panel"
  /\ flags = [r \in Requests |->
       [cancelled |-> FALSE, started |-> FALSE, expired |-> FALSE]]
  /\ sending = {} /\ queue = <<>> /\ actor = Idle
  /\ live = "none" /\ token \in BOOLEAN /\ current = None
  /\ clip = None
  /\ chord = [r \in Requests |-> NoChord] /\ reply = [r \in Requests \cup {Foreign} |-> None]
  /\ late = {}
  /\ acts = 0

(***************************************************************************)
(* The GTK thread: the delivery coroutine.                                 *)
(***************************************************************************)
Cancel_pending_paste(f) == IF pending = None THEN f ELSE Cancelled(f, pending)

(* Paste in the result view, or the automatic delivery of a finished take. *)
Spawn(r) ==
  /\ ui[r] = "idle" /\ \A q \in Requests : q < r => ui[q] # "idle"
  /\ recording = "none"
  /\ acts < MaxActs /\ acts' = acts + 1
  /\ flags' = Cancel_pending_paste(flags)
  /\ pending' = r
  /\ ui' = [ui EXCEPT ![r] = "begin"]
  /\ UNCHANGED <<copied, stale, recording, panel, focus, actorVars, clip,
                 chord, reply, late>>

Return(r) ==
  /\ ~Owns(r)
  /\ ui' = [ui EXCEPT ![r] = "done"]
  /\ copied' = [copied EXCEPT ![r] = FALSE]
  /\ UNCHANGED <<pending, flags, panel, sending, clip>>

(* Put the text on the GTK clipboard when the panel holds the focus.       *)
Copy_if_active(r) ==
  /\ clip' = IF focus = "panel" THEN r ELSE clip
  /\ copied' = [copied EXCEPT ![r] = @ \/ focus = "panel"]

(* show_result, show_delivery_status and the end of the request.           *)
Finish(r) ==
  /\ copied' = [copied EXCEPT ![r] = FALSE]
  /\ ui' = [ui EXCEPT ![r] = "done"]
  /\ panel' = "shown" /\ pending' = None
  /\ UNCHANGED <<sending, clip>>

Dispatch(r, kind, has) ==
  /\ sending' = sending \cup {[kind |-> kind, r |-> r]}
  /\ ui' = [ui EXCEPT ![r] = IF kind = "deliver" THEN "awaiting" ELSE "typing"]
  /\ copied' = [copied EXCEPT ![r] = has]
  /\ UNCHANGED <<pending, flags, panel, clip>>

Begin(r) ==
  /\ ui[r] = "begin"
  /\ \/ Return(r)
     \/ /\ Owns(r)
        /\ Copy_if_active(r)
        /\ panel' = "hidden"
        /\ ui' = [ui EXCEPT ![r] = "hiding"]
        /\ UNCHANGED <<pending, flags, sending>>

(* The waits for the focus to leave end, with or without it having left.   *)
Hidden(r) ==
  /\ ui[r] = "hiding"
  /\ \/ Return(r)
     \/ Owns(r) /\ is_current(r) /\ focus = "app" /\ Dispatch(r, "deliver", copied[r])
     \/ /\ Owns(r) /\ ~(is_current(r) /\ focus = "app")
        /\ Finish(r) /\ flags' = Cancelled(flags, r)

Fallback(r) ==
  IF copied[r] /\ is_current(r) /\ focus = "app"
    THEN Dispatch(r, "inject", TRUE)
    ELSE Finish(r) /\ flags' = Cancelled(flags, r)

(* Mutant: the answer is awaited without a limit.                          *)
AnsweredOnly(r, outcome) == outcome = reply[r]

(* await_delivery: the actor's outcome, or the request's own deadline.     *)
Answered(r, outcome) ==
  \/ outcome = reply[r]
  \/ reply[r] \notin Outcome /\ flags[r].expired /\ outcome = "Cancelled"

Delivered(r) ==
  /\ ui[r] = "awaiting"
  /\ \E outcome \in Outcome :
       /\ Answered(r, outcome)
       /\ \/ Return(r)
          \/ /\ Owns(r)
             /\ outcome = "Unavailable" /\ is_current(r) /\ copied[r]
             /\ Fallback(r)
          \/ /\ Owns(r)
             /\ outcome = "Unavailable" /\ is_current(r) /\ ~copied[r]
             /\ panel' = "shown" /\ ui' = [ui EXCEPT ![r] = "presenting"]
             /\ UNCHANGED <<copied, pending, flags, sending, clip>>
          \/ /\ Owns(r)
             /\ ~(outcome = "Unavailable" /\ is_current(r))
             /\ Finish(r)
             /\ flags' = Cancelled(flags, r)

(* Mutant: who owns the panel is not asked again after the wait.           *)
PresentedUnchecked(r) ==
  /\ ui[r] = "presenting"
  /\ Copy_if_active(r)
  /\ panel' = "hidden" /\ ui' = [ui EXCEPT ![r] = "rehiding"]
  /\ UNCHANGED <<pending, flags, sending>>

(* The panel was presented to get the focus a clipboard write needs.       *)
Presented(r) ==
  /\ ui[r] = "presenting"
  /\ \/ Return(r)
     \/ /\ Owns(r)
        /\ Copy_if_active(r)
        /\ panel' = "hidden" /\ ui' = [ui EXCEPT ![r] = "rehiding"]
        /\ UNCHANGED <<pending, flags, sending>>

Rehidden(r) ==
  /\ ui[r] = "rehiding"
  /\ Return(r) \/ (Owns(r) /\ Fallback(r))

Typed(r) ==
  /\ ui[r] = "typing"
  /\ \E outcome \in Outcome :
       /\ Answered(r, outcome)
       /\ \/ Return(r)
          \/ Owns(r) /\ Finish(r) /\ flags' = Cancelled(flags, r)

(* An answer is taken from its channel when the coroutine looks at it.     *)
Coroutine(r) ==
  /\ \/ Begin(r) \/ Hidden(r) \/ Delivered(r)
     \/ Presented(r) \/ Rehidden(r) \/ Typed(r)
  /\ reply' = IF reply[r] = "ydotool" THEN reply ELSE [reply EXCEPT ![r] = None]
  /\ UNCHANGED <<stale, recording, focus, queue, actor, live, token, current,
                 chord, ghosts>>

(***************************************************************************)
(* The user and the desktop.                                               *)
(***************************************************************************)
(* Mutant: nothing watches the focus while the portal opens.               *)
FocusUnwatched(where) ==
  /\ focus # where
  /\ where = "panel" => panel = "shown"
  /\ focus' = where
  /\ UNCHANGED <<ui, copied, pending, stale, recording, panel, flags, actorVars,
                 clip, chord, reply, ghosts>>

(* A window of this program that regains the focus cancels the request     *)
(* whose delivery watches it.                                              *)
Focus(where) ==
  /\ focus # where
  /\ where = "panel" => panel = "shown"
  /\ focus' = where
  /\ flags' = [r \in Requests |->
       [flags[r] EXCEPT !.cancelled =
          @ \/ (ui[r] \in {"awaiting", "typing"} /\ where # "app")]]
  /\ UNCHANGED <<ui, copied, pending, stale, recording, panel, actorVars, clip,
                 chord, reply, ghosts>>

(* A hidden panel loses the focus.                                         *)
Start(who) ==
  /\ acts < MaxActs /\ acts' = acts + 1
  /\ recording = "none" /\ recording' = who
  /\ flags' = Cancel_pending_paste(flags) /\ pending' = None
  /\ IF who = "mini" THEN stale' = Used /\ panel' = "shown"
                     ELSE UNCHANGED <<stale, panel>>
  /\ UNCHANGED <<ui, copied, focus, actorVars, clip, chord, reply, late>>

Stop ==
  /\ recording # "none" /\ recording' = "none"
  /\ UNCHANGED <<ui, copied, pending, stale, panel, focus, flags, actorVars,
                 clip, chord, reply, ghosts>>

(* Retry bumps the generation and leaves the pending request alone.        *)
Retry ==
  /\ acts < MaxActs /\ acts' = acts + 1
  /\ recording = "none" /\ panel = "shown" /\ Used \ stale # {}
  /\ stale' = Used
  /\ UNCHANGED <<ui, copied, pending, recording, panel, focus, flags, actorVars,
                 clip, chord, reply, late>>

(* Closing the panel; during a mini recording the X cancels it.            *)
Close_mini_panel ==
  /\ acts < MaxActs /\ acts' = acts + 1
  /\ panel = "shown" /\ panel' = "hidden"
  /\ flags' = Cancel_pending_paste(flags) /\ pending' = None
  /\ IF recording = "mini" THEN recording' = "none" /\ stale' = Used
                           ELSE UNCHANGED <<recording, stale>>
  /\ UNCHANGED <<ui, copied, focus, actorVars, clip, chord, reply, late>>

(* The deadline passes; once nothing looks at it any more it is left alone. *)
Busy(r) ==
  \/ ui[r] \notin {"idle", "done"} \/ actor.cmd.r = r \/ reply[r] = "ydotool"
  \/ \E c \in sending : c.r = r \/ \E i \in DOMAIN queue : queue[i].r = r

Expire(r) ==
  /\ Busy(r) /\ ~flags[r].expired
  /\ flags' = [flags EXCEPT ![r].expired = TRUE]
  /\ UNCHANGED <<uiVars, actorVars, clip, chord, reply, ghosts>>

(* Another surface copies its text, or Settings asks for the permission.   *)
Other(kind) ==
  /\ acts < MaxActs /\ acts' = acts + 1
  /\ kind \in {"copy", "grant"}
  /\ sending' = sending \cup {[kind |-> kind, r |-> IF kind = "copy" THEN Foreign ELSE None]}
  /\ UNCHANGED <<uiVars, flags, queue, actor, live, token, current, clip, chord,
                 reply, late>>

(* CloseSession is only tried; the token file is removed at once.          *)
Revoke_restore_token ==
  /\ acts < MaxActs /\ acts' = acts + 1
  /\ token' = FALSE
  /\ queue' = IF Len(queue) < QueueCap
                THEN Append(queue, [kind |-> "close", r |-> None]) ELSE queue
  /\ UNCHANGED <<uiVars, flags, sending, actor, live, current, clip, chord,
                 reply, late>>

(***************************************************************************)
(* The portal actor.                                                       *)
(***************************************************************************)
Send(c) ==
  /\ c \in sending /\ Len(queue) < QueueCap
  /\ sending' = sending \ {c} /\ queue' = Append(queue, c)
  /\ UNCHANGED <<uiVars, flags, actor, live, token, current, clip, chord, reply,
                 ghosts>>

(* An outcome nobody waits for any more is dropped.                        *)
Answer(r, outcome) ==
  IF r = None \/ (r \in Requests /\ ui[r] = "done") THEN reply
  ELSE [reply EXCEPT ![r] = outcome]

(* The end of a command and its reply.  An Inject that found no portal is  *)
(* handed to ydotool, where that is installed and the request still stands.*)
Reply(r, outcome) ==
  /\ actor' = Idle
  /\ \/ reply' = Answer(r, outcome)
     \/ /\ actor.cmd.kind = "inject" /\ outcome = "Unavailable" /\ is_current(r)
        /\ reply' = [reply EXCEPT ![r] = "ydotool"]

(* The commands that carry a DeliveryRequest.                              *)
Timed == actor.cmd.kind \in {"deliver", "inject"}

(* An Unavailable delivery whose request has ended is a cancelled one.     *)
Settle(r, outcome) ==
  Reply(r, IF Timed /\ outcome = "Unavailable" /\ ~is_current(r)
             THEN "Cancelled" ELSE outcome)

Goto(pc) == actor' = [actor EXCEPT !.pc = pc]

Keep == UNCHANGED <<uiVars, sending, chord, ghosts>>

(* The close of a dead session loses the selection it owned.               *)
Close_live ==
  /\ live' = "none"
  /\ clip' = IF clip = Portal THEN None ELSE clip

Take ==
  /\ actor.pc = "idle" /\ queue # <<>>
  /\ queue' = Tail(queue)
  /\ LET c == Head(queue) IN
     IF c.kind = "close"
       THEN Close_live /\ UNCHANGED <<actor, current>>
       ELSE /\ actor' = [pc |-> "session", cmd |-> c, tries |-> 2]
            /\ current' = IF c.kind = "copy" THEN c.r ELSE current
            /\ UNCHANGED <<live, clip>>
  /\ Keep /\ UNCHANGED <<flags, token, reply>>

(* The signal stream ended: the session is dropped and opened lazily.      *)
StreamEnds ==
  /\ actor.pc = "idle" /\ live # "none"
  /\ Close_live
  /\ Keep /\ UNCHANGED <<flags, queue, actor, token, current, reply>>

Ready(pc) == IF actor.cmd.kind \in {"deliver", "copy"} THEN "select" ELSE pc

(* What follows a usable session: a selection, a chord, or nothing.        *)
AfterSession ==
  LET c == actor.cmd IN
  IF c.kind = "grant" THEN Reply(c.r, "Unavailable")
  ELSE IF Timed /\ ~is_current(c.r) THEN Reply(c.r, "Cancelled")
  ELSE IF c.kind \in {"deliver", "copy"} /\ live' = "noclip" THEN Reply(c.r, "Unavailable")
  ELSE Goto(Ready("inject")) /\ UNCHANGED reply

Ensure_live ==
  /\ actor.pc = "session"
  /\ LET c == actor.cmd IN
     \/ Timed /\ ~is_current(c.r) /\ Reply(c.r, "Cancelled") /\ UNCHANGED live
     \/ (Timed => is_current(c.r)) /\ live # "none" /\ UNCHANGED live /\ AfterSession
     \/ /\ (Timed => is_current(c.r)) /\ live = "none" /\ UNCHANGED live
        /\ IF token \/ c.kind = "grant"
             THEN Goto("opening") /\ UNCHANGED reply
             ELSE Reply(c.r, "Unavailable")
  /\ Keep /\ UNCHANGED <<flags, queue, token, current, clip>>

(* The handshake: refused, failed, or started and its token saved.  Only   *)
(* the interactive request from Settings asks the user for it.             *)
Open_session ==
  /\ actor.pc = "opening"
  /\ \/ token' = FALSE /\ Settle(actor.cmd.r, "Unavailable")
     \/ UNCHANGED token /\ Settle(actor.cmd.r, "Unavailable")
     \/ /\ token' = TRUE /\ Goto("subscribing") /\ UNCHANGED reply
  /\ UNCHANGED <<uiVars, sending, chord, late, acts, flags, queue, live, current,
                 clip>>

Subscribe ==
  /\ actor.pc = "subscribing"
  /\ \/ UNCHANGED live /\ Settle(actor.cmd.r, "Unavailable")
     \/ live' \in {"noclip", "clip"} /\ AfterSession
  /\ Keep /\ UNCHANGED <<flags, queue, token, current, clip>>

Session_timeout ==
  /\ actor.pc \in {"opening", "subscribing"} /\ Timed
  /\ flags[actor.cmd.r].expired
  /\ flags' = Cancelled(flags, actor.cmd.r)
  /\ Reply(actor.cmd.r, "Cancelled")
  /\ Keep /\ UNCHANGED <<queue, live, token, current, clip>>

(* One chord per request, and none for a request that has ended.           *)
Begin_injection(r, by) ==
  /\ is_current(r) /\ ~flags[r].started
  /\ flags' = [flags EXCEPT ![r].started = TRUE]
  /\ chord' = [chord EXCEPT ![r] = [NoChord EXCEPT !.pc = "press", !.by = by]]

Refused(r) == (~is_current(r) \/ flags[r].started) /\ UNCHANGED <<flags, chord>>

(* Mutant: a copy and a delivery take the selection the same way.          *)
SelectedStale ==
  /\ actor.pc = "select"
  /\ clip' = Portal
  /\ LET r == actor.cmd.r IN
     IF actor.cmd.kind = "copy"
       THEN Reply(r, "ClipboardOnly") /\ UNCHANGED <<flags, chord>>
       ELSE \/ Begin_injection(r, "deliver") /\ Goto("chord") /\ UNCHANGED reply
            \/ Refused(r) /\ Reply(r, "ClipboardOnly")
  /\ UNCHANGED <<uiVars, sending, queue, live, token, current, ghosts>>

Selected ==
  /\ actor.pc = "select"
  /\ clip' = Portal
  /\ LET r == actor.cmd.r IN
     IF actor.cmd.kind = "copy"
       THEN Reply(r, "ClipboardOnly") /\ UNCHANGED <<flags, chord, current>>
       ELSE /\ current' = r
            /\ \/ Begin_injection(r, "deliver") /\ Goto("chord") /\ UNCHANGED reply
               \/ Refused(r) /\ Reply(r, "ClipboardOnly")
  /\ UNCHANGED <<uiVars, sending, queue, live, token, ghosts>>

(* A stale session is recreated once, before any key was pressed.          *)
Selection_failed ==
  /\ actor.pc = "select"
  /\ Close_live
  /\ IF actor.tries > 1
       THEN /\ actor' = [actor EXCEPT !.pc = "session", !.tries = @ - 1]
            /\ UNCHANGED reply
       ELSE Settle(actor.cmd.r, "Unavailable")
  /\ Keep /\ UNCHANGED <<flags, queue, token, current>>

(* The call may have taken effect although its answer came too late.       *)
Selection_timeout ==
  /\ actor.pc = "select" /\ Timed /\ flags[actor.cmd.r].expired
  /\ clip' \in {clip, Portal}
  /\ flags' = Cancelled(flags, actor.cmd.r)
  /\ Reply(actor.cmd.r, "Cancelled")
  /\ Keep /\ UNCHANGED <<queue, live, token, current>>

Inject ==
  /\ actor.pc = "inject"
  /\ \/ Begin_injection(actor.cmd.r, "inject") /\ Goto("chord") /\ UNCHANGED reply
     \/ Refused(actor.cmd.r) /\ Reply(actor.cmd.r, "Cancelled")
  /\ UNCHANGED <<uiVars, sending, queue, live, token, current, clip, ghosts>>

Ydotool(r) ==
  /\ reply[r] = "ydotool" /\ chord[r].pc = "none"
  /\ \/ Begin_injection(r, "ydotool") /\ UNCHANGED reply
     \/ Refused(r) /\ reply' = [reply EXCEPT ![r] = "Cancelled"]
  /\ UNCHANGED <<uiVars, actorVars, clip, ghosts>>

(***************************************************************************)
(* send_chord: one notification at a time, each of which may fail with or  *)
(* without effect.                                                         *)
(***************************************************************************)
Press(r) ==
  /\ chord[r].pc = "press"
  /\ LET k == chord[r].key IN
     \/ chord' = [chord EXCEPT ![r].held = k,
                    ![r].pc = IF k = ChordLen THEN "release" ELSE "check"]
     \/ chord' = [chord EXCEPT ![r].held = k, ![r].pc = "release",
                    ![r].result = "Failed"]
  /\ late' = IF is_current(r) THEN late ELSE late \cup {r}
  /\ UNCHANGED <<uiVars, flags, actorVars, clip, reply, acts>>

(* Mutant: the request is looked at once, before the first key.            *)
CheckUnchecked(r) ==
  /\ chord[r].pc = "check"
  /\ chord' = [chord EXCEPT ![r].pc = "press", ![r].key = @ + 1]
  /\ UNCHANGED <<uiVars, flags, actorVars, clip, reply, ghosts>>

Check(r) ==
  /\ chord[r].pc = "check"
  /\ chord' = IF is_current(r)
                THEN [chord EXCEPT ![r].pc = "press", ![r].key = @ + 1]
                ELSE [chord EXCEPT ![r].pc = "release", ![r].result = "Cancelled"]
  /\ UNCHANGED <<uiVars, flags, actorVars, clip, reply, ghosts>>

(* Mutant: a failed release ends the chord.                                *)
ReleaseStops(r) ==
  /\ chord[r].pc = "release"
  /\ \E ok \in BOOLEAN :
       chord' = [chord EXCEPT ![r].held = @ - 1,
         ![r].result = IF ok THEN @ ELSE "Failed",
         ![r].pc = IF chord[r].held = 1 \/ ~ok THEN "done" ELSE "release"]
  /\ UNCHANGED <<uiVars, flags, actorVars, clip, reply, ghosts>>

(* Mutant: one release too many.                                           *)
ReleaseBeyond(r) ==
  /\ chord[r].pc = "release"
  /\ \E result \in {chord[r].result, "Failed"} :
       chord' = [chord EXCEPT ![r].held = @ - 1, ![r].result = result,
         ![r].pc = IF chord[r].held = 0 THEN "done" ELSE "release"]
  /\ UNCHANGED <<uiVars, flags, actorVars, clip, reply, ghosts>>

(* Every attempted key is released, the last one first, whatever fails.    *)
Release(r) ==
  /\ chord[r].pc = "release"
  /\ \E result \in {chord[r].result, "Failed"} :
       chord' = [chord EXCEPT ![r].held = @ - 1, ![r].result = result,
         ![r].pc = IF chord[r].held = 1 THEN "done" ELSE "release"]
  /\ UNCHANGED <<uiVars, flags, actorVars, clip, reply, ghosts>>

ChordOutcome(result) ==
  CASE result = "Sent" -> "ShortcutSent"
    [] result = "Cancelled" -> "Cancelled"
    [] OTHER -> "ClipboardOnly"

(* Only that there was a chord is remembered.                              *)
Forget_chord(r) == chord' = [chord EXCEPT ![r] = [NoChord EXCEPT !.pc = "done"]]

Chord_done ==
  /\ actor.pc = "chord"
  /\ LET r == actor.cmd.r IN
     /\ chord[r].pc = "done"
     /\ IF actor.cmd.kind = "inject" THEN Reply(r, ChordOutcome(chord[r].result))
        ELSE IF chord[r].result = "Sent" THEN Goto("serve") /\ UNCHANGED reply
        ELSE Reply(r, "ClipboardOnly")
     /\ Forget_chord(r)
  /\ UNCHANGED <<uiVars, sending, ghosts, flags, queue, live, token, current, clip>>

(* The immediate reads are served, then the delivery returns.              *)
Serve_until_quiet ==
  /\ actor.pc = "serve" /\ Reply(actor.cmd.r, "ShortcutSent")
  /\ Keep /\ UNCHANGED <<flags, queue, live, token, current, clip>>

Ydotool_done(r) ==
  /\ reply[r] = "ydotool" /\ chord[r].pc = "done"
  /\ reply' = IF ui[r] = "done" THEN [reply EXCEPT ![r] = None]
               ELSE [reply EXCEPT ![r] = ChordOutcome(chord[r].result)]
  /\ Forget_chord(r)
  /\ UNCHANGED <<uiVars, flags, actorVars, clip, ghosts>>

(* A copy the portal refused is tried on the window's own clipboard.       *)
Copy_answered ==
  /\ reply[Foreign] # None
  /\ reply' = [reply EXCEPT ![Foreign] = None]
  /\ clip' = IF reply[Foreign] = "Unavailable" /\ focus = "window" THEN Foreign ELSE clip
  /\ UNCHANGED <<uiVars, flags, actorVars, chord, ghosts>>

-----------------------------------------------------------------------------
User ==
  \/ \E r \in Requests : Spawn(r)
  \/ \E where \in {"panel", "window", "app"} : Focus(where)
  \/ \E who \in {"mini", "main"} : Start(who)
  \/ Stop \/ Retry \/ Close_mini_panel \/ Revoke_restore_token
  \/ \E kind \in {"copy", "grant"} : Other(kind)

Actor ==
  \/ Take \/ Ensure_live \/ Session_timeout \/ Selected \/ Selection_failed
  \/ Selection_timeout \/ Inject \/ Chord_done \/ Serve_until_quiet

Desktop == StreamEnds \/ Open_session \/ Subscribe

Keys(r) == Press(r) \/ Check(r) \/ Release(r) \/ Ydotool(r) \/ Ydotool_done(r)

Next ==
  \/ User \/ Actor \/ Desktop \/ Copy_answered
  \/ \E c \in sending : Send(c)
  \/ \E r \in Requests : Coroutine(r) \/ Keys(r) \/ Expire(r)

Spec == Init /\ [][Next]_vars

(* The coroutine waits for bounded timers and for the deadline, so it runs *)
(* whatever the actor does: the portal may keep the actor waiting forever. *)
FairSpec ==
  /\ Spec
  /\ \A r \in Requests : WF_vars(Coroutine(r)) /\ WF_vars(Expire(r))

-----------------------------------------------------------------------------
(* The types of a delivery: where its coroutine and the portal actor       *)
(* stand, and what is on the clipboard.                                    *)
TypeOK ==
  /\ ui \in [Requests -> {"idle", "begin", "hiding", "awaiting", "presenting",
                          "rehiding", "typing", "done"}]
  /\ copied \in [Requests -> BOOLEAN]
  /\ pending \in Requests \cup {None}
  /\ flags \in [Requests -> Flags]
  /\ stale \subseteq Requests
  /\ recording \in {"none", "mini", "main"}
  /\ panel \in {"shown", "hidden"} /\ focus \in {"panel", "window", "app"}
  /\ sending \subseteq Command /\ queue \in Seq(Command)
  /\ actor \in [pc: {"idle", "session", "opening", "subscribing", "select",
                     "inject", "chord", "serve"}, cmd: Command, tries: 0..2]
  /\ live \in {"none", "noclip", "clip"} /\ token \in BOOLEAN
  /\ current \in Requests \cup {Foreign, None}
  /\ clip \in Requests \cup {Foreign, None, Portal}
  /\ chord \in [Requests -> Chord]
  /\ reply \in [Requests \cup {Foreign} -> Outcome \cup {"ydotool", None}]
  /\ late \subseteq Requests /\ acts \in Nat

(* The step that sends V, whether or not its acknowledgement fails.        *)
SendsV(r) ==
  chord[r].pc = "press" /\ chord[r].key = ChordLen /\ chord'[r].pc = "release"

(* A V sent by a portal delivery that still stands pastes that delivery's  *)
(* text: nothing comes between owning the selection and the chord.         *)
PortalPastesOwnText ==
  [][\A r \in Requests :
       SendsV(r) /\ chord[r].by = "deliver" /\ is_current(r) => ClipText = r]_vars

(* A paste never goes to a window of this program, except for the one key  *)
(* that was on its way when the focus came back.                           *)
PasteLeavesTheProgram ==
  [][\A r \in Requests : SendsV(r) /\ is_current(r) => focus = "app"]_vars

(* After the user cancelled, another delivery started or the deadline      *)
(* passed, at most the key that was already being sent goes down.          *)
CancelStopsTyping ==
  [][\A r \in late : chord[r].held >= chord'[r].held]_vars

(* A chord ends only when every key it tried to press was released.        *)
NoKeyAbandoned == \A r \in Requests : chord[r].pc = "done" => chord[r].held = 0

(* A delivery never hides the panel of a recording that has begun since:   *)
(* the microphone would run without any control on screen.                 *)
NoHiddenMicrophone == recording = "mini" => panel = "shown"

(* A delivery that hid the panel brings it back, unless a recording, Retry *)
(* or another delivery took over: even when the actor waits forever for a  *)
(* consent dialog.                                                         *)
PanelComesBack ==
  \A r \in Requests :
    (Owns(r) /\ panel = "hidden") ~> (panel = "shown" \/ ~Owns(r))

(* However a delivery ends, no key stays down and no recording runs        *)
(* behind a hidden panel.                                                  *)
DeliverySafety ==
  TypeOK /\ NoKeyAbandoned /\ NoHiddenMicrophone

(* A paste that still stands is of its own text and goes to another        *)
(* program, and one that does not stand presses at most the key under      *)
(* way.                                                                    *)
ChordSafety ==
  PortalPastesOwnText /\ PasteLeavesTheProgram /\ CancelStopsTyping
=============================================================================
