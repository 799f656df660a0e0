------------------------- MODULE PasteDelivery_proofs --------------------------
(* Paste delivery, for any number of requests and of things the user does, *)
(* and any capacity of the actor's channel.  And what the panel does with  *)
(* a transcript, for any number of acts of the user.                       *)
EXTENDS PasteDelivery, PanelFlows, SequenceTheorems, TLAPS

(* A chord goes through its keys in order, and releases what it holds.     *)
KeysInOrder ==
  \A r \in Requests : /\ chord[r].pc = "check" => chord[r].key < ChordLen /\ chord[r].held > 0
                      /\ chord[r].pc = "release" => chord[r].held > 0

(* A request that pressed a key too late has ended, and presses no other.  *)
LateIsOver == \A r \in late : ~is_current(r) /\ chord[r].pc # "press"

InSending(r) == \E c \in sending : c.r = r
InQueue(r) == \E i \in DOMAIN queue : queue[i].r = r

(* Something still carries out the request.                                *)
Held(r) == InSending(r) \/ InQueue(r) \/ actor.cmd.r = r \/ reply[r] = "ydotool"

(* A request is in one place at a time.                                    *)
OneCommand ==
  \A r \in Requests :
    /\ \A c, d \in sending : c.r = r /\ d.r = r => c = d
    /\ \A i, k \in DOMAIN queue : queue[i].r = r /\ queue[k].r = r => i = k
    /\ InSending(r) => ~InQueue(r) /\ actor.cmd.r # r /\ reply[r] # "ydotool"
    /\ InQueue(r) => actor.cmd.r # r /\ reply[r] # "ydotool"
    /\ actor.cmd.r = r => reply[r] # "ydotool"

(* A request that stands and is being carried out is waited for, and not   *)
(* answered yet.                                                           *)
Standing ==
  \A r \in Requests :
    is_current(r) /\ Held(r) => ui[r] \in {"awaiting", "typing"} /\ reply[r] \notin Outcome

(* The window of a request that is waited for watches the focus.           *)
Watched ==
  \A r \in Requests : is_current(r) /\ ui[r] \in {"awaiting", "typing"} => focus = "app"

(* Whoever carries a request out sends its keys.                           *)
Holder ==
  \A r \in Requests : chord[r].pc \in {"press", "check", "release"} =>
    IF chord[r].by = "ydotool" THEN reply[r] = "ydotool" ELSE actor.pc = "chord" /\ actor.cmd.r = r

(* The selection stays its owner's until the keys are sent.                *)
OwnText ==
  \A r \in Requests :
    is_current(r) /\ chord[r].pc \in {"press", "check"} /\ chord[r].by = "deliver" =>
      clip = Portal /\ current = r

Carried ==
  /\ KeysInOrder /\ LateIsOver
  /\ OneCommand /\ Standing /\ Watched /\ Holder /\ OwnText

PasteInv == DeliverySafety /\ Carried

(***************************************************************************)
(* Types.                                                                  *)
(***************************************************************************)
Stage == {"idle", "begin", "hiding", "awaiting", "presenting", "rehiding", "typing", "done"}
ActorState ==
  [pc: {"idle", "session", "opening", "subscribing", "select", "inject", "chord", "serve"},
   cmd: Command, tries: 0..2]
Replies == [Requests \cup {Foreign} -> Outcome \cup {"ydotool", None}]

LEMMA Records ==
  /\ NoChord \in Chord /\ Idle \in ActorState
  /\ \A kind \in {"deliver", "inject", "copy", "grant", "close"}, r \in Requests \cup {Foreign, None} :
       [kind |-> kind, r |-> r] \in Command
  /\ \A f \in Flags : /\ [f EXCEPT !.cancelled = TRUE] \in Flags /\ [f EXCEPT !.expired = TRUE] \in Flags
                      /\ [f EXCEPT !.started = TRUE] \in Flags
<1>1. NoChord \in Chord
  BY PasteAssumption DEF NoChord, Chord
<1>2. Idle \in ActorState
  BY DEF Idle, ActorState, Command
<1>3. \A kind \in {"deliver", "inject", "copy", "grant", "close"}, r \in Requests \cup {Foreign, None} :
       [kind |-> kind, r |-> r] \in Command
  BY DEF Command
<1>4. \A f \in Flags : /\ [f EXCEPT !.cancelled = TRUE] \in Flags /\ [f EXCEPT !.expired = TRUE] \in Flags
                       /\ [f EXCEPT !.started = TRUE] \in Flags
  BY DEF Flags
<1> QED BY <1>1, <1>2, <1>3, <1>4

(* Cancelling one request, or the pending one.                             *)
LEMMA CancelTyped ==
  ASSUME TypeOK, NEW r
  PROVE  Cancelled(flags, r) \in [Requests -> Flags] /\ Cancel_pending_paste(flags) \in [Requests -> Flags]
<1>1. \A q : [flags EXCEPT ![q].cancelled = TRUE] \in [Requests -> Flags]
  BY DEF TypeOK, Flags
<1> QED BY <1>1 DEF Cancelled, Cancel_pending_paste, TypeOK

(* What the actor answers, or hands to ydotool.                            *)
LEMMA ReplyTyped ==
  ASSUME TypeOK, NEW r, NEW outcome \in Outcome, Reply(r, outcome)
  PROVE  actor' \in ActorState /\ reply' \in Replies
<1>1. actor' \in ActorState
  BY Records DEF Reply
<1>2. reply' \in Replies
  BY DEF TypeOK, Reply, Answer, Replies
<1> QED BY <1>1, <1>2

LEMMA GotoTyped ==
  ASSUME TypeOK, NEW pc \in {"idle", "session", "opening", "subscribing", "select", "inject", "chord", "serve"},
         Goto(pc)
  PROVE  actor' \in ActorState
  BY DEF TypeOK, Goto, ActorState

LEMMA BeginTyped ==
  ASSUME TypeOK, NEW r, NEW by \in {"deliver", "inject", "ydotool"}, Begin_injection(r, by)
  PROVE  flags' \in [Requests -> Flags] /\ chord' \in [Requests -> Chord]
<1>1. flags' \in [Requests -> Flags]
  BY DEF TypeOK, Flags, Begin_injection
<1>2. [NoChord EXCEPT !.pc = "press", !.by = by] \in Chord
  <2>1. \A c \in Chord : [c EXCEPT !.pc = "press", !.by = by] \in Chord
    BY DEF Chord
  <2> QED BY <2>1, Records
<1>3. chord' \in [Requests -> Chord]
  BY <1>2 DEF TypeOK, Begin_injection
<1> QED BY <1>1, <1>3

LEMMA ForgetTyped ==
  ASSUME TypeOK, NEW r, Forget_chord(r)
  PROVE  chord' \in [Requests -> Chord]
<1>1. [NoChord EXCEPT !.pc = "done"] \in Chord
  BY PasteAssumption DEF NoChord, Chord
<1> QED BY <1>1 DEF TypeOK, Forget_chord

LEMMA ChordOutcomeTyped == \A end : ChordOutcome(end) \in Outcome
  BY DEF ChordOutcome, Outcome

(* The window's part of the types, and the actor's.                        *)
GuiTyped ==
  /\ ui \in [Requests -> Stage] /\ copied \in [Requests -> BOOLEAN]
  /\ pending \in Requests \cup {None}
  /\ flags \in [Requests -> Flags] /\ stale \subseteq Requests
  /\ recording \in {"none", "mini", "main"}
  /\ panel \in {"shown", "hidden"} /\ focus \in {"panel", "window", "app"}
  /\ late \subseteq Requests /\ acts \in Nat

ActorTyped ==
  /\ sending \subseteq Command /\ queue \in Seq(Command)
  /\ actor \in ActorState
  /\ live \in {"none", "noclip", "clip"} /\ token \in BOOLEAN
  /\ current \in Requests \cup {Foreign, None}
  /\ clip \in Requests \cup {Foreign, None, Portal}
  /\ chord \in [Requests -> Chord]
  /\ reply \in Replies

LEMMA TypesAgree == TypeOK <=> GuiTyped /\ ActorTyped
  BY DEF TypeOK, GuiTyped, ActorTyped, Stage, ActorState, Replies

(* The coroutine's steps.                                                  *)
LEMMA CoroutineTyped ==
  ASSUME TypeOK, NEW r \in Requests, Coroutine(r)
  PROVE  TypeOK'
<1>1. GuiTyped /\ ActorTyped
  BY TypesAgree
<1>2. UNCHANGED <<stale, recording, focus, queue, actor, live, token, current, chord, ghosts>>
  BY DEF Coroutine
<1>3. reply' \in Replies
  BY <1>1 DEF Coroutine, ActorTyped, Replies
<1>4. ASSUME NEW u \in Stage, ui' = [ui EXCEPT ![r] = u], copied' \in [Requests -> BOOLEAN],
             pending' \in {pending, None}, flags' \in [Requests -> Flags], panel' \in {"shown", "hidden"},
             sending' \subseteq Command, clip' \in Requests \cup {Foreign, None, Portal}
      PROVE  TypeOK'
  <2>1. ui' \in [Requests -> Stage]
    BY <1>1, <1>4 DEF GuiTyped
  <2>2. GuiTyped' /\ ActorTyped'
    BY <1>1, <1>2, <1>3, <1>4, <2>1 DEF GuiTyped, ActorTyped, ghosts
  <2>3. (TypeOK <=> GuiTyped /\ ActorTyped)'
    BY TypesAgree, PTL
  <2> QED BY <2>2, <2>3
<1>5. /\ \A b \in BOOLEAN : [copied EXCEPT ![r] = b] \in [Requests -> BOOLEAN]
      /\ Cancelled(flags, r) \in [Requests -> Flags] /\ flags \in [Requests -> Flags]
      /\ copied[r] \in BOOLEAN /\ (copied[r] \/ focus = "panel") \in BOOLEAN
      /\ panel \in {"shown", "hidden"} /\ sending \subseteq Command
      /\ clip \in Requests \cup {Foreign, None, Portal}
      /\ copied \in [Requests -> BOOLEAN]
  BY <1>1, CancelTyped DEF GuiTyped, ActorTyped
<1>6. ASSUME Return(r) PROVE TypeOK'
  BY <1>4, <1>5, <1>6 DEF Return, Stage
<1>7. ASSUME Finish(r), flags' = Cancelled(flags, r) PROVE TypeOK'
  BY <1>4, <1>5, <1>7 DEF Finish, Stage
<1>8. ASSUME NEW kind \in {"deliver", "inject"}, NEW has \in BOOLEAN, Dispatch(r, kind, has) PROVE TypeOK'
  <2>1. [kind |-> kind, r |-> r] \in Command
    BY Records
  <2> QED BY <1>4, <1>5, <1>8, <2>1 DEF Dispatch, Stage
<1>9. ASSUME NEW u \in {"hiding", "rehiding"}, Copy_if_active(r), panel' = "hidden",
             ui' = [ui EXCEPT ![r] = u], UNCHANGED <<pending, flags, sending>>
      PROVE  TypeOK'
  <2>1. clip' \in Requests \cup {Foreign, None, Portal} /\ copied' \in [Requests -> BOOLEAN]
    BY <1>5, <1>9 DEF Copy_if_active
  <2> QED BY <1>4, <1>5, <1>9, <2>1 DEF Stage
<1>10. ASSUME Fallback(r) PROVE TypeOK'
  BY <1>7, <1>8, <1>10 DEF Fallback
<1>11. CASE Begin(r)
  BY <1>6, <1>9, <1>11 DEF Begin
<1>12. CASE Hidden(r)
  BY <1>5, <1>6, <1>7, <1>8, <1>12 DEF Hidden
<1>13. CASE Delivered(r)
  <2>1. CASE panel' = "shown" /\ ui' = [ui EXCEPT ![r] = "presenting"]
             /\ UNCHANGED <<copied, pending, flags, sending, clip>>
    BY <1>4, <1>5, <2>1 DEF Stage
  <2> QED BY <1>6, <1>7, <1>10, <1>13, <2>1 DEF Delivered
<1>14. CASE Presented(r)
  BY <1>6, <1>9, <1>14 DEF Presented
<1>15. CASE Rehidden(r)
  BY <1>6, <1>10, <1>15 DEF Rehidden
<1>16. CASE Typed(r)
  BY <1>6, <1>7, <1>16 DEF Typed
<1> QED BY <1>11, <1>12, <1>13, <1>14, <1>15, <1>16 DEF Coroutine

(* What the user and the desktop do.                                       *)
LEMMA UserTyped == TypeOK /\ User => TypeOK'
<1> SUFFICES ASSUME TypeOK, User PROVE TypeOK'
  OBVIOUS
<1>1. GuiTyped /\ ActorTyped
  BY TypesAgree
<1>2. ASSUME GuiTyped', ActorTyped' PROVE TypeOK'
  <2>1. (TypeOK <=> GuiTyped /\ ActorTyped)'
    BY TypesAgree, PTL
  <2> QED BY <1>2, <2>1
<1>3. \A r : Cancelled(flags, r) \in [Requests -> Flags] /\ Cancel_pending_paste(flags) \in [Requests -> Flags]
  BY CancelTyped
<1>4. Used \subseteq Requests
  BY DEF Used
<1>5. ASSUME NEW r \in Requests, Spawn(r) PROVE TypeOK'
  <2>1. ui' \in [Requests -> Stage]
    BY <1>1, <1>5 DEF GuiTyped, Spawn, Stage
  <2>2. GuiTyped' /\ ActorTyped'
    BY <1>1, <1>3, <1>5, <2>1 DEF GuiTyped, ActorTyped, Spawn, actorVars
  <2> QED BY <1>2, <2>2
<1>6. ASSUME NEW where \in {"panel", "window", "app"}, Focus(where) PROVE TypeOK'
  <2>1. flags' \in [Requests -> Flags]
    BY <1>1, <1>6 DEF GuiTyped, Focus, Flags
  <2>2. GuiTyped' /\ ActorTyped'
    BY <1>1, <1>6, <2>1 DEF GuiTyped, ActorTyped, Focus, actorVars, ghosts
  <2> QED BY <1>2, <2>2
<1>7. ASSUME NEW who \in {"mini", "main"}, Start(who) PROVE TypeOK'
  <2>1. GuiTyped' /\ ActorTyped'
    BY <1>1, <1>3, <1>4, <1>7 DEF GuiTyped, ActorTyped, Start, actorVars
  <2> QED BY <1>2, <2>1
<1>8. CASE Stop \/ Retry \/ Close_mini_panel
  <2>1. CASE Stop
    <3>1. GuiTyped' /\ ActorTyped'
      BY <1>1, <2>1 DEF GuiTyped, ActorTyped, Stop, actorVars, ghosts
    <3> QED BY <1>2, <3>1
  <2>2. CASE Retry
    <3>1. GuiTyped' /\ ActorTyped'
      BY <1>1, <1>4, <2>2 DEF GuiTyped, ActorTyped, Retry, actorVars
    <3> QED BY <1>2, <3>1
  <2>3. CASE Close_mini_panel
    <3>1. GuiTyped'
      BY <1>1, <1>3, <1>4, <2>3 DEF GuiTyped, Close_mini_panel
    <3>2. ActorTyped'
      BY <1>1, <2>3 DEF ActorTyped, Close_mini_panel, actorVars
    <3> QED BY <1>2, <3>1, <3>2
  <2> QED BY <1>8, <2>1, <2>2, <2>3
<1>9. CASE Revoke_restore_token
  <2>1. [kind |-> "close", r |-> None] \in Command
    BY Records
  <2>2. queue' \in Seq(Command)
    BY <1>1, <1>9, <2>1 DEF ActorTyped, Revoke_restore_token
  <2>3. GuiTyped'
    BY <1>1, <1>9 DEF GuiTyped, Revoke_restore_token, uiVars
  <2>4. ActorTyped'
    <3> HIDE DEF Replies, ActorState
    <3> QED BY <1>1, <1>9, <2>2 DEF ActorTyped, Revoke_restore_token
  <2> QED BY <1>2, <2>3, <2>4
<1>10. ASSUME NEW kind \in {"copy", "grant"}, Other(kind) PROVE TypeOK'
  <2>1. [kind |-> kind, r |-> IF kind = "copy" THEN Foreign ELSE None] \in Command
    BY Records
  <2>2. GuiTyped' /\ ActorTyped'
    BY <1>1, <1>10, <2>1 DEF GuiTyped, ActorTyped, Other, uiVars
  <2> QED BY <1>2, <2>2
<1> QED BY <1>5, <1>6, <1>7, <1>8, <1>9, <1>10 DEF User

(* What the actor and the portal do.                                       *)
LEMMA ActorTypes ==
  ASSUME TypeOK, Actor \/ Desktop
  PROVE  TypeOK'
<1>1. GuiTyped /\ ActorTyped
  BY TypesAgree
<1>2. ASSUME GuiTyped', ActorTyped' PROVE TypeOK'
  <2>1. (TypeOK <=> GuiTyped /\ ActorTyped)'
    BY TypesAgree, PTL
  <2> QED BY <1>2, <2>1
<1>3. ASSUME NEW outcome \in Outcome, NEW r, Reply(r, outcome)
      PROVE  actor' \in ActorState /\ reply' \in Replies
  BY <1>3, ReplyTyped
<1>4. ASSUME NEW outcome \in Outcome, NEW r, Settle(r, outcome)
      PROVE  actor' \in ActorState /\ reply' \in Replies
  BY <1>3, <1>4 DEF Settle, Outcome
<1>5. ASSUME NEW pc \in {"idle", "session", "opening", "subscribing", "select", "inject", "chord", "serve"},
             Goto(pc), UNCHANGED reply
      PROVE  actor' \in ActorState /\ reply' \in Replies
  BY <1>1, <1>5, GotoTyped DEF ActorTyped
<1>6. ASSUME AfterSession PROVE actor' \in ActorState /\ reply' \in Replies
  BY <1>3, <1>5, <1>6 DEF AfterSession, Ready, Outcome
<1>7. ASSUME Close_live PROVE live' \in {"none", "noclip", "clip"} /\ clip' \in Requests \cup {Foreign, None, Portal}
  BY <1>1, <1>7 DEF Close_live, ActorTyped
<1>8. ASSUME UNCHANGED <<uiVars, late, acts>>, flags' \in [Requests -> Flags] PROVE GuiTyped'
  BY <1>1, <1>8 DEF GuiTyped, uiVars
<1>9. flags \in [Requests -> Flags] /\ chord \in [Requests -> Chord] /\ \A r : Cancelled(flags, r) \in [Requests -> Flags]
  BY <1>1, CancelTyped DEF GuiTyped, ActorTyped
<1>10. CASE Take
  <2>1. queue \in Seq(Command) /\ queue # <<>> /\ Head(queue) \in Command
    BY <1>1, <1>10 DEF ActorTyped, Take
  <2>2. queue' \in Seq(Command)
    BY <2>1, <1>10 DEF Take
  <2>3. actor' \in ActorState
    BY <1>1, <2>1, <1>10 DEF ActorTyped, ActorState, Take
  <2>4. current' \in Requests \cup {Foreign, None}
    BY <1>1, <2>1, <1>10 DEF ActorTyped, Take, Command
  <2>5. live' \in {"none", "noclip", "clip"} /\ clip' \in Requests \cup {Foreign, None, Portal}
    BY <1>1, <1>7, <1>10 DEF Take, ActorTyped
  <2>6. ActorTyped'
    BY <1>1, <1>10, <2>2, <2>3, <2>4, <2>5 DEF ActorTyped, Take, Keep
  <2>7. GuiTyped'
    BY <1>8, <1>9, <1>10 DEF Take, Keep, ghosts
  <2> QED BY <1>2, <2>6, <2>7
<1>11. CASE Ensure_live
  <2>1. actor' \in ActorState /\ reply' \in Replies /\ live' = live
    BY <1>3, <1>5, <1>6, <1>11 DEF Ensure_live, Outcome
  <2>2. ActorTyped'
    BY <1>1, <1>11, <2>1 DEF ActorTyped, Ensure_live, Keep
  <2>3. GuiTyped'
    BY <1>8, <1>9, <1>11 DEF Ensure_live, Keep, ghosts
  <2> QED BY <1>2, <2>2, <2>3
<1>12. CASE Session_timeout
  <2>1. actor' \in ActorState /\ reply' \in Replies
    BY <1>3, <1>12 DEF Session_timeout, Outcome
  <2>2. ActorTyped'
    BY <1>1, <1>12, <2>1 DEF ActorTyped, Session_timeout, Keep
  <2>3. GuiTyped'
    BY <1>8, <1>9, <1>12 DEF Session_timeout, Keep, ghosts
  <2> QED BY <1>2, <2>2, <2>3
<1>13. CASE Selected
  <2>1. /\ actor' \in ActorState /\ reply' \in Replies
        /\ flags' \in [Requests -> Flags] /\ chord' \in [Requests -> Chord]
    BY <1>3, <1>5, <1>9, <1>13, BeginTyped DEF Selected, Outcome, Refused
  <2>2. current' \in Requests \cup {Foreign, None} /\ clip' \in Requests \cup {Foreign, None, Portal}
    BY <1>1, <1>13 DEF ActorTyped, ActorState, Command, Selected
  <2>3. ActorTyped'
    BY <1>1, <1>13, <2>1, <2>2 DEF ActorTyped, Selected
  <2>4. GuiTyped'
    BY <1>8, <1>13, <2>1 DEF Selected, ghosts
  <2> QED BY <1>2, <2>3, <2>4
<1>14. CASE Selection_failed
  <2>1. actor' \in ActorState /\ reply' \in Replies
    <3>1. CASE actor.tries > 1
      <4>1. reply' = reply /\ actor' = [actor EXCEPT !.pc = "session", !.tries = @ - 1]
        BY <1>14, <3>1 DEF Selection_failed
      <4>2. actor.tries - 1 \in 0..2
        BY <1>1, <3>1 DEF ActorTyped, ActorState
      <4>3. actor' \in ActorState
        BY <1>1, <4>1, <4>2 DEF ActorTyped, ActorState
      <4> QED BY <1>1, <4>1, <4>3 DEF ActorTyped
    <3>2. CASE ~(actor.tries > 1)
      BY <1>4, <1>14, <3>2 DEF Selection_failed, Outcome
    <3> QED BY <3>1, <3>2
  <2>2. ActorTyped'
    BY <1>1, <1>7, <1>14, <2>1 DEF ActorTyped, Selection_failed, Keep
  <2>3. GuiTyped'
    BY <1>8, <1>9, <1>14 DEF Selection_failed, Keep, ghosts
  <2> QED BY <1>2, <2>2, <2>3
<1>15. CASE Selection_timeout
  <2>1. actor' \in ActorState /\ reply' \in Replies
    BY <1>3, <1>15 DEF Selection_timeout, Outcome
  <2>2. ActorTyped'
    BY <1>1, <1>15, <2>1 DEF ActorTyped, Selection_timeout, Keep
  <2>3. GuiTyped'
    BY <1>8, <1>9, <1>15 DEF Selection_timeout, Keep, ghosts
  <2> QED BY <1>2, <2>2, <2>3
<1>16. CASE Inject
  <2>1. /\ actor' \in ActorState /\ reply' \in Replies
        /\ flags' \in [Requests -> Flags] /\ chord' \in [Requests -> Chord]
    BY <1>3, <1>5, <1>9, <1>16, BeginTyped DEF Inject, Outcome, Refused
  <2>2. ActorTyped'
    BY <1>1, <1>16, <2>1 DEF ActorTyped, Inject
  <2>3. GuiTyped'
    BY <1>8, <1>16, <2>1 DEF Inject, ghosts
  <2> QED BY <1>2, <2>2, <2>3
<1>17. CASE Chord_done
  <2>1. actor' \in ActorState /\ reply' \in Replies
    BY <1>3, <1>5, <1>17, ChordOutcomeTyped DEF Chord_done, Outcome
  <2>2. chord' \in [Requests -> Chord]
    BY <1>17, ForgetTyped DEF Chord_done
  <2>3. ActorTyped'
    BY <1>1, <1>17, <2>1, <2>2 DEF ActorTyped, Chord_done
  <2>4. GuiTyped'
    BY <1>8, <1>9, <1>17 DEF Chord_done, ghosts
  <2> QED BY <1>2, <2>3, <2>4
<1>18. CASE Serve_until_quiet
  <2>1. actor' \in ActorState /\ reply' \in Replies
    BY <1>3, <1>18 DEF Serve_until_quiet, Outcome
  <2>2. ActorTyped'
    BY <1>1, <1>18, <2>1 DEF ActorTyped, Serve_until_quiet, Keep
  <2>3. GuiTyped'
    BY <1>8, <1>9, <1>18 DEF Serve_until_quiet, Keep, ghosts
  <2> QED BY <1>2, <2>2, <2>3
<1>19. CASE StreamEnds
  <2>1. ActorTyped'
    BY <1>1, <1>7, <1>19 DEF ActorTyped, StreamEnds, Keep
  <2>2. GuiTyped'
    BY <1>8, <1>9, <1>19 DEF StreamEnds, Keep, ghosts
  <2> QED BY <1>2, <2>1, <2>2
<1>20. CASE Open_session
  <2>1. actor' \in ActorState /\ reply' \in Replies /\ token' \in BOOLEAN
    BY <1>1, <1>4, <1>5, <1>20 DEF Open_session, Outcome, ActorTyped
  <2>2. ActorTyped'
    BY <1>1, <1>20, <2>1 DEF ActorTyped, Open_session
  <2>3. GuiTyped'
    BY <1>8, <1>9, <1>20 DEF Open_session
  <2> QED BY <1>2, <2>2, <2>3
<1>21. CASE Subscribe
  <2>1. actor' \in ActorState /\ reply' \in Replies /\ live' \in {"none", "noclip", "clip"}
    BY <1>1, <1>4, <1>6, <1>21 DEF Subscribe, Outcome, ActorTyped
  <2>2. ActorTyped'
    BY <1>1, <1>21, <2>1 DEF ActorTyped, Subscribe, Keep
  <2>3. GuiTyped'
    BY <1>8, <1>9, <1>21 DEF Subscribe, Keep, ghosts
  <2> QED BY <1>2, <2>2, <2>3
<1> QED BY <1>10, <1>11, <1>12, <1>13, <1>14, <1>15, <1>16, <1>17, <1>18, <1>19, <1>20, <1>21
        DEF Actor, Desktop

(* The keys of a chord, and what is left.                                  *)
LEMMA KeysTyped ==
  ASSUME TypeOK, KeysInOrder, NEW r \in Requests, Keys(r)
  PROVE  TypeOK'
<1>1. GuiTyped /\ ActorTyped
  BY TypesAgree
<1>2. ASSUME GuiTyped', ActorTyped' PROVE TypeOK'
  <2>1. (TypeOK <=> GuiTyped /\ ActorTyped)'
    BY TypesAgree, PTL
  <2> QED BY <1>2, <2>1
<1>3. chord[r] \in Chord
  BY <1>1 DEF ActorTyped
<1>4. ASSUME chord' \in [Requests -> Chord], late' \subseteq Requests, flags' \in [Requests -> Flags],
             reply' \in Replies, UNCHANGED <<uiVars, actorVars, clip, acts>>
      PROVE  TypeOK'
  <2>1. GuiTyped' /\ ActorTyped'
    BY <1>1, <1>4 DEF GuiTyped, ActorTyped, uiVars, actorVars
  <2> QED BY <1>2, <2>1
<1>5. late \subseteq Requests /\ reply \in Replies /\ flags \in [Requests -> Flags] /\ chord \in [Requests -> Chord]
  BY <1>1 DEF GuiTyped, ActorTyped
<1>6. CASE Press(r)
  <2> DEFINE k == chord[r].key
  <2>1. k \in 1..ChordLen /\ k \in 0..ChordLen
    BY <1>3, PasteAssumption DEF Chord
  <2>2. chord' \in [Requests -> Chord]
    <3>1. CASE chord' = [chord EXCEPT ![r].held = k,
                           ![r].pc = IF k = ChordLen THEN "release" ELSE "check"]
      BY <1>3, <1>5, <2>1, <3>1 DEF Chord
    <3>2. CASE chord' = [chord EXCEPT ![r].held = k, ![r].pc = "release", ![r].result = "Failed"]
      BY <1>3, <1>5, <2>1, <3>2 DEF Chord
    <3> QED BY <1>6, <3>1, <3>2 DEF Press
  <2> QED BY <1>4, <1>5, <1>6, <2>2 DEF Press
<1>7. CASE Check(r)
  <2>1. chord[r].key + 1 \in 1..ChordLen
    BY <1>3, <1>7, PasteAssumption DEF KeysInOrder, Chord, Check
  <2>2. chord' \in [Requests -> Chord]
    BY <1>3, <1>5, <1>7, <2>1 DEF Chord, Check
  <2> QED BY <1>4, <1>5, <1>7, <2>2 DEF Check, ghosts
<1>8. CASE Release(r)
  <2>1. chord[r].held - 1 \in 0..ChordLen
    BY <1>3, <1>8, PasteAssumption DEF KeysInOrder, Chord, Release
  <2>2. PICK end \in {chord[r].result, "Failed"} :
          chord' = [chord EXCEPT ![r].held = @ - 1, ![r].result = end,
                      ![r].pc = IF chord[r].held = 1 THEN "done" ELSE "release"]
    BY <1>8 DEF Release
  <2>3. chord' \in [Requests -> Chord]
    BY <1>3, <1>5, <2>1, <2>2 DEF Chord
  <2> QED BY <1>4, <1>5, <1>8, <2>3 DEF Release, ghosts
<1>9. CASE Ydotool(r)
  <2>1. flags' \in [Requests -> Flags] /\ chord' \in [Requests -> Chord]
    BY <1>5, <1>9, BeginTyped DEF Ydotool, Refused
  <2>2. reply' \in Replies
    BY <1>5, <1>9 DEF Ydotool, Replies, Outcome
  <2> QED BY <1>4, <1>5, <1>9, <2>1, <2>2 DEF Ydotool, ghosts
<1>10. CASE Ydotool_done(r)
  <2>1. chord' \in [Requests -> Chord]
    BY <1>10, ForgetTyped DEF Ydotool_done
  <2>2. reply' \in Replies
    BY <1>5, <1>10, ChordOutcomeTyped DEF Ydotool_done, Replies
  <2> QED BY <1>4, <1>5, <1>10, <2>1, <2>2 DEF Ydotool_done, ghosts
<1> QED BY <1>6, <1>7, <1>8, <1>9, <1>10 DEF Keys

LEMMA RestTyped ==
  ASSUME TypeOK,
         \/ Copy_answered \/ UNCHANGED vars
         \/ \E c \in sending : Send(c)
         \/ \E r \in Requests : Expire(r)
  PROVE  TypeOK'
<1>1. GuiTyped /\ ActorTyped
  BY TypesAgree
<1>2. ASSUME GuiTyped', ActorTyped' PROVE TypeOK'
  <2>1. (TypeOK <=> GuiTyped /\ ActorTyped)'
    BY TypesAgree, PTL
  <2> QED BY <1>2, <2>1
<1>3. CASE Copy_answered
  <2>1. GuiTyped' /\ ActorTyped'
    BY <1>1, <1>3 DEF GuiTyped, ActorTyped, Copy_answered, uiVars, actorVars, ghosts, Replies
  <2> QED BY <1>2, <2>1
<1>4. ASSUME NEW c \in sending, Send(c) PROVE TypeOK'
  <2>1. queue' \in Seq(Command) /\ sending' \subseteq Command
    BY <1>1, <1>4 DEF ActorTyped, Send
  <2>2. GuiTyped' /\ ActorTyped'
    BY <1>1, <1>4, <2>1 DEF GuiTyped, ActorTyped, Send, uiVars, ghosts
  <2> QED BY <1>2, <2>2
<1>5. ASSUME NEW r \in Requests, Expire(r) PROVE TypeOK'
  <2>1. flags' \in [Requests -> Flags]
    BY <1>1, <1>5 DEF GuiTyped, Expire, Flags
  <2>2. GuiTyped' /\ ActorTyped'
    BY <1>1, <1>5, <2>1 DEF GuiTyped, ActorTyped, Expire, uiVars, actorVars, ghosts
  <2> QED BY <1>2, <2>2
<1>6. CASE UNCHANGED vars
  <2>1. GuiTyped' /\ ActorTyped'
    BY <1>1, <1>6 DEF GuiTyped, ActorTyped, vars, uiVars, actorVars, ghosts
  <2> QED BY <1>2, <2>1
<1> QED BY <1>3, <1>4, <1>5, <1>6

LEMMA TypeNext == TypeOK /\ KeysInOrder /\ [Next]_vars => TypeOK'
  BY CoroutineTyped, UserTyped, ActorTypes, KeysTyped, RestTyped DEF Next

(***************************************************************************)
(* The kinds of steps, for what is carried out.                            *)
(***************************************************************************)

(* What sends the keys of a request carries it out.                        *)
LEMMA ChordIsHeld ==
  ASSUME Holder, NEW r \in Requests, chord[r].pc \in {"press", "check", "release"}
  PROVE  Held(r)
  BY DEF Holder, Held

(* Chords that stay as they are or end.                                    *)
LEMMA ChordsRest ==
  ASSUME TypeOK, KeysInOrder, LateIsOver, UNCHANGED late,
         \A q \in Requests : is_current(q)' => is_current(q),
         \A q \in Requests : chord'[q] = chord[q] \/ chord'[q].pc = "done"
  PROVE  KeysInOrder' /\ LateIsOver'
<1>1. KeysInOrder'
  BY DEF KeysInOrder
<1>2. ASSUME NEW q \in late PROVE ~is_current(q)' /\ chord'[q].pc # "press"
  <2>1. q \in Requests /\ ~is_current(q) /\ chord[q].pc # "press"
    BY DEF TypeOK, LateIsOver
  <2> QED BY <2>1
<1>3. LateIsOver'
  BY <1>2 DEF LateIsOver
<1> QED BY <1>1, <1>3

(* A step of the window, or of another part of the program, that neither   *)
(* takes nor gives a command.                                              *)
LEMMA GuiStep ==
  ASSUME TypeOK, Carried,
         UNCHANGED <<sending, queue, actor, current, chord, late>>,
         \A q \in Requests : is_current(q)' => is_current(q),
         \A q \in Requests : reply'[q] = reply[q] \/ (reply[q] # "ydotool" /\ reply'[q] = None),
         \A q \in Requests : is_current(q)' /\ Held(q) => ui'[q] = ui[q],
         Watched', clip' = clip \/ focus # "app"
  PROVE  Carried'
<1>1. KeysInOrder /\ LateIsOver /\ OneCommand /\ Standing /\ Watched /\ Holder /\ OwnText
  BY DEF Carried
<1>2. KeysInOrder' /\ LateIsOver'
  BY <1>1, ChordsRest
<1>4. \A q \in Requests : reply'[q] = "ydotool" => reply[q] = "ydotool"
  BY PasteAssumption
<1>5. \A q \in Requests : Held(q)' => Held(q)
  BY <1>4 DEF Held, InSending, InQueue
<1>6. OneCommand'
  BY <1>1, <1>4 DEF OneCommand, InSending, InQueue
<1>7. Standing'
  BY <1>1, <1>5, PasteAssumption DEF Standing, Outcome
<1>8. Holder'
  BY <1>1 DEF Holder
<1>9. OwnText'
  <2> SUFFICES ASSUME NEW q \in Requests, is_current(q)', chord[q].pc \in {"press", "check"}, chord[q].by = "deliver"
               PROVE  clip' = Portal /\ current = q
    BY DEF OwnText
  <2>1. is_current(q) /\ Held(q)
    BY <1>1, ChordIsHeld
  <2>2. focus = "app"
    BY <1>1, <2>1 DEF Standing, Watched
  <2> QED BY <1>1, <2>1, <2>2 DEF OwnText
<1> QED BY <1>2, <1>6, <1>7, <1>8, <1>9 DEF Carried

(* A step of the actor within a command.                                   *)
LEMMA GotoStep ==
  ASSUME TypeOK, Carried,
         UNCHANGED <<ui, sending, queue, focus, reply, late>>, actor'.cmd = actor.cmd,
         \A q \in Requests : is_current(q)' => is_current(q),
         \A q \in Requests : \/ chord'[q] = chord[q] /\ ~(actor.pc = "chord" /\ actor.cmd.r = q)
                             \/ chord'[q].pc = "done"
  PROVE  Carried'
<1>1. KeysInOrder /\ LateIsOver /\ OneCommand /\ Standing /\ Watched /\ Holder
  BY DEF Carried
<1>2. KeysInOrder' /\ LateIsOver'
  BY <1>1, ChordsRest
<1>3. OneCommand' /\ Watched'
  BY <1>1 DEF OneCommand, Watched, InSending, InQueue
<1>4. Standing'
  BY <1>1 DEF Standing, Held, InSending, InQueue
<1>5. \A q \in Requests : chord'[q].pc \in {"press", "check", "release"} =>
        chord'[q].by = "ydotool" /\ reply[q] = "ydotool"
  BY <1>1 DEF Holder
<1>6. Holder' /\ OwnText'
  BY <1>5 DEF Holder, OwnText
<1> QED BY <1>2, <1>3, <1>4, <1>6 DEF Carried

(* The end of a command.                                                   *)
LEMMA ReplyStep ==
  ASSUME TypeOK, Carried, NEW outcome \in Outcome, Reply(actor.cmd.r, outcome),
         UNCHANGED <<ui, sending, queue, focus, late>>,
         \A q \in Requests : is_current(q)' => is_current(q),
         \A q \in Requests : \/ chord'[q] = chord[q] /\ ~(actor.pc = "chord" /\ actor.cmd.r = q)
                             \/ chord'[q].pc = "done"
  PROVE  Carried'
<1> DEFINE r == actor.cmd.r
<1>1. KeysInOrder /\ LateIsOver /\ OneCommand /\ Standing /\ Watched /\ Holder
  BY DEF Carried
<1>2. KeysInOrder' /\ LateIsOver'
  BY <1>1, ChordsRest
<1>3. \A q \in Requests : actor'.cmd.r # q
  BY PasteAssumption DEF Reply, Idle, Requests
<1>4. \A q \in Requests : q # r => reply'[q] = reply[q]
  BY DEF Reply, Answer, TypeOK
<1>5. \A q \in Requests : q = r /\ reply'[q] = "ydotool" => is_current(q)
  BY <1>1 DEF Reply, Answer, TypeOK, OneCommand, Outcome
<1>6. OneCommand'
  BY <1>1, <1>3, <1>4 DEF OneCommand, InSending, InQueue
<1>7. Watched'
  BY <1>1 DEF Watched
<1>8. Standing'
  <2> SUFFICES ASSUME NEW q \in Requests, is_current(q)', Held(q)'
               PROVE  ui'[q] \in {"awaiting", "typing"} /\ reply'[q] \notin Outcome
    BY DEF Standing
  <2>1. CASE q # r
    <3>1. Held(q)
      BY <1>3, <1>4, <2>1 DEF Held, InSending, InQueue
    <3> QED BY <1>1, <1>4, <2>1, <3>1 DEF Standing
  <2>2. CASE q = r
    <3>1. reply'[q] = "ydotool"
      BY <1>1, <1>3, <2>2 DEF Held, InSending, InQueue, OneCommand
    <3>2. Held(q)
      BY <2>2 DEF Held
    <3> QED BY <1>1, <3>1, <3>2 DEF Standing, Outcome
  <2> QED BY <2>1, <2>2
<1>9. \A q \in Requests : chord'[q].pc \in {"press", "check", "release"} =>
        chord'[q].by = "ydotool" /\ reply'[q] = "ydotool"
  <2> SUFFICES ASSUME NEW q \in Requests, chord'[q].pc \in {"press", "check", "release"}
               PROVE  chord'[q].by = "ydotool" /\ reply'[q] = "ydotool"
    OBVIOUS
  <2>1. chord[q].by = "ydotool" /\ reply[q] = "ydotool" /\ chord'[q] = chord[q]
    BY <1>1 DEF Holder
  <2>2. q # r
    BY <1>1, <2>1 DEF OneCommand
  <2> QED BY <1>4, <2>1, <2>2
<1>10. Holder' /\ OwnText'
  BY <1>9 DEF Holder, OwnText
<1> QED BY <1>2, <1>6, <1>7, <1>8, <1>10 DEF Carried

(* The actor begins a request's chord.                                     *)
LEMMA BeginStep ==
  ASSUME TypeOK, Carried, NEW by \in {"deliver", "inject"},
         Begin_injection(actor.cmd.r, by), Goto("chord"), actor.pc # "chord",
         UNCHANGED <<ui, sending, queue, focus, reply, late>>,
         by = "deliver" => clip' = Portal /\ current' = actor.cmd.r
  PROVE  Carried'
<1> DEFINE r == actor.cmd.r
<1>1. KeysInOrder /\ LateIsOver /\ OneCommand /\ Standing /\ Watched /\ Holder
  BY DEF Carried
<1>2. is_current(r) /\ \A q \in Requests : is_current(q)' <=> is_current(q)
  BY DEF Begin_injection, is_current, TypeOK, Flags
<1>3. actor'.cmd = actor.cmd /\ actor'.pc = "chord"
  BY DEF Goto, TypeOK
<1>4. \A q \in Requests : \/ q # r /\ chord'[q] = chord[q]
                          \/ q = r /\ chord'[q].pc = "press" /\ chord'[q].by = by
  BY DEF Begin_injection, TypeOK, NoChord
<1>5. KeysInOrder'
  BY <1>1, <1>4 DEF KeysInOrder
<1>6. LateIsOver'
  BY <1>1, <1>2, <1>4 DEF LateIsOver, TypeOK
<1>7. OneCommand' /\ Watched'
  BY <1>1, <1>2, <1>3 DEF OneCommand, Watched, InSending, InQueue
<1>8. Standing'
  BY <1>1, <1>2, <1>3 DEF Standing, Held, InSending, InQueue
<1>9. \A q \in Requests : q # r /\ chord'[q].pc \in {"press", "check", "release"} =>
        chord'[q].by = "ydotool" /\ reply'[q] = "ydotool"
  BY <1>1, <1>4 DEF Holder
<1>10. Holder'
  BY <1>3, <1>4, <1>9 DEF Holder
<1>11. OwnText'
  BY <1>4, <1>9 DEF OwnText
<1> QED BY <1>5, <1>6, <1>7, <1>8, <1>10, <1>11 DEF Carried

(* The coroutine hands its request to the actor.                           *)
LEMMA DispatchStep ==
  ASSUME TypeOK, Carried, NEW r \in Requests, NEW kind \in {"deliver", "inject"}, NEW has,
         ~Held(r), is_current(r), focus = "app", Dispatch(r, kind, has),
         reply' = [reply EXCEPT ![r] = None],
         UNCHANGED <<focus, queue, actor, current, chord, late>>
  PROVE  Carried'
<1> DEFINE c0 == [kind |-> kind, r |-> r]
<1>1. KeysInOrder /\ LateIsOver /\ OneCommand /\ Standing /\ Watched /\ Holder /\ OwnText
  BY DEF Carried
<1>2. \A q \in Requests : is_current(q)' <=> is_current(q)
  BY DEF Dispatch, is_current
<1>3. sending' = sending \cup {c0} /\ c0.r = r /\ \A c \in sending : c.r # r
  BY DEF Dispatch, Held, InSending
<1>4. /\ reply'[r] = None /\ \A q \in Requests : q # r => reply'[q] = reply[q]
      /\ ui'[r] \in {"awaiting", "typing"} /\ \A q \in Requests : q # r => ui'[q] = ui[q]
  BY DEF TypeOK, Dispatch
<1> HIDE DEF c0
<1>5. KeysInOrder' /\ LateIsOver'
  BY <1>1, <1>2, ChordsRest
<1>6. \A q \in Requests : q # r => (Held(q)' <=> Held(q)) /\ (InSending(q)' <=> InSending(q))
  BY <1>3, <1>4 DEF Held, InSending, InQueue
<1>7. OneCommand'
  <2> SUFFICES ASSUME NEW q \in Requests
               PROVE  /\ \A c, d \in sending' : c.r = q /\ d.r = q => c = d
                      /\ \A i, k \in DOMAIN queue : queue[i].r = q /\ queue[k].r = q => i = k
                      /\ InSending(q)' => ~InQueue(q) /\ actor.cmd.r # q /\ reply'[q] # "ydotool"
                      /\ InQueue(q) => actor.cmd.r # q /\ reply'[q] # "ydotool"
                      /\ actor.cmd.r = q => reply'[q] # "ydotool"
    BY DEF OneCommand, InSending, InQueue
  <2>1. CASE q # r
    BY <1>1, <1>3, <1>4, <1>6, <2>1 DEF OneCommand
  <2>2. CASE q = r
    BY <1>1, <1>3, <1>4, <2>2, PasteAssumption DEF OneCommand, Held
  <2> QED BY <2>1, <2>2
<1>8. Standing'
  <2> SUFFICES ASSUME NEW q \in Requests, is_current(q)', Held(q)'
               PROVE  ui'[q] \in {"awaiting", "typing"} /\ reply'[q] \notin Outcome
    BY DEF Standing
  <2> QED BY <1>1, <1>2, <1>4, <1>6, PasteAssumption DEF Standing
<1>9. Watched'
  BY DEF Watched
<1>10. Holder'
  BY <1>1, <1>4 DEF Holder, Held
<1>11. OwnText'
  BY <1>1, <1>2 DEF OwnText, Dispatch
<1> QED BY <1>5, <1>7, <1>8, <1>9, <1>10, <1>11 DEF Carried

LEMMA CoroutineCarried ==
  ASSUME TypeOK, Carried, NEW r \in Requests, Coroutine(r)
  PROVE  Carried'
<1>1. Standing /\ Watched
  BY DEF Carried
<1>2. UNCHANGED <<focus, queue, actor, current, chord, late>>
  BY DEF Coroutine, ghosts
<1>3. /\ \A q \in Requests : q # r => reply'[q] = reply[q]
      /\ reply'[r] = reply[r] \/ (reply[r] # "ydotool" /\ reply'[r] = None)
  BY DEF Coroutine, TypeOK
<1>4. is_current(r) => ~Held(r)
  <2> SUFFICES ASSUME is_current(r), Held(r) PROVE FALSE
    OBVIOUS
  <2>1. ui[r] \in {"awaiting", "typing"} /\ reply[r] \notin Outcome /\ ~flags[r].expired
    BY <1>1 DEF Standing, is_current
  <2>2. \A outcome \in Outcome : ~Answered(r, outcome)
    BY <2>1 DEF Answered
  <2> QED BY <2>1, <2>2 DEF Coroutine, Begin, Hidden, Delivered, Presented, Rehidden, Typed
<1>5. ASSUME NEW u \in Stage \ {"awaiting", "typing"}, ui' = [ui EXCEPT ![r] = u], sending' = sending,
             flags' = flags \/ flags' = Cancelled(flags, r), clip' = clip \/ focus # "app"
      PROVE  Carried'
  <2>1. \A q \in Requests : is_current(q)' => is_current(q)
    BY <1>5 DEF is_current, Cancelled, TypeOK, Flags
  <2>2. ui'[r] = u /\ \A q \in Requests : q # r => ui'[q] = ui[q]
    BY <1>5 DEF TypeOK
  <2>3. Watched'
    BY <1>1, <1>2, <1>5, <2>1, <2>2 DEF Watched
  <2>4. \A q \in Requests : is_current(q)' /\ Held(q) => ui'[q] = ui[q]
    BY <1>4, <2>1, <2>2
  <2>5. \A q \in Requests : reply'[q] = reply[q] \/ (reply[q] # "ydotool" /\ reply'[q] = None)
    BY <1>3
  <2> QED BY <1>2, <1>5, <2>1, <2>3, <2>4, <2>5, GuiStep
<1>6. ASSUME Return(r) PROVE Carried'
  BY <1>5, <1>6 DEF Return, Stage
<1>7. ASSUME Finish(r), flags' = Cancelled(flags, r) PROVE Carried'
  BY <1>5, <1>7 DEF Finish, Stage
<1>8. ASSUME NEW u \in {"hiding", "rehiding"}, Copy_if_active(r), ui' = [ui EXCEPT ![r] = u],
             UNCHANGED <<flags, sending>>
      PROVE  Carried'
  BY <1>5, <1>8 DEF Copy_if_active, Stage
<1>9. ASSUME NEW kind \in {"deliver", "inject"}, NEW has, Dispatch(r, kind, has), is_current(r), focus = "app"
      PROVE  Carried'
  <2>1. reply' = [reply EXCEPT ![r] = None]
    BY <1>4, <1>9 DEF Held, Coroutine
  <2> QED BY <1>2, <1>4, <1>9, <2>1, DispatchStep
<1>10. ASSUME Fallback(r) PROVE Carried'
  BY <1>7, <1>9, <1>10 DEF Fallback
<1>11. CASE Begin(r)
  BY <1>6, <1>8, <1>11 DEF Begin
<1>12. CASE Hidden(r)
  BY <1>6, <1>7, <1>9, <1>12 DEF Hidden
<1>13. CASE Delivered(r)
  <2>1. CASE panel' = "shown" /\ ui' = [ui EXCEPT ![r] = "presenting"]
             /\ UNCHANGED <<copied, pending, flags, sending, clip>>
    BY <1>5, <2>1 DEF Stage
  <2> QED BY <1>6, <1>7, <1>10, <1>13, <2>1 DEF Delivered
<1>14. CASE Presented(r)
  BY <1>6, <1>8, <1>14 DEF Presented
<1>15. CASE Rehidden(r)
  BY <1>6, <1>10, <1>15 DEF Rehidden
<1>16. CASE Typed(r)
  BY <1>6, <1>7, <1>16 DEF Typed
<1> QED BY <1>11, <1>12, <1>13, <1>14, <1>15, <1>16 DEF Coroutine

(* The user, the desktop's focus, the clock, and other copies.             *)
LEMMA SpawnCarried ==
  ASSUME TypeOK, Carried, NEW r \in Requests, Spawn(r)
  PROVE  Carried'
<1>1. Standing /\ Watched
  BY DEF Carried
<1>2. \A q \in Requests : is_current(q)' => is_current(q)
  BY DEF Spawn, is_current, Cancel_pending_paste, Cancelled, TypeOK, Flags
<1>3. ui[r] = "idle" /\ ui'[r] = "begin" /\ \A q \in Requests : q # r => ui'[q] = ui[q]
  BY DEF Spawn, TypeOK
<1>4. UNCHANGED <<sending, queue, actor, current, chord, late, reply, clip, focus>>
  BY DEF Spawn, actorVars
<1>5. Watched'
  BY <1>1, <1>2, <1>3, <1>4 DEF Watched
<1>6. \A q \in Requests : is_current(q)' /\ Held(q) => ui'[q] = ui[q]
  BY <1>1, <1>2, <1>3 DEF Standing
<1> QED BY <1>2, <1>4, <1>5, <1>6, GuiStep

LEMMA StillCarried ==
  ASSUME TypeOK, Carried,
         UNCHANGED <<ui, sending, queue, actor, current, chord, late, focus>>,
         \A q \in Requests : is_current(q)' => is_current(q),
         \A q \in Requests : reply'[q] = reply[q],
         clip' = clip \/ focus # "app"
  PROVE  Carried'
<1>1. Watched
  BY DEF Carried
<1>2. Watched'
  BY <1>1 DEF Watched
<1> QED BY <1>2, GuiStep

LEMMA FocusCarried ==
  ASSUME TypeOK, Carried, NEW where \in {"panel", "window", "app"}, Focus(where)
  PROVE  Carried'
<1>1. Watched
  BY DEF Carried
<1>2. \A q \in Requests : flags'[q] = [flags[q] EXCEPT !.cancelled =
          @ \/ (ui[q] \in {"awaiting", "typing"} /\ where # "app")]
  BY DEF Focus
<1>3. \A q \in Requests : /\ is_current(q)' => is_current(q)
                          /\ is_current(q)' /\ ui[q] \in {"awaiting", "typing"} => where = "app"
  <2> SUFFICES ASSUME NEW q \in Requests
               PROVE  /\ is_current(q)' => is_current(q)
                      /\ is_current(q)' /\ ui[q] \in {"awaiting", "typing"} => where = "app"
    OBVIOUS
  <2>1. \A f \in Flags : \A b \in BOOLEAN :
          /\ [f EXCEPT !.cancelled = f.cancelled \/ b].cancelled = (f.cancelled \/ b)
          /\ [f EXCEPT !.cancelled = f.cancelled \/ b].expired = f.expired
    BY DEF Flags
  <2> DEFINE b == ui[q] \in {"awaiting", "typing"} /\ where # "app"
  <2>2. flags[q] \in Flags /\ b \in BOOLEAN
    BY DEF TypeOK
  <2>3. flags'[q] = [flags[q] EXCEPT !.cancelled = flags[q].cancelled \/ b]
    BY <1>2
  <2>4. (flags'[q].cancelled <=> flags[q].cancelled \/ b) /\ flags'[q].expired = flags[q].expired
    BY <2>1, <2>2, <2>3
  <2> QED BY <2>4 DEF is_current
<1>4. Watched'
  BY <1>3 DEF Watched, Focus
<1> QED BY <1>3, <1>4, GuiStep DEF Focus, actorVars, ghosts

(* Commands move, and those of other surfaces come and go.                 *)
LEMMA MovedStep ==
  ASSUME TypeOK, Carried, UNCHANGED <<ui, focus, actor, reply, flags, chord, late, clip, current>>,
         \A q \in Requests : /\ \A c, d \in sending' : c.r = q /\ d.r = q => c = d
                             /\ \A i, k \in DOMAIN queue' : queue'[i].r = q /\ queue'[k].r = q => i = k
                             /\ ~(InSending(q)' /\ InQueue(q)')
                             /\ InSending(q)' \/ InQueue(q)' => InSending(q) \/ InQueue(q)
  PROVE  Carried'
<1>1. KeysInOrder /\ LateIsOver /\ OneCommand /\ Standing /\ Watched /\ Holder /\ OwnText
  BY DEF Carried
<1>2. \A q \in Requests : /\ (is_current(q)' <=> is_current(q)) /\ (Held(q)' => Held(q))
                          /\ (InSending(q)' \/ InQueue(q)' => actor.cmd.r # q /\ reply[q] # "ydotool")
  BY <1>1 DEF is_current, Held, OneCommand
<1>3. KeysInOrder' /\ LateIsOver'
  BY <1>1, <1>2, ChordsRest
<1>4. OneCommand'
  <2> SUFFICES ASSUME NEW q \in Requests
               PROVE  /\ \A c, d \in sending' : c.r = q /\ d.r = q => c = d
                      /\ \A i, k \in DOMAIN queue' : queue'[i].r = q /\ queue'[k].r = q => i = k
                      /\ InSending(q)' => ~InQueue(q)' /\ actor.cmd.r # q /\ reply[q] # "ydotool"
                      /\ InQueue(q)' => actor.cmd.r # q /\ reply[q] # "ydotool"
                      /\ actor.cmd.r = q => reply[q] # "ydotool"
    BY DEF OneCommand
  <2> QED BY <1>1, <1>2 DEF OneCommand
<1>5. Standing' /\ Watched'
  BY <1>1, <1>2 DEF Standing, Watched
<1>6. Holder' /\ OwnText'
  BY <1>1, <1>2 DEF Holder, OwnText
<1> QED BY <1>3, <1>4, <1>5, <1>6 DEF Carried

LEMMA SendCarried ==
  ASSUME TypeOK, Carried, NEW c0 \in sending, Send(c0)
  PROVE  Carried'
<1>1. OneCommand
  BY DEF Carried
<1>2. queue \in Seq(Command) /\ c0 \in Command
  BY DEF TypeOK
<1>3. /\ DOMAIN queue = 1..Len(queue) /\ DOMAIN queue' = 1..(Len(queue) + 1) /\ Len(queue) \in Nat
      /\ \A i \in DOMAIN queue : queue'[i] = queue[i]
      /\ queue'[Len(queue) + 1] = c0
  BY <1>2 DEF Send
<1>4. \A i \in DOMAIN queue' : i \in DOMAIN queue \/ i = Len(queue) + 1
  BY <1>3
<1>5. ASSUME NEW q \in Requests
      PROVE  /\ \A c, d \in sending' : c.r = q /\ d.r = q => c = d
             /\ \A i, k \in DOMAIN queue' : queue'[i].r = q /\ queue'[k].r = q => i = k
             /\ ~(InSending(q)' /\ InQueue(q)')
             /\ InSending(q)' \/ InQueue(q)' => InSending(q) \/ InQueue(q)
  <2>1. sending' = sending \ {c0}
    BY DEF Send
  <2>2. CASE c0.r = q
    <3>1. InSending(q) /\ \A i \in DOMAIN queue : queue[i].r # q
      BY <1>1, <2>2 DEF OneCommand, InSending, InQueue
    <3>2. \A c \in sending' : c.r # q
      BY <1>1, <2>1, <2>2 DEF OneCommand
    <3>3. \A i \in DOMAIN queue' : queue'[i].r = q => i = Len(queue) + 1
      BY <1>3, <1>4, <3>1
    <3> QED BY <3>1, <3>2, <3>3 DEF InSending
  <2>3. CASE c0.r # q
    <3>1. \A i \in DOMAIN queue' : queue'[i].r = q => i \in DOMAIN queue /\ queue[i].r = q
      BY <1>3, <1>4, <2>3
    <3> QED BY <1>1, <2>1, <3>1 DEF OneCommand, InSending, InQueue
  <2> QED BY <2>2, <2>3
<1> QED BY <1>5, MovedStep DEF Send, uiVars, ghosts

LEMMA UserCarried ==
  ASSUME TypeOK, Carried, User \/ Copy_answered \/ \E r \in Requests : Expire(r)
  PROVE  Carried'
<1>1. OneCommand
  BY DEF Carried
<1>2. \A q \in Requests : flags'[q] = flags[q] => (is_current(q)' => is_current(q))
  BY DEF is_current
<1>3. ASSUME flags' = Cancel_pending_paste(flags) PROVE \A q \in Requests : is_current(q)' => is_current(q)
  BY <1>3 DEF is_current, Cancel_pending_paste, Cancelled, TypeOK, Flags
<1>4. CASE \E r \in Requests : Spawn(r)
  BY <1>4, SpawnCarried
<1>5. CASE \E where \in {"panel", "window", "app"} : Focus(where)
  BY <1>5, FocusCarried
<1>6. ASSUME NEW who \in {"mini", "main"}, Start(who) PROVE Carried'
  BY <1>3, <1>6, StillCarried DEF Start, actorVars
<1>7. CASE Stop
  BY <1>7, <1>2, StillCarried DEF Stop, actorVars, ghosts
<1>8. CASE Retry
  BY <1>8, <1>2, StillCarried DEF Retry, actorVars
<1>9. CASE Close_mini_panel
  BY <1>3, <1>9, StillCarried DEF Close_mini_panel, actorVars
<1>10. ASSUME NEW r \in Requests, Expire(r) PROVE Carried'
  <2>1. \A q \in Requests : is_current(q)' => is_current(q)
    BY <1>10 DEF Expire, is_current, TypeOK, Flags
  <2> QED BY <1>10, <2>1, StillCarried DEF Expire, uiVars, actorVars, ghosts
<1>11. CASE Copy_answered
  <2>1. \A q \in Requests : reply'[q] = reply[q]
    BY <1>11, PasteAssumption DEF Copy_answered, TypeOK, Requests
  <2>2. clip' = clip \/ focus # "app"
    BY <1>11 DEF Copy_answered
  <2> QED BY <1>2, <1>11, <2>1, <2>2, StillCarried DEF Copy_answered, uiVars, actorVars, ghosts
<1>12. ASSUME NEW kind \in {"copy", "grant"}, Other(kind) PROVE Carried'
  <2> DEFINE c0 == [kind |-> kind, r |-> IF kind = "copy" THEN Foreign ELSE None]
  <2>1. sending' = sending \cup {c0} /\ \A q \in Requests : c0.r # q
    BY <1>12, PasteAssumption DEF Other, Requests
  <2>2. queue' = queue
    BY <1>12 DEF Other
  <2> HIDE DEF c0
  <2>3. \A q \in Requests : /\ \A c, d \in sending' : c.r = q /\ d.r = q => c = d
                            /\ \A i, k \in DOMAIN queue' : queue'[i].r = q /\ queue'[k].r = q => i = k
                            /\ ~(InSending(q)' /\ InQueue(q)')
                            /\ InSending(q)' \/ InQueue(q)' => InSending(q) \/ InQueue(q)
    BY <1>1, <2>1, <2>2 DEF OneCommand, InSending, InQueue
  <2> QED BY <1>12, <2>3, MovedStep DEF Other, uiVars
<1>13. CASE Revoke_restore_token
  <2> DEFINE c0 == [kind |-> "close", r |-> None]
  <2>1. queue \in Seq(Command) /\ c0 \in Command /\ sending' = sending /\ \A q \in Requests : c0.r # q
    BY <1>13, Records, PasteAssumption DEF TypeOK, Revoke_restore_token, Requests
  <2>2. queue' = queue \/ queue' = Append(queue, c0)
    BY <1>13 DEF Revoke_restore_token
  <2> HIDE DEF c0
  <2>3. \A q \in Requests : \A i \in DOMAIN queue' : queue'[i].r = q => i \in DOMAIN queue /\ queue[i].r = q
    BY <2>1, <2>2
  <2>4. \A q \in Requests : /\ \A c, d \in sending' : c.r = q /\ d.r = q => c = d
                            /\ \A i, k \in DOMAIN queue' : queue'[i].r = q /\ queue'[k].r = q => i = k
                            /\ ~(InSending(q)' /\ InQueue(q)')
                            /\ InSending(q)' \/ InQueue(q)' => InSending(q) \/ InQueue(q)
    BY <1>1, <2>1, <2>3 DEF OneCommand, InSending, InQueue
  <2> QED BY <1>13, <2>4, MovedStep DEF Revoke_restore_token, uiVars
<1> QED BY <1>4, <1>5, <1>6, <1>7, <1>8, <1>9, <1>10, <1>11, <1>12, <1>13 DEF User

(* The actor's steps.                                                      *)
LEMMA TakeCarried ==
  ASSUME TypeOK, Carried, Take
  PROVE  Carried'
<1> DEFINE c0 == Head(queue)
<1>1. KeysInOrder /\ LateIsOver /\ OneCommand /\ Standing /\ Watched /\ Holder
  BY DEF Carried
<1>2. queue \in Seq(Command) /\ queue # <<>> /\ queue' = Tail(queue) /\ actor.pc = "idle"
  BY DEF TypeOK, Take
<1>3. /\ c0 = queue[1] /\ 1 \in DOMAIN queue
      /\ \A i \in DOMAIN queue' : i + 1 \in DOMAIN queue /\ queue'[i] = queue[i + 1] /\ i + 1 # 1 /\ i \in Nat
  BY <1>2
<1>4. UNCHANGED <<ui, sending, flags, focus, reply, chord, late>>
  BY DEF Take, Keep, uiVars, ghosts
<1>5. actor' = actor \/ actor'.cmd = c0
  BY DEF Take
<1> HIDE DEF c0
<1>6. \A q \in Requests : (is_current(q)' <=> is_current(q)) /\ (InQueue(q)' => InQueue(q) /\ c0.r # q)
  <2> SUFFICES ASSUME NEW q \in Requests PROVE InQueue(q)' => InQueue(q) /\ c0.r # q
    BY <1>4 DEF is_current
  <2> QED BY <1>1, <1>3 DEF OneCommand, InQueue
<1>7. \A q \in Requests : \/ actor' = actor
                          \/ actor'.cmd.r = q /\ c0.r = q /\ InQueue(q)
                          \/ actor'.cmd.r # q
  BY <1>3, <1>5 DEF InQueue
<1>8. KeysInOrder' /\ LateIsOver'
  BY <1>1, <1>4, <1>6, ChordsRest
<1>9. OneCommand'
  <2> SUFFICES ASSUME NEW q \in Requests
               PROVE  /\ \A c, d \in sending : c.r = q /\ d.r = q => c = d
                      /\ \A i, k \in DOMAIN queue' : queue'[i].r = q /\ queue'[k].r = q => i = k
                      /\ InSending(q) => ~InQueue(q)' /\ actor'.cmd.r # q /\ reply[q] # "ydotool"
                      /\ InQueue(q)' => actor'.cmd.r # q /\ reply[q] # "ydotool"
                      /\ actor'.cmd.r = q => reply[q] # "ydotool"
    BY <1>4 DEF OneCommand, InSending
  <2>1. \A i, k \in DOMAIN queue' : queue'[i].r = q /\ queue'[k].r = q => i = k
    <3> SUFFICES ASSUME NEW i \in DOMAIN queue', NEW k \in DOMAIN queue', queue'[i].r = q, queue'[k].r = q
                 PROVE  i = k
      OBVIOUS
    <3>1. i + 1 = k + 1
      BY <1>1, <1>3 DEF OneCommand
    <3> QED BY <1>3, <3>1
  <2> QED BY <1>1, <1>6, <1>7, <2>1 DEF OneCommand
<1>10. \A q \in Requests : Held(q)' => Held(q)
  BY <1>4, <1>6, <1>7 DEF Held, InSending
<1>11. Standing' /\ Watched'
  BY <1>1, <1>4, <1>6, <1>10 DEF Standing, Watched
<1>12. Holder' /\ OwnText'
  BY <1>1, <1>2, <1>4 DEF Holder, OwnText
<1> QED BY <1>8, <1>9, <1>11, <1>12 DEF Carried

(* A step of the actor while no keys are sent.                             *)
LEMMA SilentStep ==
  ASSUME TypeOK, Carried, actor.pc # "chord",
         UNCHANGED <<ui, sending, queue, focus, chord, late>>,
         \A q \in Requests : is_current(q)' => is_current(q),
         \/ UNCHANGED reply /\ actor'.cmd = actor.cmd
         \/ \E outcome \in Outcome : Reply(actor.cmd.r, outcome)
  PROVE  Carried'
<1>1. \A q \in Requests : chord'[q] = chord[q] /\ ~(actor.pc = "chord" /\ actor.cmd.r = q)
  OBVIOUS
<1> QED BY <1>1, GotoStep, ReplyStep

LEMMA ActorCarried ==
  ASSUME TypeOK, Carried, Actor \/ Desktop
  PROVE  Carried'
<1>1. ASSUME flags' = flags \/ \E r : flags' = Cancelled(flags, r)
      PROVE  \A q \in Requests : is_current(q)' => is_current(q)
  BY <1>1 DEF is_current, Cancelled, TypeOK, Flags
<1>2. ASSUME NEW pc, Goto(pc) PROVE actor'.cmd = actor.cmd
  BY <1>2 DEF Goto, TypeOK
<1>3. ASSUME NEW outcome \in Outcome, Settle(actor.cmd.r, outcome)
      PROVE  \E o \in Outcome : Reply(actor.cmd.r, o)
  BY <1>3 DEF Settle, Outcome
<1>4. ASSUME AfterSession
      PROVE  \/ UNCHANGED reply /\ actor'.cmd = actor.cmd
             \/ \E outcome \in Outcome : Reply(actor.cmd.r, outcome)
  BY <1>2, <1>4 DEF AfterSession, Outcome
<1>5. {"ShortcutSent", "ClipboardOnly", "Unavailable", "Cancelled"} \subseteq Outcome
  BY DEF Outcome
<1>6. CASE Take
  BY <1>6, TakeCarried
<1>7. CASE Ensure_live
  BY <1>1, <1>2, <1>4, <1>5, <1>7, SilentStep DEF Ensure_live, Keep, uiVars, ghosts
<1>8. CASE Session_timeout
  BY <1>1, <1>5, <1>8, SilentStep DEF Session_timeout, Keep, uiVars, ghosts
<1>9. CASE Selected
  <2>1. ASSUME NEW outcome \in Outcome, Reply(actor.cmd.r, outcome), UNCHANGED <<flags, chord>> PROVE Carried'
    BY <1>1, <1>9, <2>1, SilentStep DEF Selected, uiVars, ghosts
  <2>2. ASSUME Begin_injection(actor.cmd.r, "deliver"), Goto("chord"), UNCHANGED reply, current' = actor.cmd.r
        PROVE  Carried'
    BY <1>9, <2>2, BeginStep DEF Selected, uiVars, ghosts
  <2> QED BY <1>5, <1>9, <2>1, <2>2 DEF Selected, Refused
<1>10. CASE Selection_failed
  <2>1. \/ UNCHANGED reply /\ actor'.cmd = actor.cmd
        \/ \E outcome \in Outcome : Reply(actor.cmd.r, outcome)
    BY <1>3, <1>5, <1>10 DEF Selection_failed, TypeOK
  <2> QED BY <1>1, <1>10, <2>1, SilentStep DEF Selection_failed, Keep, uiVars, ghosts
<1>11. CASE Selection_timeout
  BY <1>1, <1>5, <1>11, SilentStep DEF Selection_timeout, Keep, uiVars, ghosts
<1>12. CASE Inject
  <2>1. ASSUME NEW outcome \in Outcome, Reply(actor.cmd.r, outcome), UNCHANGED <<flags, chord>> PROVE Carried'
    BY <1>1, <1>12, <2>1, SilentStep DEF Inject, uiVars, ghosts
  <2>2. ASSUME Begin_injection(actor.cmd.r, "inject"), Goto("chord"), UNCHANGED reply
        PROVE  Carried'
    BY <1>12, <2>2, BeginStep DEF Inject, uiVars, ghosts
  <2> QED BY <1>5, <1>12, <2>1, <2>2 DEF Inject, Refused
<1>13. CASE Chord_done
  <2>1. \A q \in Requests : \/ chord'[q] = chord[q] /\ ~(actor.pc = "chord" /\ actor.cmd.r = q)
                            \/ chord'[q].pc = "done"
    BY <1>13 DEF Chord_done, Forget_chord, TypeOK, NoChord
  <2>2. \A q \in Requests : is_current(q)' => is_current(q)
    BY <1>13, <1>1 DEF Chord_done
  <2>3. CASE \E outcome \in Outcome : Reply(actor.cmd.r, outcome)
    BY <1>13, <2>1, <2>2, <2>3, ReplyStep DEF Chord_done, uiVars, ghosts
  <2>4. CASE Goto("serve") /\ UNCHANGED reply
    BY <1>2, <1>13, <2>1, <2>2, <2>4, GotoStep DEF Chord_done, uiVars, ghosts
  <2> QED BY <1>5, <1>13, <2>3, <2>4, ChordOutcomeTyped DEF Chord_done
<1>14. CASE Serve_until_quiet
  BY <1>1, <1>5, <1>14, SilentStep DEF Serve_until_quiet, Keep, uiVars, ghosts
<1>15. CASE StreamEnds
  BY <1>1, <1>15, SilentStep DEF StreamEnds, Keep, uiVars, ghosts
<1>16. CASE Open_session
  BY <1>1, <1>2, <1>3, <1>5, <1>16, SilentStep DEF Open_session, uiVars
<1>17. CASE Subscribe
  BY <1>1, <1>3, <1>4, <1>5, <1>17, SilentStep DEF Subscribe, Keep, uiVars, ghosts
<1> QED BY <1>6, <1>7, <1>8, <1>9, <1>10, <1>11, <1>12, <1>13, <1>14, <1>15, <1>16, <1>17
        DEF Actor, Desktop

(* A step within a request's chord.                                        *)
LEMMA KeyStep ==
  ASSUME TypeOK, Carried, NEW r \in Requests, KeysInOrder', LateIsOver',
         UNCHANGED <<ui, sending, queue, actor, focus, reply, flags, clip, current>>,
         \A q \in Requests : q # r => chord'[q] = chord[q],
         chord[r].pc \in {"press", "check", "release"}, chord'[r].by = chord[r].by,
         is_current(r) /\ chord'[r].pc \in {"press", "check"} => chord[r].pc \in {"press", "check"}
  PROVE  Carried'
<1>1. OneCommand /\ Standing /\ Watched /\ Holder /\ OwnText
  BY DEF Carried
<1>2. \A q \in Requests : is_current(q)' <=> is_current(q)
  BY DEF is_current
<1>3. OneCommand' /\ Standing' /\ Watched'
  BY <1>1, <1>2 DEF OneCommand, Standing, Watched, Held, InSending, InQueue
<1>4. Holder'
  BY <1>1 DEF Holder
<1>5. OwnText'
  BY <1>1, <1>2 DEF OwnText
<1> QED BY <1>3, <1>4, <1>5 DEF Carried

(* ydotool's answer.                                                       *)
LEMMA YdotoolStep ==
  ASSUME TypeOK, Carried, NEW r \in Requests, reply[r] = "ydotool", reply'[r] # "ydotool",
         \A q \in Requests : q # r => reply'[q] = reply[q] /\ chord'[q] = chord[q],
         chord'[r].pc \in {"none", "done"}, chord'[r] = chord[r] \/ chord'[r].pc = "done",
         UNCHANGED <<ui, sending, queue, actor, focus, flags, clip, current, late>>
  PROVE  Carried'
<1>1. KeysInOrder /\ LateIsOver /\ OneCommand /\ Standing /\ Watched /\ Holder /\ OwnText
  BY DEF Carried
<1>2. \A q \in Requests : is_current(q)' <=> is_current(q)
  BY DEF is_current
<1>3. KeysInOrder' /\ LateIsOver'
  BY <1>1, <1>2, ChordsRest
<1>4. OneCommand'
  BY <1>1 DEF OneCommand, InSending, InQueue
<1>5. ~Held(r)' /\ \A q \in Requests : q # r => (Held(q)' <=> Held(q))
  BY <1>1 DEF OneCommand, Held, InSending, InQueue
<1>6. Standing' /\ Watched'
  BY <1>1, <1>2, <1>5 DEF Standing, Watched
<1>7. Holder' /\ OwnText'
  BY <1>1, <1>2 DEF Holder, OwnText
<1> QED BY <1>3, <1>4, <1>6, <1>7 DEF Carried

LEMMA KeysCarried ==
  ASSUME TypeOK, Carried, NEW r \in Requests, Keys(r)
  PROVE  Carried'
<1>1. KeysInOrder /\ LateIsOver /\ OneCommand /\ Standing /\ Watched /\ Holder /\ OwnText
  BY DEF Carried
<1>2. chord[r] \in Chord /\ chord \in [Requests -> Chord]
  BY DEF TypeOK
<1>3. ASSUME UNCHANGED flags PROVE \A q \in Requests : is_current(q)' <=> is_current(q)
  BY <1>3 DEF is_current
<1>4. CASE Press(r)
  <2> DEFINE k == chord[r].key
  <2>1. /\ chord[r].pc = "press" /\ k \in 1..ChordLen /\ ChordLen \in Nat
        /\ \A q \in Requests : q # r => chord'[q] = chord[q]
        /\ \A q \in Requests : is_current(q)' <=> is_current(q)
    BY <1>2, <1>3, <1>4, PasteAssumption DEF Press, Chord
  <2>2. \/ k = ChordLen /\ chord'[r] = [chord[r] EXCEPT !.held = k, !.pc = "release"]
        \/ k # ChordLen /\ chord'[r] = [chord[r] EXCEPT !.held = k, !.pc = "check"]
        \/ chord'[r] = [chord[r] EXCEPT !.held = k, !.pc = "release", !.result = "Failed"]
    BY <1>2, <1>4 DEF Press
  <2>3. /\ chord'[r].pc \in {"check", "release"} /\ chord'[r].by = chord[r].by
        /\ chord'[r].held = k /\ chord'[r].key = k
        /\ chord'[r].pc = "check" => k # ChordLen
    BY <1>2, <2>2 DEF Chord
  <2> HIDE DEF k
  <2>4. KeysInOrder'
    BY <1>1, <2>1, <2>3 DEF KeysInOrder
  <2>5. \A q \in late' : q \in late \/ (q = r /\ ~is_current(r))
    BY <1>4 DEF Press
  <2>6. LateIsOver'
    BY <1>1, <2>1, <2>3, <2>5 DEF LateIsOver, TypeOK
  <2> QED BY <1>4, <2>1, <2>3, <2>4, <2>6, KeyStep DEF Press, uiVars, actorVars
<1>5. CASE Check(r)
  <2>1. /\ chord[r].pc = "check"
        /\ \A q \in Requests : q # r => chord'[q] = chord[q]
        /\ \A q \in Requests : is_current(q)' <=> is_current(q)
        /\ late' = late
    BY <1>2, <1>3, <1>5 DEF Check, ghosts
  <2>2. /\ chord'[r].pc = IF is_current(r) THEN "press" ELSE "release"
        /\ chord'[r].by = chord[r].by /\ chord'[r].held = chord[r].held
    BY <1>2, <1>5 DEF Check, Chord
  <2>3. chord[r].held > 0
    BY <1>1, <2>1 DEF KeysInOrder
  <2>4. KeysInOrder'
    BY <1>1, <2>1, <2>2, <2>3 DEF KeysInOrder
  <2>5. LateIsOver'
    BY <1>1, <2>1, <2>2 DEF LateIsOver, TypeOK
  <2> QED BY <1>5, <2>1, <2>2, <2>4, <2>5, KeyStep DEF Check, uiVars, actorVars
<1>6. CASE Release(r)
  <2>1. /\ chord[r].pc = "release" /\ chord[r].held > 0 /\ chord[r].held \in Nat
        /\ \A q \in Requests : q # r => chord'[q] = chord[q]
        /\ \A q \in Requests : is_current(q)' <=> is_current(q)
        /\ late' = late
    BY <1>1, <1>2, <1>3, <1>6, PasteAssumption DEF Release, ghosts, KeysInOrder, Chord
  <2>2. /\ chord'[r].pc = IF chord[r].held = 1 THEN "done" ELSE "release"
        /\ chord'[r].by = chord[r].by /\ chord'[r].held = chord[r].held - 1
    BY <1>2, <1>6 DEF Release, Chord
  <2>4. KeysInOrder'
    BY <1>1, <2>1, <2>2 DEF KeysInOrder
  <2>5. LateIsOver'
    BY <1>1, <2>1, <2>2 DEF LateIsOver, TypeOK
  <2> QED BY <1>6, <2>1, <2>2, <2>4, <2>5, KeyStep DEF Release, uiVars, actorVars
<1>7. CASE Ydotool(r)
  <2>1. reply[r] = "ydotool" /\ chord[r].pc = "none"
    BY <1>7 DEF Ydotool
  <2>2. CASE Refused(r) /\ reply' = [reply EXCEPT ![r] = "Cancelled"]
    <3>1. reply'[r] # "ydotool" /\ \A q \in Requests : q # r => reply'[q] = reply[q]
      BY <2>2 DEF TypeOK
    <3> QED BY <1>7, <2>1, <2>2, <3>1, YdotoolStep DEF Ydotool, Refused, uiVars, actorVars, ghosts
  <2>3. CASE Begin_injection(r, "ydotool") /\ UNCHANGED reply
    <3>1. is_current(r) /\ \A q \in Requests : is_current(q)' <=> is_current(q)
      BY <2>3 DEF Begin_injection, is_current, TypeOK, Flags
    <3>2. \A q \in Requests : \/ q # r /\ chord'[q] = chord[q]
                              \/ q = r /\ chord'[q].pc = "press" /\ chord'[q].by = "ydotool"
      BY <2>3 DEF Begin_injection, TypeOK, NoChord
    <3>3. UNCHANGED <<ui, sending, queue, actor, focus, reply, clip, current, late>>
      BY <1>7, <2>3 DEF Ydotool, uiVars, actorVars, ghosts
    <3>4. KeysInOrder'
      BY <1>1, <3>2 DEF KeysInOrder
    <3>5. LateIsOver'
      BY <1>1, <3>1, <3>2, <3>3 DEF LateIsOver, TypeOK
    <3>6. OneCommand' /\ Standing' /\ Watched'
      BY <1>1, <3>1, <3>3 DEF OneCommand, Standing, Watched, Held, InSending, InQueue
    <3>7. Holder'
      BY <1>1, <2>1, <3>2, <3>3 DEF Holder
    <3>8. OwnText'
      BY <1>1, <3>1, <3>2, <3>3 DEF OwnText
    <3> QED BY <3>4, <3>5, <3>6, <3>7, <3>8 DEF Carried
  <2> QED BY <1>7, <2>2, <2>3 DEF Ydotool
<1>8. CASE Ydotool_done(r)
  <2>1. reply'[r] # "ydotool" /\ \A q \in Requests : q # r => reply'[q] = reply[q]
    BY <1>8, ChordOutcomeTyped, PasteAssumption DEF Ydotool_done, TypeOK, Outcome
  <2>2. chord'[r].pc = "done" /\ \A q \in Requests : q # r => chord'[q] = chord[q]
    BY <1>8 DEF Ydotool_done, Forget_chord, TypeOK, NoChord
  <2> QED BY <1>8, <2>1, <2>2, YdotoolStep DEF Ydotool_done, uiVars, actorVars, ghosts
<1> QED BY <1>4, <1>5, <1>6, <1>7, <1>8 DEF Keys

LEMMA CarriedNext == TypeOK /\ Carried /\ [Next]_vars => Carried'
<1> SUFFICES ASSUME TypeOK, Carried, [Next]_vars PROVE Carried'
  OBVIOUS
<1>1. CASE UNCHANGED vars
  BY <1>1, StillCarried DEF vars, uiVars, actorVars, ghosts, is_current
<1> QED BY <1>1, CoroutineCarried, UserCarried, SendCarried, ActorCarried, KeysCarried DEF Next

(***************************************************************************)
(* The keys and the panel.                                                 *)
(***************************************************************************)
LEMMA KeysNext ==
  ASSUME TypeOK, NoKeyAbandoned, [Next]_vars
  PROVE  NoKeyAbandoned'
<1>1. chord \in [Requests -> Chord]
  BY DEF TypeOK
<1>2. ASSUME NEW r, \A q \in Requests : \/ chord'[q] = chord[q]
                                        \/ q = r /\ (chord'[q].pc # "done" \/ chord'[q].held = 0)
      PROVE  NoKeyAbandoned'
  BY <1>2 DEF NoKeyAbandoned
<1>3. ASSUME NEW r, NEW by, Begin_injection(r, by) PROVE NoKeyAbandoned'
  BY <1>1, <1>2, <1>3 DEF Begin_injection, NoChord
<1>4. ASSUME NEW r, Forget_chord(r) PROVE NoKeyAbandoned'
  BY <1>1, <1>2, <1>4 DEF Forget_chord, NoChord
<1>5. CASE UNCHANGED chord
  BY <1>5 DEF NoKeyAbandoned
<1>6. CASE Actor \/ Desktop
  <2>1. UNCHANGED chord \/ (\E r, by : Begin_injection(r, by)) \/ \E r : Forget_chord(r)
    BY <1>6 DEF Actor, Desktop, Take, Ensure_live, Session_timeout, Selected, Selection_failed, Selection_timeout,
                Inject, Chord_done, Serve_until_quiet, StreamEnds, Open_session, Subscribe, Refused, Keep
  <2> QED BY <1>3, <1>4, <1>5, <2>1
<1>7. ASSUME NEW r \in Requests, Keys(r) PROVE NoKeyAbandoned'
  <2>1. CASE Press(r)
    <3>1. chord'[r].pc # "done" /\ \A q \in Requests : q # r => chord'[q] = chord[q]
      <4>1. \/ chord'[r] = [chord[r] EXCEPT !.held = chord[r].key,
                              !.pc = IF chord[r].key = ChordLen THEN "release" ELSE "check"]
            \/ chord'[r] = [chord[r] EXCEPT !.held = chord[r].key, !.pc = "release", !.result = "Failed"]
        BY <1>1, <2>1 DEF Press
      <4>2. chord[r] \in Chord
        BY <1>1
      <4>3. chord'[r].pc # "done"
        BY <4>1, <4>2 DEF Chord
      <4> QED BY <1>1, <2>1, <4>3 DEF Press
    <3> QED BY <1>2, <3>1
  <2>2. CASE Check(r)
    <3>1. chord'[r].pc # "done" /\ \A q \in Requests : q # r => chord'[q] = chord[q]
      BY <1>1, <2>2 DEF Check, Chord
    <3> QED BY <1>2, <3>1
  <2>3. CASE Release(r)
    <3>1. /\ chord'[r].pc = IF chord[r].held = 1 THEN "done" ELSE "release"
          /\ chord'[r].held = chord[r].held - 1
          /\ \A q \in Requests : q # r => chord'[q] = chord[q]
      BY <1>1, <2>3 DEF Release, Chord
    <3>2. chord'[r].pc # "done" \/ chord'[r].held = 0
      BY <3>1
    <3> QED BY <1>2, <3>1, <3>2
  <2>4. CASE Ydotool(r)
    BY <1>3, <1>5, <2>4 DEF Ydotool, Refused
  <2>5. CASE Ydotool_done(r)
    BY <1>4, <2>5 DEF Ydotool_done
  <2> QED BY <1>7, <2>1, <2>2, <2>3, <2>4, <2>5 DEF Keys
<1>8. CASE User \/ Copy_answered \/ UNCHANGED vars
  BY <1>5, <1>8 DEF User, Spawn, Focus, Start, Stop, Retry, Close_mini_panel, Revoke_restore_token, Other,
                    Copy_answered, vars
<1>9. CASE (\E c \in sending : Send(c)) \/ \E r \in Requests : Coroutine(r) \/ Expire(r)
  BY <1>5, <1>9 DEF Send, Coroutine, Expire
<1> QED BY <1>6, <1>7, <1>8, <1>9 DEF Next

LEMMA PanelNextPreserves ==
  ASSUME TypeOK, NoHiddenMicrophone, [Next]_vars
  PROVE  NoHiddenMicrophone'
<1>1. ASSUME UNCHANGED <<recording, panel>> PROVE NoHiddenMicrophone'
  BY <1>1 DEF NoHiddenMicrophone
<1>2. ASSUME NEW r \in Requests, Coroutine(r) PROVE NoHiddenMicrophone'
  <2>1. recording' = recording
    BY <1>2 DEF Coroutine
  <2>2. panel' \in {panel, "shown"} \/ Owns(r)
    BY <1>2 DEF Coroutine, Begin, Hidden, Delivered, Presented, Rehidden, Typed, Fallback, Finish, Dispatch, Return
  <2> QED BY <2>1, <2>2 DEF NoHiddenMicrophone, Owns
<1>3. CASE User
  <2>1. ASSUME NEW who, Start(who) PROVE NoHiddenMicrophone'
    BY <2>1 DEF Start, NoHiddenMicrophone
  <2>2. CASE Stop
    BY <2>2 DEF Stop, NoHiddenMicrophone
  <2>3. CASE Close_mini_panel
    BY <2>3 DEF Close_mini_panel, NoHiddenMicrophone
  <2> QED BY <1>1, <1>3, <2>1, <2>2, <2>3
          DEF User, Spawn, Focus, Retry, Revoke_restore_token, Other, uiVars
<1>4. CASE Actor \/ Desktop
  BY <1>1, <1>4 DEF Actor, Desktop, Take, Ensure_live, Session_timeout, Selected, Selection_failed, Selection_timeout,
                    Inject, Chord_done, Serve_until_quiet, StreamEnds, Open_session, Subscribe, Keep, uiVars
<1>5. CASE Copy_answered \/ UNCHANGED vars
  BY <1>1, <1>5 DEF Copy_answered, vars, uiVars
<1>6. CASE (\E c \in sending : Send(c)) \/ \E r \in Requests : Keys(r) \/ Expire(r)
  BY <1>1, <1>6 DEF Send, Keys, Press, Check, Release, Ydotool, Ydotool_done, Expire, uiVars
<1> QED BY <1>2, <1>3, <1>4, <1>5, <1>6 DEF Next

LEMMA PasteInit == Init => PasteInv
<1> SUFFICES ASSUME Init PROVE PasteInv
  OBVIOUS
<1>1. NoChord \in Chord /\ Idle \in ActorState
  BY Records
<1>2. TypeOK
  BY <1>1, PasteAssumption DEF Init, TypeOK, Flags, ActorState, Command
<1>3. \A q \in Requests : chord[q].pc = "none"
  BY DEF Init, NoChord
<1>4. \A q \in Requests : ~Held(q)
  BY PasteAssumption DEF Init, Held, InSending, InQueue, Idle, Requests
<1>5. KeysInOrder /\ LateIsOver /\ Holder /\ OwnText /\ NoKeyAbandoned
  BY <1>3 DEF Init, KeysInOrder, LateIsOver, Holder, OwnText, NoKeyAbandoned
<1>6. OneCommand
  BY <1>4 DEF Init, OneCommand, Held
<1>7. Standing
  BY <1>4 DEF Standing
<1>8. Watched /\ NoHiddenMicrophone
  BY DEF Init, Watched, NoHiddenMicrophone
<1> QED BY <1>2, <1>5, <1>6, <1>7, <1>8 DEF PasteInv, DeliverySafety, Carried

LEMMA PasteNext == PasteInv /\ [Next]_vars => PasteInv'
<1> SUFFICES ASSUME PasteInv, [Next]_vars PROVE PasteInv'
  OBVIOUS
<1>1. TypeOK /\ Carried /\ KeysInOrder /\ NoKeyAbandoned /\ NoHiddenMicrophone
  BY DEF PasteInv, DeliverySafety, Carried
<1>2. TypeOK'
  BY <1>1, TypeNext
<1>3. Carried'
  BY <1>1, CarriedNext
<1>4. NoKeyAbandoned' /\ NoHiddenMicrophone'
  BY <1>1, KeysNext, PanelNextPreserves
<1> QED BY <1>2, <1>3, <1>4 DEF PasteInv, DeliverySafety

LEMMA PasteInvAlways == Spec => []PasteInv
<1> QED BY PasteInit, PasteNext, PTL DEF Spec

(* However a delivery ends, and whatever fails on the way, no key stays    *)
(* down, and no recording runs behind a hidden panel: the coroutine, the   *)
(* actor, the chord and ydotool, for any number of requests.               *)
THEOREM DeliverySafetyAlways == Spec => []DeliverySafety
<1>1. PasteInv => DeliverySafety
  BY DEF PasteInv
<1> QED BY <1>1, PasteInvAlways, PTL

LEMMA SentInOrder ==
  ASSUME PasteInv, NEW r \in Requests, SendsV(r), is_current(r)
  PROVE  focus = "app" /\ (chord[r].by = "deliver" => ClipText = r)
<1>1. Holder /\ Standing /\ Watched /\ OwnText
  BY DEF PasteInv, Carried
<1>2. chord[r].pc = "press"
  BY DEF SendsV
<1>3. Held(r)
  BY <1>1, <1>2, ChordIsHeld
<1>4. focus = "app"
  BY <1>1, <1>3 DEF Standing, Watched
<1>5. chord[r].by = "deliver" => clip = Portal /\ current = r
  BY <1>1, <1>2 DEF OwnText
<1> QED BY <1>4, <1>5 DEF ClipText

(* Only a press raises what is held.                                       *)
LEMMA LateTypesNoMore ==
  ASSUME PasteInv, [Next]_vars, NEW r \in late
  PROVE  chord[r].held >= chord'[r].held
<1>1. TypeOK /\ LateIsOver
  BY DEF PasteInv, Carried, DeliverySafety
<1>2. r \in Requests /\ chord[r] \in Chord /\ ~is_current(r) /\ chord[r].pc # "press" /\ chord[r].held \in Nat
  BY <1>1, PasteAssumption DEF TypeOK, LateIsOver, Chord
<1>3. CASE chord'[r] = chord[r] \/ chord'[r].held = 0
  BY <1>2, <1>3
<1>4. ASSUME NEW q, NEW by, Begin_injection(q, by) PROVE chord'[r] = chord[r]
  BY <1>1, <1>2, <1>4 DEF Begin_injection, TypeOK
<1>5. ASSUME NEW q, Forget_chord(q) PROVE chord'[r] = chord[r] \/ chord'[r].held = 0
  BY <1>1, <1>2, <1>5 DEF Forget_chord, TypeOK, NoChord
<1>6. CASE Actor \/ Desktop
  <2>1. UNCHANGED chord \/ (\E q, by : Begin_injection(q, by)) \/ \E q : Forget_chord(q)
    BY <1>6 DEF Actor, Desktop, Take, Ensure_live, Session_timeout, Selected, Selection_failed, Selection_timeout,
                Inject, Chord_done, Serve_until_quiet, StreamEnds, Open_session, Subscribe, Refused, Keep
  <2> QED BY <1>3, <1>4, <1>5, <2>1
<1>7. ASSUME NEW q \in Requests, Keys(q) PROVE chord[r].held >= chord'[r].held
  <2>1. CASE Press(q) \/ Check(q) \/ Release(q)
    <3>1. CASE q # r
      BY <1>1, <1>2, <1>3, <2>1, <3>1 DEF Press, Check, Release, TypeOK
    <3>2. CASE q = r /\ Check(q)
      <4>1. chord'[r].held = chord[r].held
        BY <1>1, <1>2, <3>2 DEF Check, TypeOK, Chord
      <4> QED BY <1>2, <4>1
    <3>3. CASE q = r /\ Release(q)
      <4>1. chord'[r].held = chord[r].held - 1
        BY <1>1, <1>2, <3>3 DEF Release, TypeOK, Chord
      <4> QED BY <1>2, <4>1
    <3> QED BY <1>2, <2>1, <3>1, <3>2, <3>3 DEF Press
  <2>2. CASE Ydotool(q)
    BY <1>3, <1>4, <2>2 DEF Ydotool, Refused
  <2>3. CASE Ydotool_done(q)
    BY <1>3, <1>5, <2>3 DEF Ydotool_done
  <2> QED BY <1>7, <2>1, <2>2, <2>3 DEF Keys
<1>8. CASE User \/ Copy_answered \/ UNCHANGED vars
  BY <1>3, <1>8 DEF User, Spawn, Focus, Start, Stop, Retry, Close_mini_panel, Revoke_restore_token, Other,
                    Copy_answered, vars
<1>9. CASE (\E c \in sending : Send(c)) \/ \E q \in Requests : Coroutine(q) \/ Expire(q)
  BY <1>3, <1>9 DEF Send, Coroutine, Expire
<1> QED BY <1>6, <1>7, <1>8, <1>9 DEF Next

(* A paste that still stands is of its own text and leaves the program,    *)
(* and after the user cancelled, another delivery started or the deadline  *)
(* passed, at most the key under way goes down.                            *)
THEOREM ChordSafetyAlways == Spec => ChordSafety
<1>1. PasteInv /\ [Next]_vars =>
        [\A r \in Requests : SendsV(r) /\ chord[r].by = "deliver" /\ is_current(r) => ClipText = r]_vars
  BY SentInOrder
<1>2. PasteInv /\ [Next]_vars => [\A r \in Requests : SendsV(r) /\ is_current(r) => focus = "app"]_vars
  BY SentInOrder
<1>3. PasteInv /\ [Next]_vars => [\A r \in late : chord[r].held >= chord'[r].held]_vars
  BY LateTypesNoMore
<1> QED BY <1>1, <1>2, <1>3, PasteInvAlways, PTL
        DEF Spec, ChordSafety, PortalPastesOwnText, PasteLeavesTheProgram, CancelStopsTyping

------------------------------------------------------------------------------
(* What the panel does with a transcript.                                  *)

(* What the inference worker decodes; what the other coroutines wait for.  *)
Decoding == Request({"take", "edit"})
Waiting ==
  Request({"auto", "late", "portal", "clipboard", "chip", "editLlm", "selection", "transform"})

(* What is decoded or asked for.                                           *)
JobsOf(q) == {q[i] : i \in DOMAIN q}
Pending == JobsOf(decodes) \cup threads

(* A result whose active index names a text it has, and whose improvements *)
(* are its own.                                                            *)
Whole(r) ==
  /\ r \in [of : Session, variants : Seq(Text), active : Nat]
  /\ r.active <= Len(r.variants)
  /\ \A i \in DOMAIN r.variants : r.variants[i].by = "auto" => r.variants[i].of = r.of

(* An improvement in the history is of its entry.                          *)
EntriesOwn(s) ==
  s \in [Session -> Text] /\ \A n \in Session : s[n].by = "auto" => s[n].of = n

(* What the panel can show.                                                *)
PageOK ==
  /\ page \in {"recording", "transcribing", "result"} /\ shown \in Text
  /\ extras \in BOOLEAN /\ chipsOn \in BOOLEAN

(* Each voice edit, and each session, was begun by an act of the user.     *)
ActsCount ==
  /\ generation <= begun /\ cancelled <= edits
  /\ edits + (IF owner = "VoiceEdit" THEN 1 ELSE 0) <= begun

(* Nothing is numbered ahead of the session.                               *)
JobsPast == \A j \in Pending : j.gen <= generation

(* An improvement is asked for the take that it improves.                  *)
ImprovesItsTake ==
  \A j \in threads : j.kind \in {"auto", "late"} =>
    j.text.of = j.gen /\ (j.gen = generation => res.of = generation)

(* An edit that was cancelled is of an earlier session.                    *)
CancelledIsStale ==
  \A j \in Pending : j.kind \in {"edit", "editLlm"} =>
    j.n <= edits /\ (j.n <= cancelled => j.gen # generation)

(* The invariant behind PanelSafety.                                       *)
PanelInv ==
  /\ PanelTypeOK
  /\ Whole(res)
  /\ EntriesOwn(saved)
  /\ ActsCount
  /\ JobsPast
  /\ ImprovesItsTake
  /\ CancelledIsStale

(* A queue with one more job, and with its first job taken.                *)
LEMMA JobAdded ==
  ASSUME NEW q \in Seq(Decoding), NEW j \in Decoding
  PROVE  Append(q, j) \in Seq(Decoding) /\ JobsOf(Append(q, j)) = JobsOf(q) \cup {j}
<1> DEFINE r == Append(q, j)
<1>1. /\ r \in Seq(Decoding) /\ Len(r) = Len(q) + 1 /\ r[Len(q) + 1] = j
      /\ \A i \in 1..Len(q) : r[i] = q[i]
      /\ Len(q) \in Nat /\ DOMAIN q = 1..Len(q) /\ DOMAIN r = 1..(Len(q) + 1)
  BY AppendProperties, LenProperties
<1> HIDE DEF r
<1>2. \A i \in 1..(Len(q) + 1) : i \in 1..Len(q) \/ i = Len(q) + 1
  BY <1>1
<1>3. \A i \in 1..Len(q) : i \in 1..(Len(q) + 1)
  BY <1>1
<1>4. Len(q) + 1 \in 1..(Len(q) + 1)
  BY <1>1
<1>5. JobsOf(r) = JobsOf(q) \cup {j}
  BY <1>1, <1>2, <1>3, <1>4 DEF JobsOf
<1> QED BY <1>1, <1>5 DEF r

LEMMA JobTaken ==
  ASSUME NEW q \in Seq(Decoding), q # <<>>
  PROVE  /\ Tail(q) \in Seq(Decoding) /\ Head(q) \in Decoding /\ Head(q) \in JobsOf(q)
         /\ JobsOf(Tail(q)) \subseteq JobsOf(q)
<1> DEFINE r == Tail(q)
<1>1. /\ r \in Seq(Decoding) /\ Head(q) \in Decoding /\ Head(q) = q[1] /\ Len(r) = Len(q) - 1
      /\ \A i \in 1..Len(r) : r[i] = q[i + 1]
      /\ Len(q) \in Nat /\ Len(q) # 0 /\ DOMAIN q = 1..Len(q) /\ DOMAIN r = 1..Len(r)
  BY HeadTailProperties, LenProperties, EmptySeq
<1> HIDE DEF r
<1>2. 1 \in DOMAIN q
  BY <1>1
<1>3. ASSUME NEW i \in DOMAIN r PROVE r[i] \in JobsOf(q)
  <2>1. i + 1 \in DOMAIN q
    BY <1>1
  <2>2. r[i] = q[i + 1]
    BY ONLY <1>1, i \in DOMAIN r
  <2> QED BY <2>1, <2>2 DEF JobsOf
<1>4. JobsOf(r) \subseteq JobsOf(q)
  BY <1>3 DEF JobsOf
<1>5. Head(q) \in JobsOf(q)
  BY <1>1, <1>2 DEF JobsOf
<1> QED BY <1>1, <1>4, <1>5 DEF r

(* The operations on a result.                                             *)
LEMMA PushFields ==
  ASSUME NEW r \in [of : Session, variants : Seq(Text), active : Nat], NEW t
  PROVE  PushVariant(r, t) = [of |-> r.of, variants |-> Append(r.variants, t),
                              active |-> Len(r.variants) + 1]
<1> DEFINE vs == Append(r.variants, t)
           q == [r EXCEPT !.variants = vs]
<1>1. PushVariant(r, t) = [q EXCEPT !.active = Len(r.variants) + 1]
  BY DEF PushVariant
<1> HIDE DEF vs
<1>2. q = [of |-> r.of, variants |-> vs, active |-> r.active]
  OBVIOUS
<1> HIDE DEF q
<1>3. [q EXCEPT !.active = Len(r.variants) + 1]
        = [of |-> r.of, variants |-> vs, active |-> Len(r.variants) + 1]
  BY <1>2
<1> QED BY <1>1, <1>3 DEF vs, q

LEMMA PushWhole ==
  ASSUME NEW r, Whole(r), NEW t \in Text, t.by = "auto" => t.of = r.of
  PROVE  Whole(PushVariant(r, t)) /\ PushVariant(r, t).of = r.of
<1> DEFINE vs == Append(r.variants, t)
<1>1. /\ r \in [of : Session, variants : Seq(Text), active : Nat] /\ r.variants \in Seq(Text)
      /\ \A i \in DOMAIN r.variants : r.variants[i].by = "auto" => r.variants[i].of = r.of
  BY DEF Whole
<1>2. /\ vs \in Seq(Text) /\ Len(vs) = Len(r.variants) + 1 /\ vs[Len(r.variants) + 1] = t
      /\ \A i \in 1..Len(r.variants) : vs[i] = r.variants[i]
      /\ Len(r.variants) \in Nat /\ DOMAIN r.variants = 1..Len(r.variants)
      /\ DOMAIN vs = 1..(Len(r.variants) + 1)
  BY <1>1, AppendProperties, LenProperties
<1> HIDE DEF vs
<1>3. PushVariant(r, t) = [of |-> r.of, variants |-> vs, active |-> Len(r.variants) + 1]
  BY <1>1, PushFields DEF vs
<1>4. \A i \in DOMAIN vs : vs[i].by = "auto" => vs[i].of = r.of
  <2> TAKE i \in DOMAIN vs
  <2>1. i \in 1..Len(r.variants) \/ i = Len(r.variants) + 1
    BY <1>2
  <2> QED BY <1>1, <1>2, <2>1
<1>5. Len(r.variants) + 1 \in Nat /\ Len(r.variants) + 1 <= Len(vs)
  BY <1>2
<1> QED BY <1>1, <1>2, <1>3, <1>4, <1>5 DEF Whole

LEMMA SetActiveWhole ==
  ASSUME NEW r, Whole(r), NEW i \in Nat
  PROVE  Whole(SetActive(r, i)) /\ SetActive(r, i).of = r.of
<1>1. /\ r \in [of : Session, variants : Seq(Text), active : Nat]
      /\ Len(r.variants) \in Nat
  BY LenProperties DEF Whole
<1>2. SetActive(r, i) = [of |-> r.of, variants |-> r.variants,
                         active |-> IF i > Len(r.variants) THEN Len(r.variants) ELSE i]
  BY <1>1 DEF SetActive
<1> QED BY <1>1, <1>2 DEF Whole

(* The texts of a result are texts of its take, or none.                   *)
LEMMA TextFacts ==
  ASSUME NEW r, Whole(r)
  PROVE  /\ ActiveText(r) \in Text /\ PolishedText(r) \in Text /\ r.of \in Session
         /\ PolishedText(r).by = "auto" => PolishedText(r).of = r.of
<1>1. /\ r \in [of : Session, variants : Seq(Text), active : Nat] /\ r.of \in Session
      /\ \A i \in DOMAIN r.variants : r.variants[i] \in Text
      /\ \A i \in DOMAIN r.variants : r.variants[i].by = "auto" => r.variants[i].of = r.of
  <2>1. r.variants \in Seq(Text)
    BY DEF Whole
  <2> QED BY <2>1, ElementOfSeq, LenProperties DEF Whole
<1>2. Raw(r) \in Text /\ NoText \in Text /\ NoText.by = "none"
  BY <1>1, PanelAssumption DEF Raw, NoText, Text, Session
<1>3. ActiveText(r) \in Text
  BY <1>1, <1>2 DEF ActiveText
<1>4. PolishedText(r) = NoText \/ \E i \in DOMAIN r.variants : PolishedText(r) = r.variants[i]
  BY DEF PolishedText
<1> QED BY <1>1, <1>2, <1>3, <1>4

(* A new result shows the take it is of.                                   *)
LEMMA TranscriptWhole ==
  ASSUME NEW g \in Session, NEW c \in BOOLEAN
  PROVE  LET new == FromTranscript(g, c)
         IN  Whole(new) /\ new.of = g /\ ActiveText(new).of = g
<1> DEFINE raw == [of |-> g, variants |-> <<>>, active |-> 0]
           t == [of |-> g, by |-> "clean"]
<1>1. Whole(raw) /\ raw.of = g /\ raw.active = 0 /\ raw.variants = <<>>
  <2>1. <<>> \in Seq(Text) /\ Len(<<>>) = 0 /\ DOMAIN <<>> = {}
    BY EmptySeq
  <2>2. raw \in [of : Session, variants : Seq(Text), active : Nat]
    BY <2>1
  <2>3. \A i \in DOMAIN raw.variants : raw.variants[i].by = "auto" => raw.variants[i].of = raw.of
    BY <2>1
  <2> QED BY <2>1, <2>2, <2>3 DEF Whole
<1>2. ActiveText(raw).of = g
  BY <1>1 DEF ActiveText, Raw
<1>3. t \in Text /\ t.by # "auto" /\ t.of = g
  BY DEF Text
<1>4. FromTranscript(g, c) = IF c THEN PushVariant(raw, t) ELSE raw
  BY DEF FromTranscript
<1> HIDE DEF raw, t
<1>5. Whole(PushVariant(raw, t)) /\ PushVariant(raw, t).of = g
  BY <1>1, <1>3, PushWhole
<1>6. ActiveText(PushVariant(raw, t)).of = g
  <2> DEFINE vs == Append(raw.variants, t)
  <2>1. raw.variants \in Seq(Text) /\ Len(raw.variants) = 0
    BY <1>1, EmptySeq
  <2>2. vs[1] = t /\ 1 \in DOMAIN vs
    BY <1>3, <2>1, AppendProperties, LenProperties
  <2> HIDE DEF vs
  <2>3. PushVariant(raw, t) = [of |-> raw.of, variants |-> vs, active |-> Len(raw.variants) + 1]
    BY <1>1, PushFields DEF vs, Whole
  <2>4. Len(raw.variants) + 1 = 1
    BY <2>1
  <2>5. /\ PushVariant(raw, t).active = 1 /\ PushVariant(raw, t).variants = vs
    BY <2>3, <2>4
  <2> QED BY <1>3, <2>2, <2>5 DEF ActiveText
<1> QED BY <1>1, <1>2, <1>4, <1>5, <1>6

(* What is saved is saved with its take.                                   *)
LEMMA PersistOwn ==
  ASSUME NEW r, Whole(r), EntriesOwn(saved), Persist(r)
  PROVE  EntriesOwn(saved')
<1>1. CASE saved' = saved
  BY <1>1
<1>2. CASE saved' = [saved EXCEPT ![r.of] = PolishedText(r)]
  BY <1>2, TextFacts DEF EntriesOwn
<1> QED BY <1>1, <1>2 DEF Persist

(* What a job is when it begins.                                           *)
LEMMA WaitFacts ==
  ASSUME PanelInv
  PROVE  /\ \A k \in {"take", "edit"}, n \in Session, t \in Text : Wait(k, n, t) \in Decoding
         /\ \A k \in {"auto", "late", "portal", "clipboard", "chip", "editLlm", "selection", "transform"},
               n \in Session, t \in Text : Wait(k, n, t) \in Waiting
         /\ \A k, n, t : /\ Wait(k, n, t).kind = k /\ Wait(k, n, t).gen = generation
                         /\ Wait(k, n, t).n = n /\ Wait(k, n, t).text = t
         /\ NoText \in Text /\ Error \in Text /\ NoText.by = "none"
         /\ 0 \in Session /\ generation \in Session
<1>1. generation \in Session /\ 0 \in Session
  BY PanelAssumption DEF PanelInv, PanelTypeOK, Session
<1>2. NoText \in Text /\ Error \in Text /\ NoText.by = "none"
  BY <1>1 DEF NoText, Error, Text
<1>3. \A k, n, t : /\ Wait(k, n, t).kind = k /\ Wait(k, n, t).gen = generation
                   /\ Wait(k, n, t).n = n /\ Wait(k, n, t).text = t
  BY DEF Wait
<1>4. \A k \in {"take", "edit"}, n \in Session, t \in Text : Wait(k, n, t) \in Decoding
  BY <1>1 DEF Wait, Decoding, Request
<1>5. \A k \in {"auto", "late", "portal", "clipboard", "chip", "editLlm", "selection", "transform"},
         n \in Session, t \in Text : Wait(k, n, t) \in Waiting
  BY <1>1 DEF Wait, Waiting, Request
<1> QED BY <1>1, <1>2, <1>3, <1>4, <1>5

(* What every step starts from.                                            *)
LEMMA PanelFacts ==
  ASSUME PanelInv
  PROVE  /\ decodes \in Seq(Decoding) /\ threads \subseteq Waiting
         /\ owner \in {"None", "Mini", "Main", "VoiceEdit"}
         /\ target \in Text /\ retry \in Session /\ retryShown \in BOOLEAN /\ visible \in BOOLEAN
         /\ PageOK /\ Whole(res) /\ EntriesOwn(saved)
         /\ generation \in Session /\ edits \in Session /\ cancelled \in Session /\ begun \in Session
         /\ generation \in Nat /\ edits \in Nat /\ cancelled \in Nat /\ begun \in Nat
         /\ \A j \in Pending : j.gen \in Nat /\ j.n \in Nat /\ j.gen <= generation
<1>1. /\ decodes \in Seq(Decoding) /\ threads \subseteq Waiting
      /\ owner \in {"None", "Mini", "Main", "VoiceEdit"}
      /\ target \in Text /\ retry \in Session /\ retryShown \in BOOLEAN /\ visible \in BOOLEAN
      /\ PageOK /\ Whole(res) /\ EntriesOwn(saved)
      /\ generation \in Session /\ edits \in Session /\ cancelled \in Session /\ begun \in Session
  BY DEF PanelInv, PanelTypeOK, Decoding, Waiting, PageOK
<1>2. generation \in Nat /\ edits \in Nat /\ cancelled \in Nat /\ begun \in Nat
  BY <1>1, PanelAssumption DEF Session
<1>3. JobsOf(decodes) \subseteq Decoding
  BY <1>1, ElementOfSeq, LenProperties DEF JobsOf
<1>4. \A j \in Pending : j.gen \in Session /\ j.n \in Session
  BY <1>1, <1>3 DEF Pending, Decoding, Waiting, Request
<1>5. \A j \in Pending : j.gen \in Nat /\ j.n \in Nat
  BY <1>4, PanelAssumption DEF Session
<1> QED BY <1>1, <1>2, <1>5 DEF PanelInv, JobsPast

(* A step by an act of the user; and one that is none.                     *)
LEMMA ActCounts ==
  ASSUME PanelInv, Act, generation' \in {generation, generation + 1}, edits' = edits,
         cancelled' \in {cancelled, edits}
  PROVE  /\ ActsCount' /\ begun' \in Session /\ generation' \in Session /\ edits' \in Session
         /\ cancelled' \in Session
<1>1. /\ generation \in Nat /\ edits \in Nat /\ cancelled \in Nat /\ begun \in Nat
      /\ edits \in Session /\ cancelled \in Session
      /\ generation <= begun /\ cancelled <= edits
      /\ edits <= begun /\ begun < MaxBegun /\ begun' = begun + 1 /\ MaxBegun \in Nat
  <2>1. edits <= begun
    BY PanelFacts DEF PanelInv, ActsCount
  <2> QED BY <2>1, PanelAssumption, PanelFacts DEF PanelInv, ActsCount, Act
<1>2. begun' \in Session /\ generation' \in Session /\ generation' <= begun'
  BY <1>1 DEF Session
<1>3. cancelled' <= edits' /\ cancelled' \in Session /\ edits' \in Session
  BY <1>1
<1>4. edits' + (IF owner' = "VoiceEdit" THEN 1 ELSE 0) <= begun'
  BY <1>1
<1> QED BY <1>2, <1>3, <1>4 DEF ActsCount

LEMMA QuietCounts ==
  ASSUME PanelInv, UNCHANGED <<generation, edits, cancelled, begun>>,
         owner' = "VoiceEdit" => owner = "VoiceEdit"
  PROVE  /\ ActsCount' /\ begun' \in Session /\ generation' \in Session /\ edits' \in Session
         /\ cancelled' \in Session
<1>1. ActsCount'
  BY PanelFacts DEF PanelInv, ActsCount
<1> QED BY <1>1, PanelFacts

(* A step in a session, or into a new one, that begins these jobs at most. *)
LEMMA PanelMoves ==
  ASSUME PanelInv,
         ActsCount', begun' \in Session, generation' \in Session, edits' \in Session, cancelled' \in Session,
         owner' \in {"None", "Mini", "Main", "VoiceEdit"},
         decodes' \in Seq(Decoding), threads' \subseteq Waiting,
         target' \in Text, retry' \in Session, retryShown' \in BOOLEAN, visible' \in BOOLEAN, PageOK',
         Whole(res'), EntriesOwn(saved'),
         edits <= edits',
         \/ generation' = generation + 1
         \/ generation' = generation /\ cancelled' = cancelled /\ res'.of \in {res.of, generation},
         \A j \in Pending' : j \in Pending \/ j.gen = generation',
         \A j \in threads' \ threads : j.kind \in {"auto", "late"} => j.text.of = generation' /\ res'.of = generation',
         \A j \in Pending' \ Pending : j.kind \in {"edit", "editLlm"} => j.n <= edits' /\ ~(j.n <= cancelled')
  PROVE  PanelInv'
<1>1. PanelTypeOK'
  BY DEF PanelTypeOK, Whole, EntriesOwn, PageOK, Decoding, Waiting
<1>2. /\ \A j \in Pending : j.gen <= generation' /\ j.gen \in Nat /\ j.n \in Nat
      /\ generation' \in Nat /\ edits \in Nat /\ edits' \in Nat
  <2>1. generation' \in Nat /\ edits' \in Nat
    BY PanelAssumption DEF Session
  <2> QED BY <2>1, PanelFacts
<1>3. JobsPast'
  BY <1>2 DEF JobsPast
<1>4. generation' # generation => \A j \in Pending : j.gen # generation'
  BY PanelFacts
<1>5. ImprovesItsTake'
  <2> SUFFICES ASSUME NEW j \in threads', j.kind \in {"auto", "late"}
               PROVE  j.text.of = j.gen /\ (j.gen = generation' => res'.of = generation')
    BY DEF ImprovesItsTake
  <2>1. CASE j \in threads
    <3>1. j.text.of = j.gen /\ (j.gen = generation => res.of = generation) /\ j \in Pending
      BY <2>1 DEF PanelInv, ImprovesItsTake, Pending
    <3>2. CASE generation' = generation
      <4>1. res'.of \in {res.of, generation}
        BY <3>2, PanelFacts
      <4> QED BY <3>1, <3>2, <4>1
    <3>3. CASE generation' # generation
      BY <1>4, <3>1, <3>3
    <3> QED BY <3>2, <3>3
  <2>2. CASE j \notin threads
    <3>1. j.text.of = generation' /\ res'.of = generation'
      BY <2>2
    <3>2. j.gen = generation'
      <4>1. j \in Pending' /\ j \notin JobsOf(decodes)
        <5>1. JobsOf(decodes) \subseteq Decoding
          BY PanelFacts, ElementOfSeq, LenProperties DEF JobsOf
        <5> QED BY <5>1 DEF Pending, Decoding, Request
      <4>2. j \notin Pending
        BY <2>2, <4>1 DEF Pending
      <4> QED BY <4>1, <4>2
    <3> QED BY <3>1, <3>2
  <2> QED BY <2>1, <2>2
<1>6. CancelledIsStale'
  <2> SUFFICES ASSUME NEW j \in Pending', j.kind \in {"edit", "editLlm"}
               PROVE  j.n <= edits' /\ (j.n <= cancelled' => j.gen # generation')
    BY DEF CancelledIsStale
  <2>1. CASE j \in Pending
    <3>1. j.n <= edits /\ (j.n <= cancelled => j.gen # generation)
      BY <2>1 DEF PanelInv, CancelledIsStale
    <3>2. j.n <= edits'
      BY <1>2, <2>1, <3>1
    <3>3. CASE generation' = generation
      <4>1. cancelled' = cancelled
        BY <3>3, PanelFacts
      <4> QED BY <3>1, <3>2, <3>3, <4>1
    <3>4. CASE generation' # generation
      BY <1>4, <2>1, <3>2, <3>4
    <3> QED BY <3>3, <3>4
  <2>2. CASE j \notin Pending
    BY <2>2
  <2> QED BY <2>1, <2>2
<1> QED BY <1>1, <1>3, <1>5, <1>6 DEF PanelInv

(* What the panel shows stays something it can show.                       *)
LEMMA PageFacts ==
  ASSUME PanelInv
  PROVE  /\ UNCHANGED <<page, shown, extras, chipsOn>> => PageOK'
         /\ ShowRecording => PageOK' /\ retryShown' = retryShown
         /\ ShowTranscribing => PageOK'
         /\ \A b \in BOOLEAN : ShowError(b) => PageOK' /\ retryShown' = b
         /\ \A t \in Text : ShowResult(t) /\ RenderExtras => PageOK'
         /\ \A t \in Text : ShowResult(t) /\ UNCHANGED <<extras, chipsOn>> => PageOK'
         /\ \A r : Whole(r) /\ ShowActive(r) => PageOK' /\ retryShown' = FALSE
<1>1. PageOK /\ Error \in Text
  BY PanelFacts, WaitFacts
<1>2. /\ UNCHANGED <<page, shown, extras, chipsOn>> => PageOK'
      /\ ShowRecording => PageOK' /\ retryShown' = retryShown
      /\ ShowTranscribing => PageOK'
  BY <1>1 DEF PageOK, ShowRecording, ShowTranscribing
<1>3. \A b \in BOOLEAN : ShowError(b) => PageOK' /\ retryShown' = b
  BY <1>1 DEF PageOK, ShowError
<1>4. /\ \A t \in Text : ShowResult(t) /\ RenderExtras => PageOK'
      /\ \A t \in Text : ShowResult(t) /\ UNCHANGED <<extras, chipsOn>> => PageOK'
  BY <1>1 DEF PageOK, ShowResult, RenderExtras
<1>5. \A r : Whole(r) /\ ShowActive(r) => PageOK' /\ retryShown' = FALSE
  <2> SUFFICES ASSUME NEW r, Whole(r), ShowActive(r) PROVE PageOK' /\ retryShown' = FALSE
    OBVIOUS
  <2>1. ActiveText(r) \in Text
    BY TextFacts
  <2> QED BY <1>4, <2>1 DEF ShowActive
<1> QED BY <1>2, <1>3, <1>4, <1>5

LEMMA PanelInitHolds == PanelInit => PanelInv
<1> SUFFICES ASSUME PanelInit PROVE PanelInv
  OBVIOUS
<1>1. 0 \in Session /\ NoText \in Text /\ NoText.by = "none"
  BY PanelAssumption DEF Session, NoText, Text
<1>2. Pending = {} /\ decodes \in Seq(Request({"take", "edit"})) /\ threads = {}
  BY DEF Pending, JobsOf, PanelInit
<1>3. Whole(res)
  <2>1. <<>> \in Seq(Text) /\ Len(<<>>) = 0 /\ DOMAIN <<>> = {}
    BY EmptySeq
  <2> QED BY <1>1, <2>1 DEF PanelInit, Whole
<1>4. EntriesOwn(saved)
  BY <1>1 DEF PanelInit, EntriesOwn
<1>5. PanelTypeOK
  BY <1>1, <1>2, <1>3, <1>4 DEF PanelInit, PanelTypeOK, Whole, EntriesOwn
<1>6. ActsCount
  BY DEF PanelInit, ActsCount
<1>7. JobsPast /\ ImprovesItsTake /\ CancelledIsStale
  BY <1>2 DEF JobsPast, ImprovesItsTake, CancelledIsStale
<1> QED BY <1>3, <1>4, <1>5, <1>6, <1>7 DEF PanelInv

(* The shape of the panel's state but for its counts.                      *)
Shapes ==
  /\ owner \in {"None", "Mini", "Main", "VoiceEdit"}
  /\ decodes \in Seq(Decoding) /\ threads \subseteq Waiting
  /\ target \in Text /\ retry \in Session /\ retryShown \in BOOLEAN /\ visible \in BOOLEAN
  /\ PageOK /\ Whole(res) /\ EntriesOwn(saved)

(* What begins is of the session, an improvement of its take, and an edit  *)
(* one that was not cancelled.                                             *)
LEMMA QuietMoves ==
  ASSUME PanelInv, Shapes', UNCHANGED <<generation, edits, cancelled, begun>>,
         owner' = "VoiceEdit" => owner = "VoiceEdit",
         res'.of \in {res.of, generation},
         \A j \in Pending' : j \in Pending \/ j.gen = generation,
         \A j \in threads' \ threads : j.kind \in {"auto", "late"} => j.text.of = generation /\ res'.of = generation,
         \A j \in Pending' \ Pending : j.kind \in {"edit", "editLlm"} => j.n <= edits /\ ~(j.n <= cancelled)
  PROVE  PanelInv'
<1>1. /\ ActsCount' /\ begun' \in Session /\ generation' \in Session /\ edits' \in Session
      /\ cancelled' \in Session
  BY QuietCounts
<1>2. /\ edits <= edits'
      /\ \/ generation' = generation + 1
         \/ generation' = generation /\ cancelled' = cancelled /\ res'.of \in {res.of, generation}
      /\ \A j \in Pending' : j \in Pending \/ j.gen = generation'
      /\ \A j \in threads' \ threads :
           j.kind \in {"auto", "late"} => j.text.of = generation' /\ res'.of = generation'
      /\ \A j \in Pending' \ Pending :
           j.kind \in {"edit", "editLlm"} => j.n <= edits' /\ ~(j.n <= cancelled')
  BY PanelFacts
<1> QED BY <1>1, <1>2, PanelMoves DEF Shapes

(* An act of the user, in the session or beginning one, that begins no     *)
(* edit and no improvement.                                                *)
LEMMA ActMoves ==
  ASSUME PanelInv, Shapes', Act, generation' \in {generation, generation + 1}, edits' = edits,
         generation' = generation => cancelled' = cancelled /\ res'.of = res.of,
         cancelled' \in {cancelled, edits},
         \A j \in Pending' : \/ j \in Pending
                             \/ /\ j.gen = generation'
                                /\ j.kind \notin {"auto", "late", "edit", "editLlm"}
  PROVE  PanelInv'
<1>1. /\ ActsCount' /\ begun' \in Session /\ generation' \in Session /\ edits' \in Session
      /\ cancelled' \in Session
  BY ActCounts
<1>2. \A j \in threads' \ threads : j.kind \notin {"auto", "late"}
  <2> SUFFICES ASSUME NEW j \in threads', j \notin threads PROVE j.kind \notin {"auto", "late"}
    OBVIOUS
  <2>1. JobsOf(decodes) \subseteq Decoding
    BY PanelFacts, ElementOfSeq, LenProperties DEF JobsOf
  <2>2. CASE j \in JobsOf(decodes)
    BY <2>1, <2>2 DEF Decoding, Request
  <2>3. CASE j \notin Pending
    BY <2>3 DEF Pending
  <2> QED BY <2>2, <2>3 DEF Pending
<1>3. /\ edits <= edits'
      /\ \/ generation' = generation + 1
         \/ generation' = generation /\ cancelled' = cancelled /\ res'.of \in {res.of, generation}
      /\ \A j \in Pending' : j \in Pending \/ j.gen = generation'
      /\ \A j \in threads' \ threads :
           j.kind \in {"auto", "late"} => j.text.of = generation' /\ res'.of = generation'
      /\ \A j \in Pending' \ Pending :
           j.kind \in {"edit", "editLlm"} => j.n <= edits' /\ ~(j.n <= cancelled')
  BY <1>2, PanelFacts
<1> QED BY <1>1, <1>3, PanelMoves DEF Shapes

(* The acts of the user.                                                   *)
LEMMA StartTakePreserves == ASSUME PanelInv, StartTake PROVE PanelInv'
<1>1. Act /\ generation' = generation + 1 /\ UNCHANGED <<decodes, threads, res, target, saved, edits, cancelled>>
  BY DEF StartTake, work, result, counts
<1>2. PageOK' /\ retryShown' \in BOOLEAN
  <2>1. CASE ShowRecording
    BY <2>1, PageFacts, PanelFacts
  <2>2. CASE ShowError(FALSE)
    BY <2>2, PageFacts
  <2> QED BY <2>1, <2>2 DEF StartTake
<1>3. retry' \in Session /\ visible' \in BOOLEAN /\ owner' \in {"None", "Mini", "Main", "VoiceEdit"}
  BY WaitFacts DEF StartTake
<1>4. Shapes'
  BY <1>1, <1>2, <1>3, PanelFacts DEF Shapes
<1>5. Pending' = Pending
  BY <1>1 DEF Pending
<1> QED BY <1>1, <1>4, <1>5, ActMoves

LEMMA StopTakePreserves == ASSUME PanelInv, StopTake PROVE PanelInv'
<1> DEFINE j == Wait("take", 0, NoText)
<1>1. /\ owner' = "None" /\ retry' = generation /\ retryShown' = FALSE /\ ShowTranscribing
      /\ decodes' = Append(decodes, j)
      /\ UNCHANGED <<generation, threads, res, target, saved, visible, edits, cancelled, begun>>
  BY DEF StopTake, result, counts
<1>2. j \in Decoding /\ j.kind = "take" /\ j.gen = generation
  BY WaitFacts
<1> HIDE DEF j
<1>3. decodes' \in Seq(Decoding) /\ JobsOf(decodes') = JobsOf(decodes) \cup {j}
  BY <1>1, <1>2, JobAdded, PanelFacts
<1>4. PageOK' /\ visible' \in BOOLEAN /\ retryShown' \in BOOLEAN
  BY <1>1, PageFacts, PanelFacts
<1>5. Shapes'
  BY <1>1, <1>3, <1>4, PanelFacts DEF Shapes
<1>6. Pending' = Pending \cup {j} /\ threads' = threads
  BY <1>1, <1>3 DEF Pending
<1> QED BY <1>1, <1>2, <1>5, <1>6, QuietMoves

LEMMA RetryTakePreserves == ASSUME PanelInv, RetryTake PROVE PanelInv'
<1> DEFINE j == [Wait("take", 0, NoText) EXCEPT !.gen = generation + 1]
<1>1. /\ Act /\ generation' = generation + 1 /\ retryShown' = FALSE /\ ShowTranscribing
      /\ decodes' = Append(decodes, j)
      /\ UNCHANGED <<owner, threads, res, target, saved, retry, visible, edits, cancelled>>
  BY DEF RetryTake, result, counts
<1>2. generation + 1 \in Session
  BY <1>1, ActCounts
<1>3. j \in Decoding /\ j.kind = "take" /\ j.gen = generation'
  BY <1>1, <1>2, WaitFacts DEF Decoding, Request
<1> HIDE DEF j
<1>4. decodes' \in Seq(Decoding) /\ JobsOf(decodes') = JobsOf(decodes) \cup {j}
  BY <1>1, <1>3, JobAdded, PanelFacts
<1>5. PageOK' /\ visible' \in BOOLEAN /\ retryShown' \in BOOLEAN
  BY <1>1, PageFacts, PanelFacts
<1>6. Shapes'
  BY <1>1, <1>4, <1>5, PanelFacts DEF Shapes
<1>7. Pending' = Pending \cup {j}
  BY <1>1, <1>4 DEF Pending
<1> QED BY <1>1, <1>3, <1>6, <1>7, ActMoves

LEMMA CancelTakePreserves == ASSUME PanelInv, CancelTake PROVE PanelInv'
<1>1. /\ Act /\ generation' = generation + 1 /\ cancelled' = edits /\ retry' = 0 /\ visible' = FALSE
      /\ owner' \in {owner, "None"}
      /\ UNCHANGED <<decodes, threads, res, target, saved, page, shown, extras, chipsOn, edits>>
  BY DEF CancelTake, work, result
<1>2. retryShown' = retryShown
  BY DEF CancelTake
<1>3. PageOK' /\ visible' \in BOOLEAN /\ retryShown' \in BOOLEAN
  BY <1>1, <1>2, PageFacts, PanelFacts
<1>4. Shapes'
  BY <1>1, <1>3, PanelFacts, WaitFacts DEF Shapes
<1>5. Pending' = Pending
  BY <1>1 DEF Pending
<1> QED BY <1>1, <1>4, <1>5, ActMoves

LEMMA ClosePanelPreserves == ASSUME PanelInv, ClosePanel PROVE PanelInv'
<1>1. /\ retry' = 0 /\ visible' = FALSE
      /\ UNCHANGED <<owner, generation, decodes, threads, res, target, saved, page, shown, extras,
                     chipsOn, edits, cancelled, begun>>
  BY DEF ClosePanel, work, result, counts
<1>2. retryShown' = retryShown
  BY DEF ClosePanel
<1>3. PageOK' /\ visible' \in BOOLEAN /\ retryShown' \in BOOLEAN
  BY <1>1, <1>2, PageFacts, PanelFacts
<1>4. Shapes'
  BY <1>1, <1>3, PanelFacts, WaitFacts DEF Shapes
<1>5. Pending' = Pending
  BY <1>1 DEF Pending
<1> QED BY <1>1, <1>4, <1>5, QuietMoves

LEMMA ChipPreserves == ASSUME PanelInv, Chip PROVE PanelInv'
<1> DEFINE j == Wait("chip", 0, ActiveText(res))
<1>1. /\ Act /\ chipsOn' = FALSE /\ threads' = threads \cup {j}
      /\ UNCHANGED <<owner, generation, decodes, res, target, saved, retry, page, shown, extras, edits, cancelled>>
  BY DEF Chip, result, counts
<1>2. j \in Waiting /\ j.kind = "chip" /\ j.gen = generation
  BY WaitFacts, TextFacts, PanelFacts
<1> HIDE DEF j
<1>3. PageOK'
  BY <1>1, PanelFacts DEF PageOK
<1>4. retryShown' = retryShown /\ visible' = visible
  BY DEF Chip
<1>5. visible' \in BOOLEAN /\ retryShown' \in BOOLEAN
  BY <1>4, PanelFacts
<1>6. Shapes'
  BY <1>1, <1>2, <1>3, <1>5, PanelFacts DEF Shapes
<1>7. Pending' = Pending \cup {j}
  BY <1>1 DEF Pending
<1> QED BY <1>1, <1>2, <1>6, <1>7, ActMoves

LEMMA ChooseVariantPreserves == ASSUME PanelInv, ChooseVariant PROVE PanelInv'
<1>1. PICK i \in 0 .. Len(res.variants) + 1 : res' = SetActive(res, i) /\ ShowActive(res')
  BY DEF ChooseVariant
<1>2. i \in Nat
  <2>1. Len(res.variants) \in Nat
    BY PanelFacts, LenProperties DEF Whole
  <2> QED BY <1>1, <2>1
<1>3. Whole(res') /\ res'.of = res.of
  BY <1>1, <1>2, SetActiveWhole, PanelFacts
<1>4. UNCHANGED <<owner, generation, decodes, threads, target, saved, retry, edits, cancelled, begun>>
  BY DEF ChooseVariant, work, counts
<1>5. visible' = visible
  BY DEF ChooseVariant
<1>6. PageOK' /\ visible' \in BOOLEAN /\ retryShown' \in BOOLEAN
  BY <1>1, <1>3, <1>5, PageFacts, PanelFacts
<1>7. Shapes'
  BY <1>3, <1>4, <1>6, PanelFacts DEF Shapes
<1>8. Pending' = Pending /\ threads' = threads
  BY <1>4 DEF Pending
<1> QED BY <1>3, <1>4, <1>7, <1>8, QuietMoves

LEMMA StartVoiceEditPreserves == ASSUME PanelInv, StartVoiceEdit PROVE PanelInv'
<1>1. Act /\ UNCHANGED <<generation, decodes, threads, res, saved, retry, edits, cancelled>>
  BY DEF StartVoiceEdit, work, counts
<1>2. PageOK' /\ retryShown' \in BOOLEAN
  <2>1. CASE ShowRecording
    BY <2>1, PageFacts, PanelFacts
  <2>2. CASE ShowError(FALSE)
    BY <2>2, PageFacts
  <2> QED BY <2>1, <2>2 DEF StartVoiceEdit
<1>3. visible' \in BOOLEAN /\ target' \in Text /\ owner' \in {"None", "Mini", "Main", "VoiceEdit"}
  <2>1. ActiveText(res) \in Text /\ NoText \in Text
    BY WaitFacts, TextFacts, PanelFacts
  <2> QED BY <2>1 DEF StartVoiceEdit
<1>4. Shapes'
  BY <1>1, <1>2, <1>3, PanelFacts DEF Shapes
<1>5. Pending' = Pending
  BY <1>1 DEF Pending
<1> QED BY <1>1, <1>4, <1>5, ActMoves

LEMMA StopVoiceEditPreserves == ASSUME PanelInv, StopVoiceEdit PROVE PanelInv'
<1> DEFINE j == Wait("edit", edits + 1, NoText)
<1>1. /\ owner = "VoiceEdit" /\ owner' = "None"
      /\ UNCHANGED <<generation, threads, res, target, saved, retry, cancelled, begun>>
  BY DEF StopVoiceEdit, result
<1>2. visible' = visible
  BY DEF StopVoiceEdit
<1>3. CASE /\ ShowTranscribing /\ UNCHANGED retryShown
           /\ decodes' = Append(decodes, j) /\ edits' = edits + 1
  <2>1. /\ edits \in Nat /\ cancelled \in Nat /\ begun \in Nat /\ generation \in Nat
        /\ edits + 1 <= begun /\ cancelled <= edits /\ generation <= begun
        /\ begun \in Session /\ generation \in Session /\ cancelled \in Session
    BY <1>1, PanelFacts DEF PanelInv, ActsCount
  <2>2. edits + 1 \in Session
    BY <2>1, PanelAssumption DEF Session
  <2>3. /\ ActsCount' /\ begun' \in Session /\ generation' \in Session /\ edits' \in Session
        /\ cancelled' \in Session
    BY <1>1, <1>3, <2>1, <2>2 DEF ActsCount
  <2>4. j \in Decoding /\ j.kind = "edit" /\ j.gen = generation /\ j.n = edits + 1
    BY <2>2, WaitFacts
  <2> HIDE DEF j
  <2>5. decodes' \in Seq(Decoding) /\ JobsOf(decodes') = JobsOf(decodes) \cup {j}
    BY <1>3, <2>4, JobAdded, PanelFacts
  <2>6. PageOK' /\ visible' \in BOOLEAN /\ retryShown' \in BOOLEAN
    BY <1>2, <1>3, PageFacts, PanelFacts
  <2>7. Shapes'
    BY <1>1, <2>5, <2>6, PanelFacts DEF Shapes
  <2>8. Pending' = Pending \cup {j}
    BY <1>1, <2>5 DEF Pending
  <2>9. /\ edits <= edits'
        /\ generation' = generation /\ cancelled' = cancelled /\ res'.of \in {res.of, generation}
        /\ \A k \in Pending' : k \in Pending \/ k.gen = generation'
        /\ \A k \in threads' \ threads :
             k.kind \in {"auto", "late"} => k.text.of = generation' /\ res'.of = generation'
    BY <1>1, <1>3, <2>1, <2>4, <2>8
  <2>10. \A k \in Pending' \ Pending :
           k.kind \in {"edit", "editLlm"} => k.n <= edits' /\ ~(k.n <= cancelled')
    BY <1>1, <1>3, <2>1, <2>4, <2>8
  <2> QED BY <2>3, <2>7, <2>9, <2>10, PanelMoves DEF Shapes
<1>4. CASE ShowActive(res) /\ UNCHANGED <<decodes, edits>>
  <2>1. PageOK' /\ visible' \in BOOLEAN /\ retryShown' \in BOOLEAN
    BY <1>2, <1>4, PageFacts, PanelFacts
  <2>2. Shapes'
    BY <1>1, <1>4, <2>1, PanelFacts DEF Shapes
  <2>3. Pending' = Pending
    BY <1>1, <1>4 DEF Pending
  <2> QED BY <1>1, <1>4, <2>2, <2>3, QuietMoves
<1> QED BY <1>3, <1>4 DEF StopVoiceEdit

LEMMA CancelVoiceEditPreserves == ASSUME PanelInv, CancelVoiceEdit PROVE PanelInv'
<1>1. /\ Act /\ generation' = generation + 1 /\ owner' = "None" /\ target' = NoText
      /\ cancelled' = edits /\ ShowActive(res)
      /\ UNCHANGED <<decodes, threads, res, saved, retry, edits>>
  BY DEF CancelVoiceEdit, work
<1>2. visible' = visible
  BY DEF CancelVoiceEdit
<1>3. PageOK' /\ visible' \in BOOLEAN /\ retryShown' \in BOOLEAN
  BY <1>1, <1>2, PageFacts, PanelFacts
<1>4. Shapes'
  BY <1>1, <1>3, PanelFacts, WaitFacts DEF Shapes
<1>5. Pending' = Pending
  BY <1>1 DEF Pending
<1> QED BY <1>1, <1>4, <1>5, ActMoves

LEMMA TransformSelectionPreserves == ASSUME PanelInv, TransformSelection PROVE PanelInv'
<1> DEFINE j == Wait("selection", 0, NoText)
<1>1. /\ Act /\ threads' = threads \cup {j}
      /\ UNCHANGED <<owner, generation, decodes, res, target, saved, retry, page, shown, extras, chipsOn,
                     edits, cancelled>>
  BY DEF TransformSelection, result, counts, screen
<1>2. j \in Waiting /\ j.kind = "selection" /\ j.gen = generation
  BY WaitFacts
<1> HIDE DEF j
<1>3. retryShown' = retryShown /\ visible' = visible
  BY DEF TransformSelection, screen
<1>4. PageOK' /\ visible' \in BOOLEAN /\ retryShown' \in BOOLEAN
  BY <1>1, <1>3, PageFacts, PanelFacts
<1>5. Shapes'
  BY <1>1, <1>2, <1>4, PanelFacts DEF Shapes
<1>6. Pending' = Pending \cup {j}
  BY <1>1 DEF Pending
<1> QED BY <1>1, <1>2, <1>5, <1>6, ActMoves

(* The window's use of the microphone, which changes only its owner.       *)
LEMMA WindowPreserves == ASSUME PanelInv, WindowRecords \/ WindowEnds PROVE PanelInv'
<1>1. /\ owner' \in {"None", "Main", "VoiceEdit"}
      /\ UNCHANGED <<generation, decodes, threads, res, target, saved, retry, page, shown, extras,
                     chipsOn, edits, cancelled>>
  BY DEF WindowRecords, WindowEnds, work, result, counts, screen
<1>2. retryShown' = retryShown /\ visible' = visible
  BY DEF WindowRecords, WindowEnds, screen
<1>3. PageOK' /\ visible' \in BOOLEAN /\ retryShown' \in BOOLEAN
  BY <1>1, <1>2, PageFacts, PanelFacts
<1>4. Shapes'
  BY <1>1, <1>3, PanelFacts DEF Shapes
<1>5. Pending' = Pending /\ threads' = threads
  BY <1>1 DEF Pending
<1>6. CASE WindowRecords
  <2>1. Act
    BY <1>6 DEF WindowRecords
  <2> QED BY <1>1, <1>4, <1>5, <2>1, ActMoves
<1>7. CASE WindowEnds
  <2>1. owner' = "None" /\ begun' = begun
    BY <1>7 DEF WindowEnds
  <2> QED BY <1>1, <1>4, <1>5, <2>1, QuietMoves
<1> QED BY <1>6, <1>7

(* The answers.                                                            *)
LEMMA AnswerText ==
  ASSUME PanelInv, NEW j \in threads, NEW b \in {"auto", "chip", "edit"}
  PROVE  LET t == [j.text EXCEPT !.by = b]
         IN  t \in Text /\ t.of = j.text.of /\ t.by = b
<1>1. j.text \in Text
  BY PanelFacts DEF Waiting, Request
<1> QED BY <1>1 DEF Text

(* The decode that is answered.                                            *)
LEMMA DecodeTaken ==
  ASSUME PanelInv, decodes # <<>>, decodes' = Tail(decodes)
  PROVE  /\ decodes' \in Seq(Decoding) /\ JobsOf(decodes') \subseteq JobsOf(decodes)
         /\ Head(decodes) \in Decoding /\ Head(decodes) \in Pending
         /\ Head(decodes).gen \in Session /\ Head(decodes).n \in Session
<1>1. /\ decodes' \in Seq(Decoding) /\ JobsOf(decodes') \subseteq JobsOf(decodes)
      /\ Head(decodes) \in Decoding /\ Head(decodes) \in Pending
  BY JobTaken, PanelFacts DEF Pending
<1> QED BY <1>1 DEF Decoding, Request

(* A take is heard; so is a spoken instruction.                            *)
LEMMA TakeAnswerPreserves == ASSUME PanelInv, TakeAnswer PROVE PanelInv'
<1> DEFINE j == Head(decodes)
<1>1. /\ decodes # <<>> /\ decodes' = Tail(decodes)
      /\ UNCHANGED <<owner, generation, target, edits, cancelled, begun>>
  BY DEF TakeAnswer, counts
<1>2. visible' = visible
  BY DEF TakeAnswer
<1>3. decodes' \in Seq(Decoding) /\ JobsOf(decodes') \subseteq JobsOf(decodes) /\ j.gen \in Session
  BY <1>1, DecodeTaken
<1>4. visible' \in BOOLEAN /\ retryShown \in BOOLEAN
  BY <1>2, PanelFacts
<1>5. ASSUME Whole(res'), EntriesOwn(saved'), PageOK', retryShown' \in BOOLEAN, retry' \in Session,
             res'.of \in {res.of, generation},
             \A k \in threads' : \/ k \in threads
                                 \/ /\ k \in Waiting /\ k.gen = generation
                                    /\ k.kind = "auto" => k.text.of = generation /\ res'.of = generation
                                    /\ k.kind \in {"auto", "portal"}
      PROVE  PanelInv'
  <2>1. Shapes'
    BY <1>1, <1>3, <1>4, <1>5, PanelFacts DEF Shapes
  <2>2. \A k \in Pending' : k \in Pending \/ (k \in threads' /\ k \notin threads)
    BY <1>3 DEF Pending
  <2>3. /\ \A k \in Pending' : k \in Pending \/ k.gen = generation
        /\ \A k \in threads' \ threads :
             k.kind \in {"auto", "late"} => k.text.of = generation /\ res'.of = generation
        /\ \A k \in Pending' \ Pending : k.kind \in {"edit", "editLlm"} => k.n <= edits /\ ~(k.n <= cancelled)
    BY <1>5, <2>2
  <2> QED BY <1>1, <1>5, <2>1, <2>3, QuietMoves
<1>6. CASE UNCHANGED <<threads, res, saved, retry, page, shown, extras, chipsOn, retryShown>>
  <2>1. PageOK' /\ retryShown' \in BOOLEAN
    BY <1>4, <1>6, PageFacts
  <2> QED BY <1>5, <1>6, <2>1, PanelFacts
<1>7. ASSUME NEW failed \in BOOLEAN, ShowError(failed), retry' = (IF failed THEN retry ELSE 0),
             UNCHANGED <<threads, res, saved>>
      PROVE  PanelInv'
  <2>1. PageOK' /\ retryShown' \in BOOLEAN
    BY <1>7, PageFacts
  <2>2. retry' \in Session
    BY <1>7, PanelFacts, WaitFacts
  <2> QED BY <1>5, <1>7, <2>1, <2>2, PanelFacts
<1>8. ASSUME NEW cleaned \in BOOLEAN, ~Stale(j), res' = FromTranscript(j.gen, cleaned),
             \/ RefreshActive(res') /\ retry' = 0 /\ UNCHANGED threads
             \/ /\ ShowResult(ActiveText(res')) /\ retryShown' = TRUE
                /\ UNCHANGED <<threads, saved, retry, extras, chipsOn>>
             \/ /\ ShowTranscribing /\ retry' = 0
                /\ threads' = threads \cup {Wait("auto", 0, ActiveText(res'))}
                /\ UNCHANGED <<saved, retryShown>>
             \/ /\ Persist(res') /\ threads' = threads \cup {Wait("portal", 0, ActiveText(res'))}
                /\ retry' = 0 /\ UNCHANGED <<page, shown, extras, chipsOn, retryShown>>
      PROVE  PanelInv'
  <2>1. j.gen = generation
    BY <1>8 DEF Stale
  <2>2. Whole(res') /\ res'.of = generation /\ ActiveText(res').of = generation
    BY <1>3, <1>8, <2>1, TranscriptWhole
  <2>3. ActiveText(res') \in Text
    BY <2>2, TextFacts
  <2>4. CASE RefreshActive(res') /\ retry' = 0 /\ UNCHANGED threads
    <3>1. EntriesOwn(saved')
      BY <2>2, <2>4, PersistOwn, PanelFacts DEF RefreshActive
    <3>2. PageOK' /\ retryShown' \in BOOLEAN
      BY <2>2, <2>4, PageFacts DEF RefreshActive
    <3> QED BY <1>5, <2>2, <2>4, <3>1, <3>2, WaitFacts
  <2>5. CASE /\ ShowResult(ActiveText(res')) /\ retryShown' = TRUE
             /\ UNCHANGED <<threads, saved, retry, extras, chipsOn>>
    <3>1. PageOK' /\ retryShown' \in BOOLEAN
      BY <2>3, <2>5, PageFacts
    <3> QED BY <1>5, <2>2, <2>5, <3>1, PanelFacts
  <2>6. CASE /\ ShowTranscribing /\ retry' = 0
             /\ threads' = threads \cup {Wait("auto", 0, ActiveText(res'))}
             /\ UNCHANGED <<saved, retryShown>>
    <3>1. PageOK' /\ retryShown' \in BOOLEAN
      BY <1>4, <2>6, PageFacts
    <3> DEFINE w == Wait("auto", 0, ActiveText(res'))
    <3>2. w \in Waiting /\ w.kind = "auto" /\ w.gen = generation /\ w.text.of = generation
      BY <2>2, <2>3, WaitFacts
    <3> HIDE DEF w
    <3>3. \A k \in threads' : k \in threads \/ k = w
      BY <2>6 DEF w
    <3> QED BY <1>5, <2>2, <2>6, <3>1, <3>2, <3>3, PanelFacts, WaitFacts
  <2>7. CASE /\ Persist(res') /\ threads' = threads \cup {Wait("portal", 0, ActiveText(res'))}
             /\ retry' = 0 /\ UNCHANGED <<page, shown, extras, chipsOn, retryShown>>
    <3>1. PageOK' /\ retryShown' \in BOOLEAN
      BY <1>4, <2>7, PageFacts
    <3> DEFINE w == Wait("portal", 0, ActiveText(res'))
    <3>2. w \in Waiting /\ w.kind = "portal" /\ w.gen = generation
      BY <2>3, WaitFacts
    <3> HIDE DEF w
    <3>3. \A k \in threads' : k \in threads \/ k = w
      BY <2>7 DEF w
    <3>4. EntriesOwn(saved')
      BY <2>2, <2>7, PersistOwn, PanelFacts
    <3> QED BY <1>5, <2>2, <2>7, <3>1, <3>2, <3>3, <3>4, WaitFacts
  <2> QED BY <1>8, <2>4, <2>5, <2>6, <2>7
<1> QED BY <1>6, <1>7, <1>8 DEF TakeAnswer, Deliver

LEMMA EditHeardPreserves == ASSUME PanelInv, EditHeard PROVE PanelInv'
<1> DEFINE j == Head(decodes)
<1>1. /\ decodes # <<>> /\ decodes' = Tail(decodes) /\ j.kind = "edit"
      /\ UNCHANGED <<owner, generation, res, saved, retry, edits, cancelled, begun>>
  BY DEF EditHeard, counts
<1>2. visible' = visible
  BY DEF EditHeard
<1>3. /\ decodes' \in Seq(Decoding) /\ JobsOf(decodes') \subseteq JobsOf(decodes)
      /\ j \in Pending /\ j.n \in Session
  BY <1>1, DecodeTaken
<1>4. visible' \in BOOLEAN /\ retryShown \in BOOLEAN
  BY <1>2, PanelFacts
<1>5. ASSUME PageOK', retryShown' \in BOOLEAN, target' \in Text,
             \A k \in threads' : \/ k \in threads
                                 \/ /\ k \in Waiting /\ k.gen = generation /\ k.kind = "editLlm"
                                    /\ k.n <= edits /\ ~(k.n <= cancelled)
      PROVE  PanelInv'
  <2>1. Shapes'
    BY <1>1, <1>3, <1>4, <1>5, PanelFacts DEF Shapes
  <2>2. \A k \in Pending' : k \in Pending \/ (k \in threads' /\ k \notin threads)
    BY <1>3 DEF Pending
  <2>3. /\ \A k \in Pending' : k \in Pending \/ k.gen = generation
        /\ \A k \in threads' \ threads :
             k.kind \in {"auto", "late"} => k.text.of = generation /\ res'.of = generation
        /\ \A k \in Pending' \ Pending : k.kind \in {"edit", "editLlm"} => k.n <= edits /\ ~(k.n <= cancelled)
    BY <1>5, <2>2
  <2> QED BY <1>1, <2>1, <2>3, QuietMoves
<1>6. CASE UNCHANGED <<threads, target, page, shown, extras, chipsOn, retryShown>>
  <2>1. PageOK' /\ retryShown' \in BOOLEAN
    BY <1>4, <1>6, PageFacts
  <2> QED BY <1>5, <1>6, <2>1, PanelFacts
<1>7. CASE ShowError(FALSE) /\ UNCHANGED <<threads, target>>
  <2>1. PageOK' /\ retryShown' \in BOOLEAN
    BY <1>7, PageFacts
  <2> QED BY <1>5, <1>7, <2>1, PanelFacts
<1>8. CASE target' = NoText /\ ShowActive(res) /\ UNCHANGED threads
  <2>1. PageOK' /\ retryShown' \in BOOLEAN
    BY <1>8, PageFacts, PanelFacts
  <2> QED BY <1>5, <1>8, <2>1, WaitFacts
<1>9. CASE /\ ~Stale(j) /\ target' = NoText /\ ShowTranscribing
           /\ threads' = threads \cup {Wait("editLlm", j.n, target)}
           /\ UNCHANGED retryShown
  <2> DEFINE w == Wait("editLlm", j.n, target)
  <2>1. PageOK' /\ retryShown' \in BOOLEAN
    BY <1>4, <1>9, PageFacts
  <2>2. w \in Waiting /\ w.kind = "editLlm" /\ w.gen = generation /\ w.n = j.n
    BY <1>3, WaitFacts, PanelFacts
  <2>3. j.n <= edits /\ ~(j.n <= cancelled)
    BY <1>1, <1>3, <1>9 DEF PanelInv, CancelledIsStale, Stale
  <2> HIDE DEF w
  <2>4. \A k \in threads' : k \in threads \/ k = w
    BY <1>9 DEF w
  <2> QED BY <1>5, <1>9, <2>1, <2>2, <2>3, <2>4, WaitFacts
<1> QED BY <1>6, <1>7, <1>8, <1>9 DEF EditHeard

(* An answer that ends its job, and begins others of its session.          *)
LEMMA ThreadMoves ==
  ASSUME PanelInv, UNCHANGED <<owner, generation, decodes, target, retry, edits, cancelled, begun>>,
         Whole(res'), EntriesOwn(saved'), PageOK', retryShown' \in BOOLEAN, visible' \in BOOLEAN,
         res'.of = res.of,
         \A k \in threads' :
           \/ k \in threads
           \/ /\ k \in Waiting /\ k.gen = generation
              /\ k.kind \in {"portal", "clipboard", "transform", "late"}
              /\ k.kind = "late" => k.text.of = generation /\ res'.of = generation
  PROVE  PanelInv'
<1>1. Shapes'
  BY PanelFacts DEF Shapes
<1>2. \A k \in Pending' : k \in Pending \/ (k \in threads' /\ k \notin threads)
  BY DEF Pending
<1>3. /\ \A k \in Pending' : k \in Pending \/ k.gen = generation
      /\ \A k \in threads' \ threads :
           k.kind \in {"auto", "late"} => k.text.of = generation /\ res'.of = generation
      /\ \A k \in Pending' \ Pending : k.kind \in {"edit", "editLlm"} => k.n <= edits /\ ~(k.n <= cancelled)
  BY <1>2
<1> QED BY <1>1, <1>3, QuietMoves

(* An improvement that is not stale is the result's.                       *)
LEMMA ImprovedWhole ==
  ASSUME PanelInv, NEW j \in threads, j.kind \in {"auto", "late"}, ~Stale(j),
         NEW r \in {res, PushVariant(res, [j.text EXCEPT !.by = "auto"])}
  PROVE  /\ Whole(r) /\ r.of = res.of /\ ActiveText(r) \in Text
         /\ res.of = generation /\ j.gen = generation /\ j.text.of = generation
<1> DEFINE t == [j.text EXCEPT !.by = "auto"]
<1>1. j.gen = generation /\ j.text.of = generation /\ res.of = generation
  BY DEF PanelInv, ImprovesItsTake, Stale
<1>2. t \in Text /\ t.of = res.of
  BY <1>1, AnswerText
<1>3. r \in {res, PushVariant(res, t)}
  OBVIOUS
<1> HIDE DEF t
<1>4. Whole(PushVariant(res, t)) /\ PushVariant(res, t).of = res.of
  BY <1>2, PushWhole, PanelFacts
<1>5. Whole(r) /\ r.of = res.of
  BY <1>3, <1>4, PanelFacts
<1> QED BY <1>1, <1>5, TextFacts

(* The improvement, in time or late.                                       *)
LEMMA AutoAnswerPreserves ==
  ASSUME PanelInv, NEW j \in threads, AutoAnswer(j) PROVE PanelInv'
<1>1. /\ j.kind = "auto" /\ j \in Waiting
      /\ UNCHANGED <<owner, generation, decodes, target, retry, page, shown, extras, chipsOn, edits, cancelled, begun>>
  BY PanelFacts DEF AutoAnswer, counts, screen
<1>2. retryShown' = retryShown /\ visible' = visible
  BY DEF AutoAnswer, screen
<1>3. PageOK' /\ visible' \in BOOLEAN /\ retryShown' \in BOOLEAN
  BY <1>1, <1>2, PageFacts, PanelFacts
<1>4. CASE threads' = threads \ {j} /\ UNCHANGED <<res, saved>>
  BY <1>1, <1>3, <1>4, ThreadMoves, PanelFacts
<1>5. ASSUME ~Stale(j), res' \in {res, PushVariant(res, [j.text EXCEPT !.by = "auto"])},
             NEW rest, Deliver(res', rest),
             rest \subseteq threads \cup {[j EXCEPT !.kind = "late"]}
      PROVE  PanelInv'
  <2>1. /\ Whole(res') /\ res'.of = res.of /\ ActiveText(res') \in Text
        /\ res.of = generation /\ j.gen = generation /\ j.text.of = generation
    BY <1>1, <1>5, ImprovedWhole
  <2>2. EntriesOwn(saved')
    BY <1>5, <2>1, PersistOwn, PanelFacts DEF Deliver
  <2> DEFINE w == Wait("portal", 0, ActiveText(res'))
             l == [j EXCEPT !.kind = "late"]
  <2>3. w \in Waiting /\ w.kind = "portal" /\ w.gen = generation
    BY <2>1, WaitFacts
  <2>4. l \in Waiting /\ l.kind = "late" /\ l.gen = generation /\ l.text.of = generation
    BY <1>1, <2>1 DEF Waiting, Request
  <2>5. threads' = rest \cup {w} /\ rest \subseteq threads \cup {l}
    BY <1>5 DEF Deliver
  <2> HIDE DEF w, l
  <2>6. \A k \in threads' : k \in threads \/ k = w \/ k = l
    BY <2>5
  <2> QED BY <1>1, <1>3, <2>1, <2>2, <2>3, <2>4, <2>6, ThreadMoves
<1>6. CASE /\ ~Stale(j)
           /\ \E r \in {res, PushVariant(res, [j.text EXCEPT !.by = "auto"])} :
                res' = r /\ Deliver(r, threads \ {j})
  <2>1. /\ res' \in {res, PushVariant(res, [j.text EXCEPT !.by = "auto"])}
        /\ Deliver(res', threads \ {j})
    BY <1>6
  <2>2. threads \ {j} \subseteq threads \cup {[j EXCEPT !.kind = "late"]}
    OBVIOUS
  <2> QED BY <1>5, <1>6, <2>1, <2>2
<1>7. CASE /\ ~Stale(j) /\ UNCHANGED res
           /\ Deliver(res, (threads \ {j}) \cup {[j EXCEPT !.kind = "late"]})
  <2> DEFINE l == [j EXCEPT !.kind = "late"]
  <2>1. /\ res' \in {res, PushVariant(res, [j.text EXCEPT !.by = "auto"])}
        /\ Deliver(res', (threads \ {j}) \cup {l})
    <3>1. res' = res
      BY <1>7
    <3> QED BY <1>7, <3>1
  <2>2. (threads \ {j}) \cup {l} \subseteq threads \cup {l}
    OBVIOUS
  <2> QED BY <1>5, <1>7, <2>1, <2>2
<1> QED BY <1>4, <1>6, <1>7 DEF AutoAnswer

LEMMA LateAnswerPreserves ==
  ASSUME PanelInv, NEW j \in threads, LateAnswer(j) PROVE PanelInv'
<1>1. /\ j.kind = "late" /\ threads' = threads \ {j}
      /\ UNCHANGED <<owner, generation, decodes, target, retry, edits, cancelled, begun>>
  BY DEF LateAnswer, counts
<1>2. visible' = visible
  BY DEF LateAnswer
<1>3. visible' \in BOOLEAN
  BY <1>2, PanelFacts
<1>4. CASE UNCHANGED <<res, saved, page, shown, extras, chipsOn, retryShown>>
  <2>1. PageOK' /\ retryShown' \in BOOLEAN
    BY <1>4, PageFacts, PanelFacts
  <2> QED BY <1>1, <1>3, <1>4, <2>1, ThreadMoves, PanelFacts
<1>5. CASE /\ ~Stale(j)
           /\ \E r \in {res, PushVariant(res, [j.text EXCEPT !.by = "auto"])} :
                res' = r /\ RefreshActive(r)
  <2>1. res' \in {res, PushVariant(res, [j.text EXCEPT !.by = "auto"])} /\ RefreshActive(res')
    BY <1>5
  <2>2. Whole(res') /\ res'.of = res.of
    BY <1>1, <1>5, <2>1, ImprovedWhole
  <2>3. EntriesOwn(saved')
    BY <2>1, <2>2, PersistOwn, PanelFacts DEF RefreshActive
  <2>4. PageOK' /\ retryShown' \in BOOLEAN
    BY <2>1, <2>2, PageFacts DEF RefreshActive
  <2> QED BY <1>1, <1>3, <2>2, <2>3, <2>4, ThreadMoves
<1> QED BY <1>4, <1>5 DEF LateAnswer

(* The delivery's two answers.                                             *)
LEMMA DeliveryPreserves ==
  ASSUME PanelInv, NEW j \in threads, PortalAnswer(j) \/ ClipboardAnswer(j) PROVE PanelInv'
<1> DEFINE c == [j EXCEPT !.kind = "clipboard"]
<1>1. /\ j \in Waiting /\ j.text \in Text
      /\ UNCHANGED <<owner, generation, decodes, res, target, saved, retry, edits, cancelled, begun>>
  <2>1. j \in Waiting /\ j.text \in Text
    BY PanelFacts DEF Waiting, Request
  <2> QED BY <2>1 DEF PortalAnswer, ClipboardAnswer, counts, result
<1>2. visible' = visible
  BY DEF PortalAnswer, ClipboardAnswer
<1>3. visible' \in BOOLEAN
  BY <1>2, PanelFacts
<1>4. CASE UNCHANGED <<page, shown, extras, chipsOn, retryShown>>
  <2>1. PageOK' /\ retryShown' \in BOOLEAN
    BY <1>4, PageFacts, PanelFacts
  <2>2. CASE threads' = threads \ {j}
    BY <1>1, <1>3, <2>1, <2>2, ThreadMoves, PanelFacts
  <2>3. CASE ~Stale(j) /\ threads' = (threads \ {j}) \cup {c}
    <3>1. c \in Waiting /\ c.kind = "clipboard" /\ c.gen = generation
      BY <1>1, <2>3 DEF Stale, Waiting, Request
    <3>2. \A k \in threads' : k \in threads \/ k = c
      BY <2>3
    <3> HIDE DEF c
    <3> QED BY <1>1, <1>3, <2>1, <3>1, <3>2, ThreadMoves, PanelFacts
  <2>4. CASE ShowResult(j.text) /\ RenderExtras /\ threads' = threads \ {j}
    BY <2>2, <2>4
  <2> QED BY <2>2, <2>3, <2>4 DEF PortalAnswer, ClipboardAnswer
<1>5. CASE ShowResult(j.text) /\ RenderExtras /\ retryShown' = FALSE /\ threads' = threads \ {j}
  <2>1. PageOK' /\ retryShown' \in BOOLEAN
    BY <1>1, <1>5, PageFacts
  <2> QED BY <1>1, <1>3, <1>5, <2>1, ThreadMoves, PanelFacts
<1> QED BY <1>4, <1>5 DEF PortalAnswer, ClipboardAnswer

(* The answers of a chip and of an edit.                                   *)
LEMMA VariantPreserves ==
  ASSUME PanelInv, NEW j \in threads, ChipAnswer(j) \/ EditAnswer(j) PROVE PanelInv'
<1>1. /\ threads' = threads \ {j}
      /\ UNCHANGED <<owner, generation, decodes, target, saved, retry, edits, cancelled, begun>>
  BY DEF ChipAnswer, EditAnswer, counts
<1>2. visible' = visible
  BY DEF ChipAnswer, EditAnswer
<1>3. visible' \in BOOLEAN
  BY <1>2, PanelFacts
<1>4. ASSUME NEW b \in {"chip", "edit"}, res' = PushVariant(res, [j.text EXCEPT !.by = b]), ShowActive(res')
      PROVE  PanelInv'
  <2> DEFINE t == [j.text EXCEPT !.by = b]
  <2>1. t \in Text /\ t.by # "auto"
    BY <1>4, AnswerText
  <2>2. res' = PushVariant(res, t)
    BY <1>4
  <2> HIDE DEF t
  <2>3. Whole(res') /\ res'.of = res.of
    BY <2>1, <2>2, PushWhole, PanelFacts
  <2>4. PageOK' /\ retryShown' \in BOOLEAN
    BY <1>4, <2>3, PageFacts
  <2> QED BY <1>1, <1>3, <2>3, <2>4, ThreadMoves, PanelFacts
<1>5. CASE /\ chipsOn' \in {TRUE, chipsOn} /\ UNCHANGED <<res, page, shown, extras, retryShown>>
  <2>1. retryShown' \in BOOLEAN
    BY <1>5, PanelFacts
  <2>2. chipsOn' \in BOOLEAN
    BY <1>5, PanelFacts DEF PageOK
  <2>3. PageOK'
    BY <1>5, <2>2, PanelFacts DEF PageOK
  <2> QED BY <1>1, <1>3, <1>5, <2>1, <2>3, ThreadMoves, PanelFacts
<1>6. CASE ShowError(FALSE) /\ UNCHANGED res
  <2>1. PageOK' /\ retryShown' \in BOOLEAN
    BY <1>6, PageFacts
  <2> QED BY <1>1, <1>3, <1>6, <2>1, ThreadMoves, PanelFacts
<1>7. CASE ChipAnswer(j)
  BY <1>4, <1>5, <1>7 DEF ChipAnswer
<1>8. CASE EditAnswer(j)
  BY <1>4, <1>5, <1>6, <1>8 DEF EditAnswer
<1> QED BY <1>7, <1>8

(* The answers of a selection's transformation.                            *)
LEMMA SelectionPreserves ==
  ASSUME PanelInv, NEW j \in threads, SelectionRead(j) \/ TransformAnswer(j) PROVE PanelInv'
<1> DEFINE w == Wait("transform", 0, NoText)
           p == Wait("portal", 0, [of |-> 0, by |-> "transform"])
<1>1. UNCHANGED <<owner, generation, decodes, res, target, saved, retry, edits, cancelled, begun>>
  BY DEF SelectionRead, TransformAnswer, counts, result
<1>2. visible' = TRUE \/ visible' = visible
  BY DEF SelectionRead, TransformAnswer
<1>3. visible' \in BOOLEAN
  BY <1>2, PanelFacts
<1>4. /\ w \in Waiting /\ w.kind = "transform" /\ w.gen = generation
      /\ p \in Waiting /\ p.kind = "portal" /\ p.gen = generation
  <2>1. [of |-> 0, by |-> "transform"] \in Text
    BY WaitFacts DEF Text
  <2> QED BY <2>1, WaitFacts
<1>5. \/ threads' = threads \ {j}
      \/ threads' = (threads \ {j}) \cup {w}
      \/ threads' = (threads \ {j}) \cup {p}
  BY DEF SelectionRead, TransformAnswer
<1> HIDE DEF w, p
<1>6. \A k \in threads' : k \in threads \/ k = w \/ k = p
  BY <1>5
<1>7. ASSUME PageOK', retryShown' \in BOOLEAN PROVE PanelInv'
  BY <1>1, <1>3, <1>4, <1>6, <1>7, ThreadMoves, PanelFacts
<1>8. CASE ShowError(FALSE)
  BY <1>7, <1>8, PageFacts
<1>9. CASE ShowTranscribing /\ UNCHANGED retryShown
  <2>1. retryShown' \in BOOLEAN
    BY <1>9, PanelFacts
  <2> QED BY <1>7, <1>9, <2>1, PageFacts
<1>10. CASE UNCHANGED <<page, shown, extras, chipsOn, retryShown>>
  <2>1. retryShown' \in BOOLEAN
    BY <1>10, PanelFacts
  <2> QED BY <1>7, <1>10, <2>1, PageFacts
<1> QED BY <1>8, <1>9, <1>10 DEF SelectionRead, TransformAnswer

(* Every step.                                                             *)
LEMMA PanelStutters == ASSUME PanelInv, UNCHANGED panelVars PROVE PanelInv'
<1>1. /\ UNCHANGED <<owner, generation, decodes, threads, res, target, saved, retry, page, shown,
                     extras, chipsOn, edits, cancelled, begun>>
  BY DEF panelVars, work, result, counts, screen
<1>2. retryShown' = retryShown /\ visible' = visible
  BY DEF panelVars, screen
<1>3. PageOK' /\ visible' \in BOOLEAN /\ retryShown' \in BOOLEAN
  BY <1>1, <1>2, PageFacts, PanelFacts
<1> QED BY <1>1, <1>3, ThreadMoves, PanelFacts

LEMMA PanelStepHolds == PanelInv /\ [PanelNext]_panelVars => PanelInv'
<1> SUFFICES ASSUME PanelInv, [PanelNext]_panelVars PROVE PanelInv'
  OBVIOUS
<1>1. ASSUME NEW j \in threads,
             \/ AutoAnswer(j) \/ LateAnswer(j) \/ PortalAnswer(j) \/ ClipboardAnswer(j)
             \/ ChipAnswer(j) \/ EditAnswer(j) \/ SelectionRead(j) \/ TransformAnswer(j)
      PROVE  PanelInv'
  BY <1>1, AutoAnswerPreserves, LateAnswerPreserves, DeliveryPreserves, VariantPreserves,
     SelectionPreserves
<1>2. CASE Answers
  BY <1>1, <1>2, TakeAnswerPreserves, EditHeardPreserves DEF Answers
<1> QED BY <1>2, StartTakePreserves, StopTakePreserves, RetryTakePreserves, CancelTakePreserves,
           ClosePanelPreserves, ChipPreserves, ChooseVariantPreserves, StartVoiceEditPreserves,
           StopVoiceEditPreserves, CancelVoiceEditPreserves, TransformSelectionPreserves,
           WindowPreserves, PanelStutters DEF PanelNext

LEMMA PanelInvAlways == PanelSpec => []PanelInv
BY PanelInitHolds, PanelStepHolds, PTL DEF PanelSpec

(* The panel's selector names a text that exists, and an automatic         *)
(* improvement stays with the take it was made of, on the panel and in the *)
(* history, in every order of takes, edits, chips and late answers.        *)
THEOREM PanelSafetyAlways == PanelSpec => []PanelSafety
<1>1. PanelInv => PanelSafety
  <2> SUFFICES ASSUME PanelInv PROVE PanelSafety
    OBVIOUS
  <2>1. PanelTypeOK
    BY DEF PanelInv
  <2>2. ActiveExists
    BY DEF PanelInv, Whole, ActiveExists
  <2>3. ImprovementOnItsResult
    BY DEF PanelInv, Whole, EntriesOwn, ImprovementOnItsResult
  <2> QED BY <2>1, <2>2, <2>3 DEF PanelSafety
<1> QED BY <1>1, PanelInvAlways, PTL

(* A job that ends in a step is what its kind answers.                     *)
LEMMA OnlyAnswersEnd ==
  ASSUME PanelInv, [PanelNext]_panelVars, NEW j \in threads, j \notin threads'
  PROVE  \/ AutoAnswer(j) \/ LateAnswer(j) \/ PortalAnswer(j) \/ ClipboardAnswer(j)
         \/ ChipAnswer(j) \/ EditAnswer(j) \/ SelectionRead(j) \/ TransformAnswer(j)
<1>1. ASSUME NEW k \in threads,
             \/ AutoAnswer(k) \/ LateAnswer(k) \/ PortalAnswer(k) \/ ClipboardAnswer(k)
             \/ ChipAnswer(k) \/ EditAnswer(k) \/ SelectionRead(k) \/ TransformAnswer(k)
      PROVE  k = j
  <2>1. threads \ {k} \subseteq threads'
    BY <1>1 DEF AutoAnswer, LateAnswer, PortalAnswer, ClipboardAnswer, ChipAnswer, EditAnswer,
                SelectionRead, TransformAnswer, Deliver
  <2> QED BY <2>1
<1>2. CASE TakeAnswer \/ EditHeard
  <2>1. threads \subseteq threads'
    BY <1>2 DEF TakeAnswer, EditHeard, Deliver
  <2> QED BY <2>1
<1>3. CASE PanelNext /\ ~Answers
  <2>1. threads \subseteq threads'
    BY <1>3 DEF PanelNext, StartTake, StopTake, RetryTake, CancelTake, ClosePanel, Chip, ChooseVariant,
                StartVoiceEdit, StopVoiceEdit, CancelVoiceEdit, TransformSelection, WindowRecords,
                WindowEnds, work
  <2> QED BY <2>1
<1>4. CASE UNCHANGED panelVars
  <2>1. threads' = threads
    BY <1>4 DEF panelVars, work
  <2> QED BY <2>1
<1> QED BY <1>1, <1>2, <1>3, <1>4 DEF Answers

(* Who repaints the page of a live dictation.                              *)
LEMMA RecordingStep ==
  ASSUME PanelInv, [PanelNext]_panelVars,
         owner = "Mini", page = "recording", owner' = "Mini", page' # "recording"
  PROVE  Unchecked \ threads' # {} \/ begun' > begun
<1>1. CASE begun' > begun
  BY <1>1
<1>2. begun \in Nat
  BY PanelFacts
<1>3. CASE Act
  BY <1>1, <1>2, <1>3 DEF Act
<1>4. ASSUME NEW j \in threads, j.kind \in {"selection", "transform", "clipboard"}, j \notin threads'
      PROVE  Unchecked \ threads' # {}
  BY <1>4 DEF Unchecked
<1>5. ASSUME NEW j \in threads,
             \/ ClipboardAnswer(j) \/ SelectionRead(j) \/ TransformAnswer(j)
      PROVE  Unchecked \ threads' # {}
  <2>1. j.kind \in {"selection", "transform", "clipboard"}
    BY <1>5 DEF ClipboardAnswer, SelectionRead, TransformAnswer
  <2>2. Wait("transform", 0, NoText).kind = "transform"
        /\ Wait("portal", 0, [of |-> 0, by |-> "transform"]).kind = "portal"
    BY DEF Wait
  <2>3. j \notin threads'
    BY <1>5, <2>2 DEF ClipboardAnswer, SelectionRead, TransformAnswer
  <2> QED BY <1>4, <2>1, <2>3
<1>6. ASSUME NEW j \in threads,
             \/ AutoAnswer(j) \/ LateAnswer(j) \/ PortalAnswer(j) \/ ChipAnswer(j) \/ EditAnswer(j)
      PROVE  page' = page \/ owner = "None"
  BY <1>6 DEF AutoAnswer, LateAnswer, PortalAnswer, ChipAnswer, EditAnswer, screen
<1>7. CASE TakeAnswer \/ EditHeard
  BY <1>7 DEF TakeAnswer, EditHeard
<1>8. CASE StopTake \/ ClosePanel \/ ChooseVariant \/ StopVoiceEdit \/ WindowEnds
  BY <1>8 DEF StopTake, ClosePanel, ChooseVariant, OnResult, StopVoiceEdit, WindowEnds
<1>9. CASE StartTake \/ RetryTake \/ CancelTake \/ Chip \/ StartVoiceEdit \/ CancelVoiceEdit
           \/ TransformSelection \/ WindowRecords
  BY <1>3, <1>9 DEF StartTake, RetryTake, CancelTake, Chip, StartVoiceEdit, CancelVoiceEdit,
                    TransformSelection, WindowRecords
<1>10. CASE UNCHANGED panelVars
  BY <1>10 DEF panelVars, screen
<1> QED BY <1>5, <1>6, <1>7, <1>8, <1>9, <1>10 DEF PanelNext, Answers

(* What the answer to a cancelled edit changes.                            *)
LEMMA CancelledStep ==
  ASSUME PanelInv, [PanelNext]_panelVars, NEW j \in threads, j.kind = "editLlm", j.n <= cancelled,
         j \notin threads'
  PROVE  res' = res /\ page' = page
<1>1. Stale(j)
  BY DEF PanelInv, CancelledIsStale, Pending, Stale
<1>2. EditAnswer(j)
  BY OnlyAnswersEnd DEF AutoAnswer, LateAnswer, PortalAnswer, ClipboardAnswer, ChipAnswer,
                        SelectionRead, TransformAnswer
<1> QED BY <1>1, <1>2 DEF EditAnswer

(* Only a transformation or a delivery that waits for the clipboard can    *)
(* cover a live dictation, and the answer to a voice edit that was         *)
(* cancelled changes nothing, whatever happened since.                     *)
THEOREM LateAnswersHarmlessAlways == PanelSpec => LateAnswersHarmless
<1>1. PanelInv /\ [PanelNext]_panelVars
        => [owner = "Mini" /\ page = "recording" /\ owner' = "Mini" /\ page' # "recording"
              => Unchecked \ threads' # {} \/ begun' > begun]_panelVars
  BY RecordingStep
<1>2. PanelInv /\ [PanelNext]_panelVars
        => [\A j \in threads : j.kind = "editLlm" /\ j.n <= cancelled /\ j \notin threads'
              => res' = res /\ page' = page]_panelVars
  BY CancelledStep
<1>3. PanelSpec => RecordingPageKept
  BY <1>1, PanelInvAlways, PTL DEF PanelSpec, RecordingPageKept
<1>4. PanelSpec => CancelledEditIsDropped
  BY <1>2, PanelInvAlways, PTL DEF PanelSpec, CancelledEditIsDropped
<1> QED BY <1>3, <1>4 DEF LateAnswersHarmless
=============================================================================
