--------------------------- MODULE GlobalShortcuts ---------------------------
(***************************************************************************)
(* The task that keeps the global shortcuts registered with the desktop    *)
(* portal (portal/shortcuts.rs): it opens a session, subscribes, binds,    *)
(* and listens to key presses and to the "configure" requests of the GTK   *)
(* thread; when the session cannot be had or ends it waits, twice as long  *)
(* each time, and tries again.                                             *)
(*                                                                         *)
(* Key presses are numbered.  Time passes only in the wait between two     *)
(* tries, in ticks of its shortest length; every other wait ends when it   *)
(* does.  The portal is external.                                          *)
(***************************************************************************)
EXTENDS Naturals, Sequences, SequencesExt, FiniteSetsExt

CONSTANTS
  Request,    (* The clicks on "configure" that are under way.             *)
  KeyCap,     (* Key presses queued for the GTK thread (4).                *)
  CommandCap, (* Requests queued for the task (4).                         *)
  MaxDelay,   (* The longest wait, of the shortest ones (120 s of 2 s: 60). *)
  MaxKeys     (* Bound: key presses.                                       *)

ASSUME ShortcutsAssumption ==
  {KeyCap, CommandCap, MaxDelay} \subseteq Nat \ {0} /\ MaxKeys \in Nat /\ 0 \notin Request

VARIABLES
  task,       (* Where the task awaits.                                    *)
  subscribed, (* It receives the session's activations.                    *)
  bound,      (* The portal has the session's shortcuts.                   *)
  arriving,   (* The activations not yet received.                         *)
  inHand,     (* The activation being sent, or the request being served.   *)
  lived,      (* The session has lasted 60 s.                              *)
  delay, left,(* The next wait; the ticks left of this one.                *)
  commands,   (* The requests queued.                                      *)
  asked,      (* What each click shows: "none", "open", or an error.       *)
  queue,      (* The key presses queued for the GTK thread.                *)
  acted,      (* Those it has acted on.                                    *)
  pressed,    (* How many there were while the shortcuts were bound.       *)
  lost        (* Those that were in a session when it ended.               *)

session == <<subscribed, bound, arriving, lost>>
backoff == <<lived, delay, left>>
clicks == <<commands, asked>>
keys == <<queue, acted, pressed>>
shortcutVars == <<task, session, inHand, backoff, clicks, keys>>

Nobody == 0
Working == {"starting", "binding", "listening", "sending", "configuring"}

(* The types of the task, its session and the queues at its two ends; it   *)
(* holds a request exactly while it works on one.                          *)
ShortcutsTypeOK ==
  /\ task \in Working \cup {"waiting", "ended"}
  /\ (task \in {"sending", "configuring"}) = (inHand # Nobody)
  /\ subscribed \in BOOLEAN /\ bound \in BOOLEAN /\ lived \in BOOLEAN
  /\ bound => task \in Working \ {"starting"}
  /\ delay \in 1..MaxDelay /\ left \in 0..MaxDelay
  /\ commands \in Seq(Request) /\ Len(commands) <= CommandCap
  /\ asked \in [Request -> {"none", "open", "error"}]
  /\ Len(queue) <= KeyCap /\ pressed \in 0..MaxKeys /\ lost \subseteq 1..pressed

ShortcutsInit ==
  /\ task = "starting" /\ inHand = Nobody
  /\ subscribed = FALSE /\ bound = FALSE /\ arriving = <<>> /\ lost = {}
  /\ lived = FALSE /\ delay = 1 /\ left = 0
  /\ commands = <<>> /\ asked = [r \in Request |-> "none"]
  /\ queue = <<>> /\ acted = <<>> /\ pressed = 0

------------------------------------------------------------------------------
(* The portal.                                                             *)
Press ==
  /\ bound /\ pressed < MaxKeys /\ pressed' = pressed + 1
  /\ arriving' = IF subscribed THEN Append(arriving, pressed') ELSE arriving
  /\ UNCHANGED <<task, subscribed, bound, lost, inHand, backoff, clicks, queue, acted>>

PortalBinds ==
  /\ task = "binding" /\ bound' = TRUE
  /\ UNCHANGED <<task, subscribed, arriving, lost, inHand, backoff, clicks, keys>>

(* It forgets the session; the activations' end may be seen, or never.     *)
PortalForgets ==
  /\ bound /\ bound' = FALSE
  /\ UNCHANGED <<task, subscribed, arriving, lost, inHand, backoff, clicks, keys>>

------------------------------------------------------------------------------
(* A session.                                                              *)
Dropped ==
  /\ lost' = lost \cup ToSet(arriving)
  /\ subscribed' = FALSE /\ bound' = FALSE /\ arriving' = <<>>

(* Mutant: the wait doubles without end.                                   *)
WaitsLonger ==
  LET now == IF lived THEN 1 ELSE delay IN
  /\ task' = "waiting" /\ left' = now /\ delay' = 2 * now
  /\ lived' = FALSE
  /\ Dropped /\ UNCHANGED <<inHand, clicks, keys>>

(* The session is over, with an error or without: the wait begins, the     *)
(* shortest one again if the session had lasted.                           *)
Waits ==
  LET now == IF lived THEN 1 ELSE delay IN
  /\ task' = "waiting" /\ left' = now /\ delay' = Min({2 * now, MaxDelay})
  /\ lived' = FALSE
  /\ Dropped /\ UNCHANGED <<inHand, clicks, keys>>

SessionFails == task \in {"starting", "binding"} /\ Waits

(* Mutant: the activations are subscribed to once the shortcuts are bound. *)
SubscribeLate ==
  /\ task = "starting" /\ task' = "binding"
  /\ UNCHANGED <<session, inHand, backoff, clicks, keys>>

Subscribe ==
  /\ task = "starting" /\ task' = "binding" /\ subscribed' = TRUE
  /\ UNCHANGED <<bound, arriving, lost, inHand, backoff, clicks, keys>>

(* Whether the shortcuts were bound or not, it listens.                    *)
Listening ==
  /\ task = "binding" /\ task' = "listening" /\ subscribed' = TRUE
  /\ UNCHANGED <<bound, arriving, lost, inHand, backoff, clicks, keys>>

Lasts ==
  /\ task = "listening" /\ lived' = TRUE
  /\ UNCHANGED <<task, session, inHand, delay, left, clicks, keys>>

(* After the last activation it holds.                                     *)
StreamEnds == task = "listening" /\ arriving = <<>> /\ Waits

Receive ==
  /\ task = "listening" /\ arriving # <<>>
  /\ task' = "sending" /\ inHand' = Head(arriving) /\ arriving' = Tail(arriving)
  /\ UNCHANGED <<subscribed, bound, lost, backoff, clicks, keys>>

(* The task awaits room.                                                   *)
Send ==
  /\ task = "sending" /\ Len(queue) < KeyCap
  /\ task' = "listening" /\ inHand' = Nobody /\ queue' = Append(queue, inHand)
  /\ UNCHANGED <<session, backoff, clicks, acted, pressed>>

Act ==
  /\ queue # <<>> /\ acted' = Append(acted, Head(queue)) /\ queue' = Tail(queue)
  /\ UNCHANGED <<task, session, inHand, backoff, clicks, pressed>>

------------------------------------------------------------------------------
(* Requests to configure.                                                  *)
(* A full queue is an error at once.                                       *)
Click(r) ==
  /\ asked[r] # "open" /\ r \notin ToSet(commands)
  /\ (task = "configuring" => inHand # r)
  /\ IF Len(commands) < CommandCap /\ task # "ended"
     THEN commands' = Append(commands, r) /\ asked' = [asked EXCEPT ![r] = "open"]
     ELSE asked' = [asked EXCEPT ![r] = "error"] /\ UNCHANGED commands
  /\ UNCHANGED <<task, session, inHand, backoff, keys>>

ClickTimesOut(r) ==
  /\ asked[r] = "open" /\ asked' = [asked EXCEPT ![r] = "error"]
  /\ UNCHANGED <<task, session, inHand, backoff, commands, keys>>

(* What the click is shown, if it still awaits it.                         *)
Reply(r, answer) ==
  asked' = IF asked[r] = "open" THEN [asked EXCEPT ![r] = answer] ELSE asked

(* A click that has timed out is skipped.                                  *)
Serve ==
  /\ task = "listening" /\ commands # <<>> /\ commands' = Tail(commands)
  /\ IF asked[Head(commands)] = "open"
     THEN task' = "configuring" /\ inHand' = Head(commands)
     ELSE UNCHANGED <<task, inHand>>
  /\ UNCHANGED <<session, backoff, asked, keys>>

(* The desktop has been asked, refuses, or does not answer within 8 s.     *)
Configured ==
  /\ task = "configuring" /\ task' = "listening" /\ inHand' = Nobody
  /\ \E answer \in {"none", "error"} : Reply(inHand, answer)
  /\ UNCHANGED <<session, backoff, commands, keys>>

(* Mutant: the wait begins again with every request.                       *)
RefuseAndRestart ==
  /\ task = "waiting" /\ commands # <<>>
  /\ Reply(Head(commands), "error") /\ commands' = Tail(commands)
  /\ left' = MaxDelay
  /\ UNCHANGED <<task, session, inHand, lived, delay, keys>>

(* While there is no session a request is refused, and the wait goes on.   *)
Refuse ==
  /\ task = "waiting" /\ commands # <<>>
  /\ Reply(Head(commands), "error") /\ commands' = Tail(commands)
  /\ UNCHANGED <<task, session, inHand, backoff, keys>>

Tick ==
  /\ task = "waiting" /\ left > 0 /\ left' = left - 1
  /\ UNCHANGED <<task, session, inHand, lived, delay, clicks, keys>>

Retry ==
  /\ task = "waiting" /\ left = 0 /\ task' = "starting"
  /\ UNCHANGED <<session, inHand, backoff, clicks, keys>>

(* The application goes, and with it both channels.                        *)
TaskEnds ==
  /\ task # "ended" /\ task' = "ended" /\ inHand' = Nobody
  /\ lost' = lost \cup ToSet(arriving) \cup (IF task = "sending" THEN {inHand} ELSE {})
  /\ subscribed' = FALSE /\ bound' = FALSE /\ arriving' = <<>>
  /\ UNCHANGED <<backoff, clicks, keys>>

ShortcutsNext ==
  \/ Press \/ PortalBinds \/ PortalForgets
  \/ SessionFails \/ Subscribe \/ Listening \/ Lasts \/ StreamEnds
  \/ Receive \/ Send \/ Act
  \/ \E r \in Request : Click(r) \/ ClickTimesOut(r)
  \/ Serve \/ Configured \/ Refuse \/ Tick \/ Retry \/ TaskEnds

------------------------------------------------------------------------------
(* Every press while the shortcuts are bound is acted on once and in the   *)
(* order of the presses, or is on its way, or went with its session: also  *)
(* the presses between the binding and the portal's answer, and those that *)
(* find the queue to the GTK thread full.                                  *)
Flow == acted \o queue \o (IF task = "sending" THEN <<inHand>> ELSE <<>>) \o arriving
NoKeyDropped ==
  /\ ToSet(Flow) = 1..pressed \ lost
  /\ \A i, j \in DOMAIN Flow : i < j => Flow[i] < Flow[j]

(* The shortcuts are tried again however often someone clicks meanwhile.   *)
RetryComes == task = "waiting" ~> task # "waiting"

(* No press is lost, doubled or reordered between the portal and the GTK   *)
(* thread.                                                                 *)
ShortcutsSafety ==
  ShortcutsTypeOK /\ NoKeyDropped
=============================================================================
