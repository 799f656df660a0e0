---------------------------- MODULE Sidecar_proofs ----------------------------
(* The sidecar server, for any number of threads, models, processes and    *)
(* shutdowns; and the microphone's stream with the cuts of a take, for any *)
(* limits and guards.                                                      *)
EXTENDS SidecarInductive, CaptureStream, FiniteSetTheorems, SequenceTheorems, TLAPS

(* The place of a thread that has not called.                              *)
LEMMA IdleIsThread == Idle \in Thread
BY DEF Idle, Thread

(* The steps of a thread: to another place, with at most one local set.    *)
LEMMA GotoTyped ==
  ASSUME TypeOK, NEW w \in Worker, NEW l \in Holding
  PROVE  [thread EXCEPT ![w].pc = l] \in [Worker -> Thread]
BY DEF TypeOK, Thread

LEMMA CallTyped ==
  ASSUME TypeOK, NEW w \in Worker, NEW m \in Model
  PROVE  [thread EXCEPT ![w].pc = "waiting", ![w].want = m] \in [Worker -> Thread]
<1> DEFINE t == [thread[w] EXCEPT !.pc = "waiting", !.want = m]
<1>1. thread[w] \in Thread
  BY DEF TypeOK
<1>2. t \in Thread
  BY <1>1 DEF Thread, Holding
<1>3. [thread EXCEPT ![w].pc = "waiting", ![w].want = m] = [thread EXCEPT ![w] = t]
  BY <1>1 DEF TypeOK
<1> QED BY <1>2, <1>3 DEF TypeOK

LEMMA EpochTyped ==
  ASSUME TypeOK, NEW w \in Worker, NEW m \in Nat
  PROVE  [thread EXCEPT ![w].pc = "take", ![w].started = m] \in [Worker -> Thread]
<1> DEFINE t == [thread[w] EXCEPT !.pc = "take", !.started = m]
<1>1. thread[w] \in Thread
  BY DEF TypeOK
<1>2. t \in Thread
  BY <1>1 DEF Thread, Holding
<1>3. [thread EXCEPT ![w].pc = "take", ![w].started = m] = [thread EXCEPT ![w] = t]
  BY <1>1 DEF TypeOK
<1> QED BY <1>2, <1>3 DEF TypeOK

LEMMA MineTyped ==
  ASSUME TypeOK, NEW w \in Worker, NEW m \in Server
  PROVE  [thread EXCEPT ![w].pc = "starting", ![w].mine = m] \in [Worker -> Thread]
<1> DEFINE t == [thread[w] EXCEPT !.pc = "starting", !.mine = m]
<1>1. thread[w] \in Thread
  BY DEF TypeOK
<1>2. t \in Thread
  BY <1>1 DEF Thread, Holding
<1>3. [thread EXCEPT ![w].pc = "starting", ![w].mine = m] = [thread EXCEPT ![w] = t]
  BY <1>1 DEF TypeOK
<1> QED BY <1>2, <1>3 DEF TypeOK

LEMMA ReuseTyped ==
  ASSUME TypeOK, NEW w \in Worker, NEW m \in Server
  PROVE  [thread EXCEPT ![w].pc = "install", ![w].mine = m] \in [Worker -> Thread]
<1> DEFINE t == [thread[w] EXCEPT !.pc = "install", !.mine = m]
<1>1. thread[w] \in Thread
  BY DEF TypeOK
<1>2. t \in Thread
  BY <1>1 DEF Thread, Holding
<1>3. [thread EXCEPT ![w].pc = "install", ![w].mine = m] = [thread EXCEPT ![w] = t]
  BY <1>1 DEF TypeOK
<1> QED BY <1>2, <1>3 DEF TypeOK

LEMMA RetriedTyped ==
  ASSUME TypeOK, NEW w \in Worker
  PROVE  [thread EXCEPT ![w].pc = "spawn", ![w].retried = TRUE] \in [Worker -> Thread]
<1> DEFINE t == [thread[w] EXCEPT !.pc = "spawn", !.retried = TRUE]
<1>1. thread[w] \in Thread
  BY DEF TypeOK
<1>2. t \in Thread
  BY <1>1 DEF Thread, Holding
<1>3. [thread EXCEPT ![w].pc = "spawn", ![w].retried = TRUE] = [thread EXCEPT ![w] = t]
  BY <1>1 DEF TypeOK
<1> QED BY <1>2, <1>3 DEF TypeOK

LEMMA AnswerTyped ==
  ASSUME TypeOK, NEW w \in Worker
  PROVE  [thread EXCEPT ![w] = Idle] \in [Worker -> Thread]
BY IdleIsThread DEF TypeOK

(* No thread has called and no server lives.                               *)
LEMMA InitHolds == Init => SidecarInv
<1> SUFFICES ASSUME Init PROVE SidecarInv
  OBVIOUS
<1>1. TypeOK
  BY IdleIsThread DEF Init, TypeOK
<1>2. \A w \in Worker : thread[w].pc = "idle" /\ thread[w].started = 0
  BY DEF Init, Idle
<1>3. Locked /\ SlotEmptied /\ VictimTaken /\ EpochsPast /\ QuietEmpty /\ MineMatches
  BY <1>2 DEF Init, Locked, SlotEmptied, VictimTaken, EpochsPast, QuietEmpty,
     MineMatches, Holding
<1>4. NoOrphan
  BY DEF Init, NoOrphan
<1> QED BY <1>1, <1>3, <1>4 DEF SidecarInv

(* A thread asks for a transcription.                                      *)
LEMMA CallKeeps ==
  ASSUME SidecarInv, NEW w \in Worker, Call(w)
  PROVE  SidecarInv'
<1> USE SidecarAssumption DEF SidecarInv, Call
<1>1. TypeOK'
  <2>1. thread' \in [Worker -> Thread]
    BY CallTyped
  <2> QED BY <2>1 DEF TypeOK, servers, gtk, Answer, Kill, Goto
<1>2. Locked'
  BY DEF Locked, TypeOK, Thread, servers, gtk, Goto, Answer, Idle, Kill, Holding
<1>3. SlotEmptied'
  BY DEF SlotEmptied, TypeOK, Thread, servers, gtk, Goto, Answer, Idle, Kill,
      Holding, Locked
<1>4. VictimTaken'
  BY DEF VictimTaken, TypeOK, Thread, servers, gtk, Goto, Answer, Idle, Kill,
      Holding
<1>5. EpochsPast'
  BY DEF EpochsPast, TypeOK, Thread, servers, gtk, Goto, Answer, Idle, Kill,
      Holding
<1>6. QuietEmpty'
  BY DEF QuietEmpty, TypeOK, Thread, servers, gtk, Goto, Answer, Idle, Kill,
      Holding, Reading, Current
<1>7. MineMatches'
  BY DEF MineMatches, TypeOK, Thread, servers, gtk, Goto, Answer, Idle, Kill,
      Holding, Locked, StopStarting
<1>8. NoOrphan'
  BY DEF NoOrphan, TypeOK, Thread, servers, gtk, Goto, Answer, Idle, Kill,
      Holding, Owned, Locked, SlotEmptied, VictimTaken, MineMatches,
      StopStarting
<1> QED BY <1>1, <1>2, <1>3, <1>4, <1>5, <1>6, <1>7, <1>8

(* A thread sees its deadline or its cancellation.                         *)
LEMMA GiveUpKeeps ==
  ASSUME SidecarInv, NEW w \in Worker, GiveUp(w)
  PROVE  SidecarInv'
<1> USE SidecarAssumption DEF SidecarInv, GiveUp
<1>1. TypeOK'
  <2>1. thread' \in [Worker -> Thread]
    BY AnswerTyped
  <2> QED BY <2>1 DEF TypeOK, servers, gtk, Answer, Kill, Goto
<1>2. Locked'
  BY DEF Locked, TypeOK, Thread, servers, gtk, Goto, Answer, Idle, Kill, Holding
<1>3. SlotEmptied'
  BY DEF SlotEmptied, TypeOK, Thread, servers, gtk, Goto, Answer, Idle, Kill,
      Holding, Locked
<1>4. VictimTaken'
  BY DEF VictimTaken, TypeOK, Thread, servers, gtk, Goto, Answer, Idle, Kill,
      Holding
<1>5. EpochsPast'
  BY DEF EpochsPast, TypeOK, Thread, servers, gtk, Goto, Answer, Idle, Kill,
      Holding
<1>6. QuietEmpty'
  BY DEF QuietEmpty, TypeOK, Thread, servers, gtk, Goto, Answer, Idle, Kill,
      Holding, Reading, Current
<1>7. MineMatches'
  BY DEF MineMatches, TypeOK, Thread, servers, gtk, Goto, Answer, Idle, Kill,
      Holding, Locked, StopStarting
<1>8. NoOrphan'
  BY DEF NoOrphan, TypeOK, Thread, servers, gtk, Goto, Answer, Idle, Kill,
      Holding, Owned, Locked, SlotEmptied, VictimTaken, MineMatches,
      StopStarting
<1> QED BY <1>1, <1>2, <1>3, <1>4, <1>5, <1>6, <1>7, <1>8

(* A thread gets the request lock.                                         *)
LEMMA AcquireKeeps ==
  ASSUME SidecarInv, NEW w \in Worker, Acquire(w)
  PROVE  SidecarInv'
<1> USE SidecarAssumption DEF SidecarInv, Acquire
<1>1. TypeOK'
  <2>1. thread' \in [Worker -> Thread]
    BY GotoTyped DEF Goto, Holding
  <2> QED BY <2>1 DEF TypeOK, servers, gtk, Answer, Kill, Goto
<1>2. Locked'
  BY DEF Locked, TypeOK, Thread, servers, gtk, Goto, Answer, Idle, Kill, Holding
<1>3. SlotEmptied'
  BY DEF SlotEmptied, TypeOK, Thread, servers, gtk, Goto, Answer, Idle, Kill,
      Holding, Locked
<1>4. VictimTaken'
  BY DEF VictimTaken, TypeOK, Thread, servers, gtk, Goto, Answer, Idle, Kill,
      Holding
<1>5. EpochsPast'
  BY DEF EpochsPast, TypeOK, Thread, servers, gtk, Goto, Answer, Idle, Kill,
      Holding
<1>6. QuietEmpty'
  BY DEF QuietEmpty, TypeOK, Thread, servers, gtk, Goto, Answer, Idle, Kill,
      Holding, Reading, Current
<1>7. MineMatches'
  BY DEF MineMatches, TypeOK, Thread, servers, gtk, Goto, Answer, Idle, Kill,
      Holding, Locked, StopStarting
<1>8. NoOrphan'
  BY DEF NoOrphan, TypeOK, Thread, servers, gtk, Goto, Answer, Idle, Kill,
      Holding, Owned, Locked, SlotEmptied, VictimTaken, MineMatches,
      StopStarting
<1> QED BY <1>1, <1>2, <1>3, <1>4, <1>5, <1>6, <1>7, <1>8

(* A thread reads the epoch that its server will belong to.                *)
LEMMA ReadEpochKeeps ==
  ASSUME SidecarInv, NEW w \in Worker, ReadEpoch(w)
  PROVE  SidecarInv'
<1> USE SidecarAssumption DEF SidecarInv, ReadEpoch
<1>1. TypeOK'
  <2>1. thread' \in [Worker -> Thread]
    <3>1. epoch \in Nat
      BY DEF TypeOK
    <3> QED BY <3>1, EpochTyped
  <2> QED BY <2>1 DEF TypeOK, servers, gtk, Answer, Kill, Goto
<1>2. Locked'
  BY DEF Locked, TypeOK, Thread, servers, gtk, Goto, Answer, Idle, Kill, Holding
<1>3. SlotEmptied'
  BY DEF SlotEmptied, TypeOK, Thread, servers, gtk, Goto, Answer, Idle, Kill,
      Holding, Locked
<1>4. VictimTaken'
  BY DEF VictimTaken, TypeOK, Thread, servers, gtk, Goto, Answer, Idle, Kill,
      Holding
<1>5. EpochsPast'
  BY DEF EpochsPast, TypeOK, Thread, servers, gtk, Goto, Answer, Idle, Kill,
      Holding
<1>6. QuietEmpty'
  BY DEF QuietEmpty, TypeOK, Thread, servers, gtk, Goto, Answer, Idle, Kill,
      Holding, Reading, Current
<1>7. MineMatches'
  BY DEF MineMatches, TypeOK, Thread, servers, gtk, Goto, Answer, Idle, Kill,
      Holding, Locked, StopStarting
<1>8. NoOrphan'
  BY DEF NoOrphan, TypeOK, Thread, servers, gtk, Goto, Answer, Idle, Kill,
      Holding, Owned, Locked, SlotEmptied, VictimTaken, MineMatches,
      StopStarting
<1> QED BY <1>1, <1>2, <1>3, <1>4, <1>5, <1>6, <1>7, <1>8

(* A thread takes the installed server out of the slot, and kills one      *)
(* that does not fit.                                                      *)
LEMMA TakeServerKeeps ==
  ASSUME SidecarInv, NEW w \in Worker, TakeServer(w)
  PROVE  SidecarInv'
<1> USE SidecarAssumption DEF SidecarInv, TakeServer
<1>1. TypeOK'
  <2>1. thread' \in [Worker -> Thread]
    <3>1. CASE Reusable(w)
      <4>1. slot \in Server
        BY <3>1 DEF Reusable, TypeOK
      <4>2. thread' = [thread EXCEPT ![w].pc = "install", ![w].mine = slot]
        BY <3>1
      <4> QED BY <4>1, <4>2, ReuseTyped
    <3>2. CASE ~Reusable(w)
      <4>1. thread' = [thread EXCEPT ![w].pc = "spawn"]
        BY <3>2 DEF Goto
      <4> QED BY <4>1, GotoTyped DEF Holding
    <3> QED BY <3>1, <3>2
  <2> QED BY <2>1 DEF TypeOK, servers, gtk, Answer, Kill, Goto
<1>2. Locked'
  BY DEF Locked, TypeOK, Thread, servers, gtk, Goto, Answer, Idle, Kill, Holding
<1>3. SlotEmptied'
  BY DEF SlotEmptied, TypeOK, Thread, servers, gtk, Goto, Answer, Idle, Kill,
      Holding, Locked
<1>4. VictimTaken'
  BY DEF VictimTaken, TypeOK, Thread, servers, gtk, Goto, Answer, Idle, Kill,
      Holding
<1>5. EpochsPast'
  BY DEF EpochsPast, TypeOK, Thread, servers, gtk, Goto, Answer, Idle, Kill,
      Holding
<1>6. QuietEmpty'
  BY DEF QuietEmpty, TypeOK, Thread, servers, gtk, Goto, Answer, Idle, Kill,
      Holding, Reading, Current
<1>7. MineMatches'
  <2>1. CASE Reusable(w)
    BY <2>1 DEF MineMatches, TypeOK, Thread, Reusable, gtk
  <2>2. CASE ~Reusable(w)
    BY <2>2 DEF MineMatches, TypeOK, Thread, Goto, gtk
  <2> QED BY <2>1, <2>2
<1>8. NoOrphan'
  BY DEF NoOrphan, TypeOK, Thread, servers, gtk, Goto, Answer, Idle, Kill,
      Holding, Owned, Locked, SlotEmptied, VictimTaken, MineMatches,
      StopStarting
<1> QED BY <1>1, <1>2, <1>3, <1>4, <1>5, <1>6, <1>7, <1>8

(* A thread starts a process of its own.                                   *)
LEMMA SpawnKeeps ==
  ASSUME SidecarInv, NEW w \in Worker, Spawn(w)
  PROVE  SidecarInv'
<1> USE SidecarAssumption DEF SidecarInv, Spawn
<1>1. TypeOK'
  <2>1. thread' \in [Worker -> Thread]
    <3>1. ASSUME NEW s \in Free, thread' = [thread EXCEPT ![w].pc = "starting", ![w].mine = s]
          PROVE  thread' \in [Worker -> Thread]
      <4>1. s \in Server
        BY DEF Free
      <4> QED BY <3>1, <4>1, MineTyped
    <3>2. CASE thread' = [thread EXCEPT ![w] = Idle]
      BY <3>2, AnswerTyped
    <3> QED BY <3>1, <3>2 DEF Answer
  <2>2. live' \in SUBSET Server /\ model' \in [Server -> Model \cup {None}]
    <3>1. thread[w].want \in Model \cup {None}
      BY DEF TypeOK, Thread
    <3> QED BY <3>1 DEF TypeOK, Free
  <2>3. lock' \in Worker \cup {None}
    BY DEF TypeOK, Answer
  <2> QED BY <2>1, <2>2, <2>3 DEF TypeOK
<1>2. Locked'
  BY DEF Locked, TypeOK, Thread, servers, gtk, Goto, Answer, Idle, Kill, Holding
<1>3. SlotEmptied'
  BY DEF SlotEmptied, TypeOK, Thread, servers, gtk, Goto, Answer, Idle, Kill,
      Holding, Locked
<1>4. VictimTaken'
  BY DEF VictimTaken, TypeOK, Thread, servers, gtk, Goto, Answer, Idle, Kill,
      Holding
<1>5. EpochsPast'
  BY DEF EpochsPast, TypeOK, Thread, servers, gtk, Goto, Answer, Idle, Kill,
      Holding
<1>6. QuietEmpty'
  BY DEF QuietEmpty, TypeOK, Thread, servers, gtk, Goto, Answer, Idle, Kill,
      Holding, Reading, Current
<1>7. MineMatches'
  <2>1. CASE \E s \in Free :
               /\ model' = [model EXCEPT ![s] = thread[w].want]
               /\ thread' = [thread EXCEPT ![w].pc = "starting", ![w].mine = s]
    <3>1. PICK s \in Free :
            /\ model' = [model EXCEPT ![s] = thread[w].want]
            /\ thread' = [thread EXCEPT ![w].pc = "starting", ![w].mine = s]
      BY <2>1
    <3>2. s \in Server /\ \A v \in Worker : thread[v].mine # s
      BY DEF Free
    <3>3. ASSUME NEW v \in Worker, v # w, thread'[v].pc \in {"starting", "install", "request"}
          PROVE  thread'[v].mine \in Server /\ model'[thread'[v].mine] = thread'[v].want
      BY <3>1, <3>2, <3>3 DEF MineMatches, TypeOK, Thread
    <3>4. thread'[w].mine \in Server /\ model'[thread'[w].mine] = thread'[w].want
      BY <3>1, <3>2 DEF TypeOK, Thread
    <3> QED BY <3>3, <3>4 DEF MineMatches
  <2>2. CASE Answer(w) /\ UNCHANGED model
    BY <2>2 DEF MineMatches, TypeOK, Thread, Answer, Idle
  <2> QED BY <2>1, <2>2
<1>8. NoOrphan'
  BY DEF NoOrphan, TypeOK, Thread, servers, gtk, Goto, Answer, Idle, Kill,
      Holding, Owned, Locked, SlotEmptied, VictimTaken, MineMatches,
      StopStarting
<1> QED BY <1>1, <1>2, <1>3, <1>4, <1>5, <1>6, <1>7, <1>8

(* The process answers the health check, dies, or is late.                 *)
LEMMA StartupKeeps ==
  ASSUME SidecarInv, NEW w \in Worker, Startup(w)
  PROVE  SidecarInv'
<1> USE SidecarAssumption DEF SidecarInv, Startup
<1>1. TypeOK'
  <2>1. thread' \in [Worker -> Thread]
    <3>1. \/ thread' = [thread EXCEPT ![w].pc = "install"]
          \/ thread' = [thread EXCEPT ![w] = Idle]
      BY DEF Goto, Answer
    <3>2. CASE thread' = [thread EXCEPT ![w].pc = "install"]
      BY <3>2, GotoTyped DEF Holding
    <3>3. CASE thread' = [thread EXCEPT ![w] = Idle]
      BY <3>3, AnswerTyped
    <3> QED BY <3>1, <3>2, <3>3
  <2>2. live' \in SUBSET Server /\ lock' \in Worker \cup {None}
    BY DEF TypeOK, Kill, StopStarting, Answer
  <2> QED BY <2>1, <2>2 DEF TypeOK, gtk
<1>2. Locked'
  BY DEF Locked, TypeOK, Thread, servers, gtk, Goto, Answer, Idle, Kill, Holding
<1>3. SlotEmptied'
  BY DEF SlotEmptied, TypeOK, Thread, servers, gtk, Goto, Answer, Idle, Kill,
      Holding, Locked
<1>4. VictimTaken'
  BY DEF VictimTaken, TypeOK, Thread, servers, gtk, Goto, Answer, Idle, Kill,
      Holding
<1>5. EpochsPast'
  BY DEF EpochsPast, TypeOK, Thread, servers, gtk, Goto, Answer, Idle, Kill,
      Holding
<1>6. QuietEmpty'
  BY DEF QuietEmpty, TypeOK, Thread, servers, gtk, Goto, Answer, Idle, Kill,
      Holding, Reading, Current
<1>7. MineMatches'
  BY DEF MineMatches, TypeOK, Thread, servers, gtk, Goto, Answer, Idle, Kill,
      Holding, Locked, StopStarting
<1>8. NoOrphan'
  <2>1. CASE thread[w].mine \in live /\ Goto(w, "install") /\ UNCHANGED <<lock, live>>
    BY <2>1 DEF NoOrphan, Owned, TypeOK, Thread, Goto, gtk
  <2>2. CASE thread[w].mine \notin live /\ Answer(w) /\ UNCHANGED live
    BY <2>2 DEF NoOrphan, Owned, TypeOK, Thread, Answer, Idle, gtk
  <2>3. CASE StopStarting(w) /\ Answer(w)
    BY <2>3 DEF NoOrphan, Owned, TypeOK, Thread, StopStarting, Kill, Answer,
        Idle, gtk
  <2> QED BY <2>1, <2>2, <2>3
<1> QED BY <1>1, <1>2, <1>3, <1>4, <1>5, <1>6, <1>7, <1>8

(* A thread puts its server into the slot, unless the epoch has moved.     *)
LEMMA InstallKeeps ==
  ASSUME SidecarInv, NEW w \in Worker, Install(w)
  PROVE  SidecarInv'
<1> USE SidecarAssumption DEF SidecarInv, Install
<1>1. TypeOK'
  <2>1. thread' \in [Worker -> Thread]
    <3>1. \/ thread' = [thread EXCEPT ![w].pc = "request"]
          \/ thread' = [thread EXCEPT ![w] = Idle]
      BY DEF Goto, Answer
    <3>2. CASE thread' = [thread EXCEPT ![w].pc = "request"]
      BY <3>2, GotoTyped DEF Holding
    <3>3. CASE thread' = [thread EXCEPT ![w] = Idle]
      BY <3>3, AnswerTyped
    <3> QED BY <3>1, <3>2, <3>3
  <2>2. live' \in SUBSET Server /\ lock' \in Worker \cup {None}
    BY DEF TypeOK, Kill, Answer
  <2>3. slot' \in Server \cup {None}
    BY DEF TypeOK, Thread
  <2> QED BY <2>1, <2>2, <2>3 DEF TypeOK, gtk
<1>2. Locked'
  BY DEF Locked, TypeOK, Thread, servers, gtk, Goto, Answer, Idle, Kill, Holding
<1>3. SlotEmptied'
  BY DEF SlotEmptied, TypeOK, Thread, servers, gtk, Goto, Answer, Idle, Kill,
      Holding, Locked
<1>4. VictimTaken'
  BY DEF VictimTaken, TypeOK, Thread, servers, gtk, Goto, Answer, Idle, Kill,
      Holding
<1>5. EpochsPast'
  BY DEF EpochsPast, TypeOK, Thread, servers, gtk, Goto, Answer, Idle, Kill,
      Holding
<1>6. QuietEmpty'
  BY DEF QuietEmpty, TypeOK, Thread, servers, gtk, Goto, Answer, Idle, Kill,
      Holding, Reading, Current
<1>7. MineMatches'
  BY DEF MineMatches, TypeOK, Thread, servers, gtk, Goto, Answer, Idle, Kill,
      Holding, Locked, StopStarting
<1>8. NoOrphan'
  BY DEF NoOrphan, TypeOK, Thread, servers, gtk, Goto, Answer, Idle, Kill,
      Holding, Owned, Locked, SlotEmptied, VictimTaken, MineMatches,
      StopStarting
<1> QED BY <1>1, <1>2, <1>3, <1>4, <1>5, <1>6, <1>7, <1>8

(* The request to the server ends.                                         *)
LEMMA RequestKeeps ==
  ASSUME SidecarInv, NEW w \in Worker, Request(w)
  PROVE  SidecarInv'
<1> USE SidecarAssumption DEF SidecarInv, Request
<1>1. TypeOK'
  <2>1. thread' \in [Worker -> Thread]
    <3>1. \/ thread' = [thread EXCEPT ![w].pc = "retry"]
          \/ thread' = [thread EXCEPT ![w].pc = "cleanup"]
          \/ thread' = [thread EXCEPT ![w] = Idle]
      BY DEF Goto, Answer
    <3>2. CASE thread' = [thread EXCEPT ![w].pc = "retry"]
      BY <3>2, GotoTyped DEF Holding
    <3>3. CASE thread' = [thread EXCEPT ![w].pc = "cleanup"]
      BY <3>3, GotoTyped DEF Holding
    <3>4. CASE thread' = [thread EXCEPT ![w] = Idle]
      BY <3>4, AnswerTyped
    <3> QED BY <3>1, <3>2, <3>3, <3>4
  <2> QED BY <2>1 DEF TypeOK, servers, gtk, Answer, Kill, Goto
<1>2. Locked'
  BY DEF Locked, TypeOK, Thread, servers, gtk, Goto, Answer, Idle, Kill, Holding
<1>3. SlotEmptied'
  BY DEF SlotEmptied, TypeOK, Thread, servers, gtk, Goto, Answer, Idle, Kill,
      Holding, Locked
<1>4. VictimTaken'
  BY DEF VictimTaken, TypeOK, Thread, servers, gtk, Goto, Answer, Idle, Kill,
      Holding
<1>5. EpochsPast'
  BY DEF EpochsPast, TypeOK, Thread, servers, gtk, Goto, Answer, Idle, Kill,
      Holding
<1>6. QuietEmpty'
  BY DEF QuietEmpty, TypeOK, Thread, servers, gtk, Goto, Answer, Idle, Kill,
      Holding, Reading, Current
<1>7. MineMatches'
  BY DEF MineMatches, TypeOK, Thread, servers, gtk, Goto, Answer, Idle, Kill,
      Holding, Locked, StopStarting
<1>8. NoOrphan'
  BY DEF NoOrphan, TypeOK, Thread, servers, gtk, Goto, Answer, Idle, Kill,
      Holding, Owned, Locked, SlotEmptied, VictimTaken, MineMatches,
      StopStarting
<1> QED BY <1>1, <1>2, <1>3, <1>4, <1>5, <1>6, <1>7, <1>8

(* The one retry after a reused server failed.                             *)
LEMMA RetryKeeps ==
  ASSUME SidecarInv, NEW w \in Worker, Retry(w)
  PROVE  SidecarInv'
<1> USE SidecarAssumption DEF SidecarInv, Retry
<1>1. TypeOK'
  <2>1. thread' \in [Worker -> Thread]
    <3>1. \/ thread' = [thread EXCEPT ![w].pc = "respawn"]
          \/ thread' = [thread EXCEPT ![w] = Idle]
      BY DEF Goto, Answer
    <3>2. CASE thread' = [thread EXCEPT ![w].pc = "respawn"]
      BY <3>2, GotoTyped DEF Holding
    <3>3. CASE thread' = [thread EXCEPT ![w] = Idle]
      BY <3>3, AnswerTyped
    <3> QED BY <3>1, <3>2, <3>3
  <2> QED BY <2>1 DEF TypeOK, servers, gtk, Answer, Kill, Goto
<1>2. Locked'
  BY DEF Locked, TypeOK, Thread, servers, gtk, Goto, Answer, Idle, Kill, Holding
<1>3. SlotEmptied'
  BY DEF SlotEmptied, TypeOK, Thread, servers, gtk, Goto, Answer, Idle, Kill,
      Holding, Locked
<1>4. VictimTaken'
  BY DEF VictimTaken, TypeOK, Thread, servers, gtk, Goto, Answer, Idle, Kill,
      Holding
<1>5. EpochsPast'
  BY DEF EpochsPast, TypeOK, Thread, servers, gtk, Goto, Answer, Idle, Kill,
      Holding
<1>6. QuietEmpty'
  BY DEF QuietEmpty, TypeOK, Thread, servers, gtk, Goto, Answer, Idle, Kill,
      Holding, Reading, Current
<1>7. MineMatches'
  BY DEF MineMatches, TypeOK, Thread, servers, gtk, Goto, Answer, Idle, Kill,
      Holding, Locked, StopStarting
<1>8. NoOrphan'
  BY DEF NoOrphan, TypeOK, Thread, servers, gtk, Goto, Answer, Idle, Kill,
      Holding, Owned, Locked, SlotEmptied, VictimTaken, MineMatches,
      StopStarting
<1> QED BY <1>1, <1>2, <1>3, <1>4, <1>5, <1>6, <1>7, <1>8

(* A retry kills what is in the slot before it starts another server.      *)
LEMMA RespawnKeeps ==
  ASSUME SidecarInv, NEW w \in Worker, Respawn(w)
  PROVE  SidecarInv'
<1> USE SidecarAssumption DEF SidecarInv, Respawn
<1>1. TypeOK'
  <2>1. thread' \in [Worker -> Thread]
    BY RetriedTyped
  <2> QED BY <2>1 DEF TypeOK, servers, gtk, Answer, Kill, Goto
<1>2. Locked'
  BY DEF Locked, TypeOK, Thread, servers, gtk, Goto, Answer, Idle, Kill, Holding
<1>3. SlotEmptied'
  BY DEF SlotEmptied, TypeOK, Thread, servers, gtk, Goto, Answer, Idle, Kill,
      Holding, Locked
<1>4. VictimTaken'
  BY DEF VictimTaken, TypeOK, Thread, servers, gtk, Goto, Answer, Idle, Kill,
      Holding
<1>5. EpochsPast'
  BY DEF EpochsPast, TypeOK, Thread, servers, gtk, Goto, Answer, Idle, Kill,
      Holding
<1>6. QuietEmpty'
  BY DEF QuietEmpty, TypeOK, Thread, servers, gtk, Goto, Answer, Idle, Kill,
      Holding, Reading, Current
<1>7. MineMatches'
  BY DEF MineMatches, TypeOK, Thread, servers, gtk, Goto, Answer, Idle, Kill,
      Holding, Locked, StopStarting
<1>8. NoOrphan'
  BY DEF NoOrphan, TypeOK, Thread, servers, gtk, Goto, Answer, Idle, Kill,
      Holding, Owned, Locked, SlotEmptied, VictimTaken, MineMatches,
      StopStarting
<1> QED BY <1>1, <1>2, <1>3, <1>4, <1>5, <1>6, <1>7, <1>8

(* After an error the server is killed before the lock is released.        *)
LEMMA CleanupKeeps ==
  ASSUME SidecarInv, NEW w \in Worker, Cleanup(w)
  PROVE  SidecarInv'
<1> USE SidecarAssumption DEF SidecarInv, Cleanup
<1>1. TypeOK'
  <2>1. thread' \in [Worker -> Thread]
    BY AnswerTyped DEF Answer
  <2> QED BY <2>1 DEF TypeOK, servers, gtk, Answer, Kill, Goto
<1>2. Locked'
  BY DEF Locked, TypeOK, Thread, servers, gtk, Goto, Answer, Idle, Kill, Holding
<1>3. SlotEmptied'
  BY DEF SlotEmptied, TypeOK, Thread, servers, gtk, Goto, Answer, Idle, Kill,
      Holding, Locked
<1>4. VictimTaken'
  BY DEF VictimTaken, TypeOK, Thread, servers, gtk, Goto, Answer, Idle, Kill,
      Holding
<1>5. EpochsPast'
  BY DEF EpochsPast, TypeOK, Thread, servers, gtk, Goto, Answer, Idle, Kill,
      Holding
<1>6. QuietEmpty'
  BY DEF QuietEmpty, TypeOK, Thread, servers, gtk, Goto, Answer, Idle, Kill,
      Holding, Reading, Current
<1>7. MineMatches'
  BY DEF MineMatches, TypeOK, Thread, servers, gtk, Goto, Answer, Idle, Kill,
      Holding, Locked, StopStarting
<1>8. NoOrphan'
  BY DEF NoOrphan, TypeOK, Thread, servers, gtk, Goto, Answer, Idle, Kill,
      Holding, Owned, Locked, SlotEmptied, VictimTaken, MineMatches,
      StopStarting
<1> QED BY <1>1, <1>2, <1>3, <1>4, <1>5, <1>6, <1>7, <1>8

(* A shutdown bumps the epoch, takes the server, and kills it.             *)
LEMMA ShutdownKeeps == SidecarInv /\ Shutdown => SidecarInv'
<1>1. ASSUME SidecarInv, ShutdownBump PROVE SidecarInv'
  <2> USE <1>1 DEF SidecarInv, ShutdownBump, servers
  <2>1. TypeOK'
    BY DEF TypeOK
  <2>2. Locked' /\ SlotEmptied' /\ VictimTaken' /\ MineMatches'
    BY DEF Locked, SlotEmptied, VictimTaken, MineMatches
  <2>3. EpochsPast' /\ QuietEmpty'
    BY DEF EpochsPast, QuietEmpty, TypeOK, Thread
  <2>4. NoOrphan'
    BY DEF NoOrphan, Owned
  <2> QED BY <2>1, <2>2, <2>3, <2>4
<1>2. ASSUME SidecarInv, ShutdownTake PROVE SidecarInv'
  BY <1>2 DEF SidecarInv, ShutdownTake, TypeOK, Locked, SlotEmptied,
      VictimTaken,
     EpochsPast, QuietEmpty, MineMatches, NoOrphan, Owned
<1>3. ASSUME SidecarInv, ShutdownKill PROVE SidecarInv'
  BY <1>3 DEF SidecarInv, ShutdownKill, Kill, TypeOK, Locked, SlotEmptied,
     VictimTaken, EpochsPast, QuietEmpty, MineMatches, NoOrphan, Owned
<1> QED BY <1>1, <1>2, <1>3 DEF Shutdown

(* A process dies on its own.                                              *)
LEMMA DiesKeeps == SidecarInv /\ ServerDies => SidecarInv'
<1> SUFFICES ASSUME SidecarInv, NEW s \in live, Kill(s),
                    UNCHANGED <<lock, thread, slot, model, gtk>>
             PROVE  SidecarInv'
  BY DEF ServerDies
<1> QED BY DEF Kill, gtk, SidecarInv, TypeOK, Locked, SlotEmptied, VictimTaken,
        EpochsPast, QuietEmpty, MineMatches, NoOrphan, Owned

(* Nothing changes.                                                        *)
LEMMA StutterKeeps == SidecarInv /\ UNCHANGED vars => SidecarInv'
BY DEF vars, servers, gtk, SidecarInv, TypeOK, Locked, SlotEmptied, VictimTaken,
   EpochsPast, QuietEmpty, MineMatches, NoOrphan, Owned

(* So every step preserves the inductive invariant.                        *)
LEMMA StepKeeps == SidecarInv /\ [Next]_vars => SidecarInv'
BY CallKeeps, GiveUpKeeps, AcquireKeeps, ReadEpochKeeps, TakeServerKeeps,
   SpawnKeeps, StartupKeeps, InstallKeeps, RequestKeeps, RetryKeeps,
   RespawnKeeps, CleanupKeeps, ShutdownKeeps, DiesKeeps, StutterKeeps
   DEF Next, Work

(* The inductive invariant: who may hold which server, and when.           *)
THEOREM SidecarInvariant == Spec => []SidecarInv
<1> QED BY InitHolds, StepKeeps, PTL DEF Spec

(* The types of the variables.                                             *)
THEOREM SidecarTypeCorrect == Spec => []TypeOK
<1>1. SidecarInv => TypeOK
  BY DEF SidecarInv
<1> QED BY SidecarInvariant, <1>1, PTL

(* No server process is leaked, whichever of spawn, health wait, install,  *)
(* request and retry is interrupted, and whenever a shutdown falls.        *)
THEOREM NoOrphanAlways == Spec => []NoOrphan
<1>1. SidecarInv => NoOrphan
  BY DEF SidecarInv
<1> QED BY SidecarInvariant, <1>1, PTL

(* At most one server runs besides the one shutdown_all is killing.        *)
THEOREM OneServerAlways == Spec => []OneServer
<1>1. SidecarInv => OneServer
  <2> SUFFICES ASSUME SidecarInv, NEW s \in live \ {victim}, NEW t \in live \ {victim}
               PROVE  s = t
    BY DEF OneServer
  <2>1. s = slot \/ \E v \in Worker : s \in Owned(v)
    BY DEF SidecarInv, NoOrphan
  <2>2. t = slot \/ \E v \in Worker : t \in Owned(v)
    BY DEF SidecarInv, NoOrphan
  <2>3. \A v \in Worker : Owned(v) # {} => slot = None /\ lock = v
    BY DEF SidecarInv, Owned, SlotEmptied, Locked, Holding
  <2>4. s # None /\ t # None
    BY SidecarAssumption DEF SidecarInv, TypeOK
  <2> QED BY <2>1, <2>2, <2>3, <2>4 DEF Owned
<1> QED BY SidecarInvariant, <1>1, PTL

(* A request from before a shutdown installs nothing after it.             *)
THEOREM ShutdownSticksAlways == Spec => []ShutdownSticks
<1>1. SidecarInv => ShutdownSticks
  BY DEF SidecarInv, QuietEmpty, ShutdownSticks
<1> QED BY SidecarInvariant, <1>1, PTL

(* Audio is only sent to a server that was started with the model asked    *)
(* for.                                                                    *)
THEOREM RightModelAlways == Spec => []RightModel
<1>1. SidecarInv => RightModel
  BY DEF SidecarInv, MineMatches, RightModel
<1> QED BY SidecarInvariant, <1>1, PTL

(* One server at most, never leaked and never of the wrong model.          *)
THEOREM ServerSafetyAlways == Spec => []ServerSafety
BY SidecarTypeCorrect, NoOrphanAlways, OneServerAlways, RightModelAlways, PTL
   DEF ServerSafety

------------------------------------------------------------------------------
(***************************************************************************)
(* The microphone's stream and the cuts of a take, for any limits, guards  *)
(* and lengths of a take: what is committed is spoken, word by word.       *)
(***************************************************************************)
(* Segments that say each sound of the first n frames of s once.           *)
Says(t, s, n) ==
  /\ t \in Seq(Nat \X Nat)
  /\ \A i \in 1..Len(t) : t[i][1] < t[i][2] /\ t[i][2] <= n
  /\ \A i, j \in 1..Len(t) : i < j => t[i][2] <= t[j][1]
  /\ \A m \in 1..n : s[m] > 0 => \E i \in 1..Len(t) : t[i][1] < m /\ m <= t[i][2]

(* They begin with a sound after a silent frame, and end before one.       *)
BeginInSilence(t, s) ==
  \A i \in 1..Len(t) : (t[i][1] = 0 \/ s[t[i][1]] = 0) /\ s[t[i][1] + 1] > 0
EndInSilence(t, s) ==
  \A i \in 1..Len(t) : t[i][2] + 1 <= Len(s) /\ s[t[i][2] + 1] = 0

(* The segments of a sound, of which only the last may reach its end.      *)
SegmentsOf(t, s) ==
  /\ Says(t, s, Len(s)) /\ BeginInSilence(t, s)
  /\ \A i \in 1..Len(t) : t[i][2] = Len(s) \/ s[t[i][2] + 1] = 0

------------------------------------------------------------------------------
(* A finite set of numbers has a least one: the numbers below each are     *)
(* fewer than all, and differ in number.                                   *)
LEMMA LeastExists ==
  ASSUME NEW S \in SUBSET Nat, IsFiniteSet(S), S # {}
  PROVE  /\ Min(S) \in S
         /\ \A x \in S : Min(S) <= x
<1> DEFINE Below(i) == {j \in S : j < i}
           rank == [i \in S |-> Cardinality(Below(i))]
           n == Cardinality(S)
<1>1. n \in Nat /\ n # 0
  BY FS_CardinalityType, FS_EmptySet
<1>2. ASSUME NEW i \in S
      PROVE  IsFiniteSet(Below(i)) /\ rank[i] \in 0..(n - 1)
  <2>1. Below(i) \in SUBSET S /\ i \in S \ Below(i)
    OBVIOUS
  <2>2. IsFiniteSet(Below(i)) /\ Cardinality(Below(i)) <= n /\ Cardinality(Below(i)) # n
    BY <2>1, FS_Subset
  <2>3. Cardinality(Below(i)) \in Nat
    BY <2>2, FS_CardinalityType
  <2> QED BY <1>1, <2>2, <2>3
<1>3. ASSUME NEW i \in S, NEW k \in S, i < k
      PROVE  rank[i] # rank[k]
  <2>1. Below(i) \in SUBSET Below(k) /\ i \in Below(k) \ Below(i)
    <3>1. i \in Nat /\ k \in Nat
      OBVIOUS
    <3>2. ASSUME NEW j \in S, j < i PROVE j < k
      <4>1. j \in Nat
        OBVIOUS
      <4> QED BY ONLY <1>3, <3>1, <3>2, <4>1
    <3>3. ~(i < i)
      BY ONLY <3>1
    <3> QED BY <1>3, <3>2, <3>3
  <2>2. IsFiniteSet(Below(k))
    BY <1>2
  <2>3. Cardinality(Below(i)) # Cardinality(Below(k))
    BY <2>1, <2>2, FS_Subset
  <2> QED BY <2>3
<1>4. rank \in Injection(S, 0..(n - 1))
  <2>1. rank \in [S -> 0..(n - 1)]
    BY <1>2
  <2>2. ASSUME NEW i \in S, NEW k \in S, i # k
        PROVE  rank[i] # rank[k]
    <3>1. i < k \/ k < i
      BY <2>2
    <3> HIDE DEF rank
    <3> QED BY <1>3, <3>1
  <2> HIDE DEF rank
  <2> QED BY <2>1, <2>2 DEF Injection, IsInjective
<1>5. rank \in Surjection(S, 0..(n - 1))
  <2>1. IsFiniteSet(0..(n - 1)) /\ Cardinality(0..(n - 1)) = n
    BY <1>1, FS_Interval
  <2> HIDE DEF rank
  <2> QED BY <1>4, <2>1, FS_Injection
<1>6. PICK i \in S : rank[i] = 0
  <2>1. 0 \in 0..(n - 1)
    BY <1>1
  <2> HIDE DEF rank
  <2> QED BY <1>5, <2>1 DEF Surjection
<1>7. Below(i) = {}
  BY <1>2, <1>6, FS_EmptySet
<1>8. \A x \in S : i <= x
  BY <1>7
<1> HIDE DEF rank, Below, n
<1> QED BY <1>8 DEF Min

(* And a greatest one, if it is bounded.                                   *)
LEMMA GreatestExists ==
  ASSUME NEW n \in Nat, NEW S \in SUBSET (0..n), S # {}
  PROVE  /\ Max(S) \in S
         /\ \A x \in S : x <= Max(S)
<1> DEFINE T == {n - x : x \in S}
<1>1. T \in SUBSET Nat /\ T # {} /\ \A x \in T : x <= n
  <2>1. ASSUME NEW y \in S PROVE n - y \in Nat /\ n - y <= n
    <3>1. y \in 0..n
      OBVIOUS
    <3> QED BY ONLY <3>1, n \in Nat
  <2> QED BY <2>1
<1>2. IsFiniteSet(T)
  BY <1>1, FS_BoundedSetOfNaturals
<1>3. Min(T) \in T /\ \A x \in T : Min(T) <= x
  BY <1>1, <1>2, LeastExists
<1>4. PICK m \in S : Min(T) = n - m
  BY <1>3
<1>5. ASSUME NEW x \in S PROVE x <= m
  <2>1. n - m <= n - x
    BY <1>3, <1>4
  <2> QED BY <2>1
<1> QED BY <1>5 DEF Max

(* Numbers below a bound have a least one.                                 *)
LEMMA LeastOfBounded ==
  ASSUME NEW n \in Nat, NEW S \in SUBSET (0..n), S # {}
  PROVE  /\ Min(S) \in S
         /\ \A x \in S : Min(S) <= x
BY FS_BoundedSetOfNaturals, LeastExists

------------------------------------------------------------------------------
(* The words of a sound are in it, and begin and end where it is silent.   *)
LEMMA WordsAreStretches ==
  ASSUME NEW s \in Seq(Loudness)
  PROVE  /\ Words(s) \in SUBSET (Nat \X Nat) /\ IsFiniteSet(Words(s))
         /\ \A w \in Words(s) :
              /\ w[1] < w[2] /\ w[2] <= Len(s)
              /\ w[1] = 0 \/ s[w[1]] = 0
              /\ s[w[1] + 1] > 0
              /\ w[2] = Len(s) \/ s[w[2] + 1] = 0
<1>1. Len(s) \in Nat /\ DOMAIN s = 1..Len(s) /\ \A i \in 1..Len(s) : s[i] \in 0..2
  BY DEF Loudness
<1>2. ASSUME NEW w \in Words(s)
      PROVE  /\ w \in (0..Len(s)) \X (0..Len(s))
             /\ w[1] < w[2] /\ w[2] <= Len(s)
             /\ w[1] = 0 \/ s[w[1]] = 0
             /\ s[w[1] + 1] > 0
             /\ w[2] = Len(s) \/ s[w[2] + 1] = 0
  <2> DEFINE loud == {i \in DOMAIN s : s[i] > 0}
  <2>1. PICK v \in loud \X loud :
          /\ w = <<v[1] - 1, v[2]>> /\ v[1] <= v[2]
          /\ v[1] - 1 \notin loud /\ v[2] + 1 \notin loud
    BY DEF Words
  <2>2. v[1] \in 1..Len(s) /\ v[2] \in 1..Len(s)
    BY <1>1, <2>1
  <2>3. w[1] = v[1] - 1 /\ w[2] = v[2]
    BY <2>1
  <2>4. w[1] \in 0..Len(s) /\ w[2] \in 0..Len(s) /\ w[1] < w[2]
    BY <1>1, <2>1, <2>2, <2>3
  <2>5. w[1] = 0 \/ s[w[1]] = 0
    BY <1>1, <2>1, <2>2, <2>3
  <2>6. w[2] = Len(s) \/ s[w[2] + 1] = 0
    <3>1. SUFFICES ASSUME v[2] # Len(s) PROVE s[v[2] + 1] = 0
      BY <2>3
    <3>2. v[2] + 1 \in 1..Len(s)
      BY <1>1, <2>2, <3>1
    <3> QED BY <1>1, <2>1, <3>2
  <2>7. s[w[1] + 1] > 0
    <3>1. w[1] + 1 = v[1]
      BY <1>1, <2>2, <2>3
    <3> QED BY <2>1, <3>1
  <2> QED BY <1>1, <2>1, <2>3, <2>4, <2>5, <2>6, <2>7
<1>3. IsFiniteSet(Words(s))
  <2>1. IsFiniteSet(0..Len(s))
    BY <1>1, FS_Interval
  <2>2. IsFiniteSet((0..Len(s)) \X (0..Len(s)))
    BY <2>1, FS_Product
  <2> QED BY <1>2, <2>2, FS_Subset
<1> QED BY <1>1, <1>2, <1>3

(* Every sound is in a word: between the last silence before it and the    *)
(* first one after it.                                                     *)
LEMMA SoundIsInAWord ==
  ASSUME NEW s \in Seq(Loudness), NEW m \in 1..Len(s), s[m] > 0
  PROVE  \E w \in Words(s) : w[1] < m /\ m <= w[2]
<1> DEFINE n == Len(s)
           loud == {i \in DOMAIN s : s[i] > 0}
           before == {i \in 0..(m - 1) : i \notin loud}
           after == {i \in 0..(n + 1) : m < i /\ i \notin loud}
           p == Max(before)
           q == Min(after)
<1>1. n \in Nat /\ DOMAIN s = 1..n /\ m \in loud
  OBVIOUS
<1>2. 0 \in before /\ n + 1 \in after
  BY <1>1
<1>3. p \in before /\ \A x \in before : x <= p
  <2>1. m - 1 \in Nat /\ before \in SUBSET (0..(m - 1)) /\ before # {}
    BY <1>1, <1>2
  <2> HIDE DEF before, loud
  <2> QED BY <2>1, GreatestExists
<1>4. q \in after /\ \A x \in after : q <= x
  <2>1. n + 1 \in Nat /\ after \in SUBSET (0..(n + 1)) /\ after # {}
    BY <1>1, <1>2
  <2> HIDE DEF after, loud, n
  <2> QED BY <2>1, LeastOfBounded
<1> HIDE DEF p, q
<1>5. p \in Nat /\ q \in Nat /\ p < m /\ m < q /\ q <= n + 1 /\ p \notin loud /\ q \notin loud
  BY <1>1, <1>3, <1>4
<1>6. ASSUME NEW i \in (p + 1)..(q - 1) PROVE i \in loud
  <2>1. CASE i < m
    BY <1>1, <1>3, <1>5, <2>1
  <2>2. CASE i = m
    BY <1>1, <2>2
  <2>3. CASE i > m
    BY <1>1, <1>4, <1>5, <2>3
  <2> QED BY <1>5, <2>1, <2>2, <2>3
<1>7. p + 1 \in loud /\ q - 1 \in loud /\ p + 1 <= q - 1
  BY <1>5, <1>6
<1>8. (p + 1) - 1 = p /\ (q - 1) + 1 = q
  BY <1>5
<1> DEFINE v == <<p + 1, q - 1>>
<1>9. /\ v \in loud \X loud /\ v[1] = p + 1 /\ v[2] = q - 1
      /\ v[1] <= v[2] /\ v[1]..v[2] \subseteq loud
      /\ v[1] - 1 \notin loud /\ v[2] + 1 \notin loud
  BY <1>5, <1>6, <1>7, <1>8
<1>10. <<v[1] - 1, v[2]>> \in Words(s)
  <2> HIDE DEF v
  <2> QED BY <1>9 DEF Words
<1>11. <<v[1] - 1, v[2]>>[1] < m /\ m <= <<v[1] - 1, v[2]>>[2]
  BY <1>5, <1>9
<1> QED BY <1>10, <1>11

(* The words in order are segments of the sound they are of.               *)
LEMMA OrderedWords ==
  ASSUME NEW s \in Seq(Loudness), NEW t \in InOrder(Words(s))
  PROVE  SegmentsOf(t, s)
<1> DEFINE n == Cardinality(Words(s))
<1>1. n \in Nat
  BY WordsAreStretches, FS_CardinalityType
<1>2. /\ t \in [1..n -> Words(s)] /\ DOMAIN t = 1..n
      /\ \A i, j \in 1..n : i < j => t[i][2] <= t[j][1]
  BY DEF InOrder
<1>3. t \in Seq(Words(s)) /\ Len(t) = n
  BY <1>1, <1>2
<1>4. \A i \in 1..n : t[i] \in Words(s) /\ t[i] \in Nat \X Nat /\ t[i][1] \in Nat /\ t[i][2] \in Nat
  BY <1>2, WordsAreStretches
<1>5. t \in Seq(Nat \X Nat)
  BY <1>1, <1>2, <1>4
<1>6. t \in Surjection(1..n, Words(s))
  <2>1. ASSUME NEW i \in 1..n, NEW j \in 1..n, i < j
        PROVE  t[i] # t[j]
    BY <1>2, <1>4, <2>1, WordsAreStretches
  <2>2. \A i, j \in 1..n : t[i] = t[j] => i = j
    BY <1>1, <2>1
  <2>3. t \in Injection(1..n, Words(s))
    BY <1>2, <2>2 DEF Injection, IsInjective
  <2>4. Cardinality(1..n) = n
    BY <1>1, FS_Interval
  <2> QED BY <2>3, <2>4, WordsAreStretches, FS_Injection
<1>7. \A w \in Words(s) : \E i \in 1..n : t[i] = w
  BY <1>6 DEF Surjection
<1>8. ASSUME NEW m \in 1..Len(s), s[m] > 0
      PROVE  \E i \in 1..n : t[i][1] < m /\ m <= t[i][2]
  <2>1. PICK w \in Words(s) : w[1] < m /\ m <= w[2]
    BY <1>8, SoundIsInAWord
  <2>2. PICK i \in 1..n : t[i] = w
    BY <1>7
  <2> QED BY <2>1, <2>2
<1>9. Says(t, s, Len(s))
  BY <1>2, <1>3, <1>4, <1>5, <1>8, WordsAreStretches DEF Says
<1> QED BY <1>3, <1>4, <1>9, WordsAreStretches DEF SegmentsOf, BeginInSilence

(* All the words as one segment say every sound as well.                   *)
LEMMA DecodedSegments ==
  ASSUME NEW s \in Seq(Loudness), NEW t \in Decoded(s)
  PROVE  SegmentsOf(t, s)
<1>1. PICK fine \in InOrder(Words(s)) :
        t = fine \/ (fine # <<>> /\ t = <<(<<fine[1][1], Last(fine)[2]>>)>>)
  BY DEF Decoded
<1>2. SegmentsOf(fine, s)
  BY <1>1, OrderedWords
<1>3. CASE fine # <<>> /\ t = <<(<<fine[1][1], Last(fine)[2]>>)>>
  <2> DEFINE n == Len(fine)
             a == fine[1][1]
             b == fine[n][2]
  <2>1. /\ fine \in Seq(Nat \X Nat) /\ n \in Nat /\ 1 \in 1..n /\ n \in 1..n
        /\ \A i \in 1..n : fine[i][1] \in Nat /\ fine[i][2] \in Nat
    BY <1>2, <1>3 DEF SegmentsOf, Says
  <2>2. t = <<(<<a, b>>)>> /\ Len(t) = 1 /\ t[1][1] = a /\ t[1][2] = b
    BY <1>3 DEF Last
  <2>3. t \in Seq(Nat \X Nat)
    BY <2>1, <2>2
  <2>4. \A i \in 1..n : a <= fine[i][1] /\ fine[i][2] <= b
    <3> TAKE i \in 1..n
    <3>1. i = 1 \/ (fine[1][1] < fine[1][2] /\ fine[1][2] <= fine[i][1])
      BY <1>2, <2>1 DEF SegmentsOf, Says
    <3>2. i = n \/ (fine[i][2] <= fine[n][1] /\ fine[n][1] < fine[n][2])
      BY <1>2, <2>1 DEF SegmentsOf, Says
    <3> QED BY <2>1, <3>1, <3>2
  <2>5. a < b /\ b <= Len(s)
    BY <1>2, <2>1, <2>4 DEF SegmentsOf, Says
  <2>6. ASSUME NEW m \in 1..Len(s), s[m] > 0 PROVE a < m /\ m <= b
    <3>1. PICK i \in 1..n : fine[i][1] < m /\ m <= fine[i][2]
      BY <1>2, <2>6 DEF SegmentsOf, Says
    <3> QED BY <2>1, <2>4, <3>1
  <2>7. (a = 0 \/ s[a] = 0) /\ s[a + 1] > 0 /\ (b = Len(s) \/ s[b + 1] = 0)
    BY <1>2, <2>1 DEF SegmentsOf, BeginInSilence
  <2> HIDE DEF a, b, n
  <2>8. Says(t, s, Len(s))
    BY <2>2, <2>3, <2>5, <2>6 DEF Says
  <2> QED BY <2>2, <2>7, <2>8 DEF SegmentsOf, BeginInSilence
<1> QED BY <1>1, <1>2, <1>3

(* A function on 1..n is a sequence of length n.                           *)
LEMMA FunctionIsSequence ==
  ASSUME NEW S, NEW n \in Nat, NEW q \in [1..n -> S]
  PROVE  q \in Seq(S) /\ Len(q) = n
OBVIOUS

(* Moved segments are as many, each later by as much.                      *)
LEMMA MovedSegments ==
  ASSUME NEW t \in Seq(Nat \X Nat), NEW n \in Nat
  PROVE  /\ Moved(t, n) \in Seq(Nat \X Nat) /\ Len(Moved(t, n)) = Len(t)
         /\ \A i \in 1..Len(t) :
              /\ t[i][1] \in Nat /\ t[i][2] \in Nat
              /\ Moved(t, n)[i][1] = t[i][1] + n /\ Moved(t, n)[i][2] = t[i][2] + n
<1>1. DOMAIN t = 1..Len(t) /\ Len(t) \in Nat
  OBVIOUS
<1>2. \A i \in 1..Len(t) : t[i] \in Nat \X Nat /\ t[i][1] \in Nat /\ t[i][2] \in Nat
  OBVIOUS
<1>3. /\ DOMAIN Moved(t, n) = 1..Len(t)
      /\ \A i \in 1..Len(t) : Moved(t, n)[i] = <<t[i][1] + n, t[i][2] + n>>
  BY <1>1 DEF Moved
<1>4. Moved(t, n) \in [1..Len(t) -> Nat \X Nat]
  BY <1>1, <1>2 DEF Moved
<1>5. Moved(t, n) \in Seq(Nat \X Nat) /\ Len(Moved(t, n)) = Len(t)
  BY <1>1, <1>4, FunctionIsSequence
<1>7. ASSUME NEW i \in 1..Len(t)
      PROVE  Moved(t, n)[i][1] = t[i][1] + n /\ Moved(t, n)[i][2] = t[i][2] + n
  BY <1>3
<1> QED BY <1>2, <1>5, <1>7

(* What the conditioning leaves out has no sound: the segments of the rest *)
(* are, moved by the silence before it, the segments of the whole.         *)
LEMMA DecodedInPlace ==
  ASSUME NEW s \in Seq(Loudness), NEW t \in Segments(s)
  PROVE  SegmentsOf(t, s)
<1> DEFINE loud == {i \in DOMAIN s : s[i] > 0}
           c == Conditioned(s)
<1>1. PICK u \in Decoded(c.sound) : t = Moved(u, c.lead)
  BY DEF Segments
<1>2. Len(s) \in Nat /\ DOMAIN s = 1..Len(s) /\ \A i \in 1..Len(s) : s[i] \in 0..2
  BY DEF Loudness
<1>3. CASE loud = {}
  <2>1. c.sound = <<>> /\ c.lead = 0 /\ <<>> \in Seq(Loudness)
    BY <1>3 DEF Conditioned
  <2>2. SegmentsOf(u, <<>>)
    BY <1>1, <2>1, DecodedSegments
  <2>3. u \in Seq(Nat \X Nat) /\ Len(u) = 0
    <3>1. u \in Seq(Nat \X Nat) /\ \A i \in 1..Len(u) : u[i][1] < u[i][2] /\ u[i][2] <= 0
      BY <2>2 DEF SegmentsOf, Says
    <3>2. Len(u) \in Nat /\ \A i \in 1..Len(u) : u[i][1] \in Nat /\ u[i][2] \in Nat
      BY <3>1
    <3>3. Len(u) # 0 => 1 \in 1..Len(u)
      BY <3>2
    <3>4. 1 \in 1..Len(u) => u[1][1] \in Nat /\ u[1][2] \in Nat /\ u[1][1] < u[1][2] /\ u[1][2] <= 0
      BY <3>1, <3>2
    <3>5. ~(1 \in 1..Len(u))
      BY <3>4
    <3> QED BY <3>1, <3>3, <3>5
  <2>4. t \in Seq(Nat \X Nat) /\ Len(t) = 0
    <3>1. 0 \in Nat /\ t = Moved(u, 0)
      BY <1>1, <2>1
    <3> QED BY <2>3, <3>1, MovedSegments
  <2>5. \A m \in 1..Len(s) : ~(s[m] > 0)
    BY <1>2, <1>3
  <2> QED BY <2>4, <2>5 DEF SegmentsOf, Says, BeginInSilence
<1>4. CASE loud # {}
  <2> DEFINE f == Min(loud)
             l == Max(loud)
             r == c.sound
  <2>1. loud \in SUBSET (0..Len(s))
    BY <1>2
  <2>2. f \in loud /\ \A x \in loud : f <= x
    <3> HIDE DEF loud
    <3> QED BY <1>2, <1>4, <2>1, LeastOfBounded
  <2>3. l \in loud /\ \A x \in loud : x <= l
    <3> HIDE DEF loud
    <3> QED BY <1>2, <1>4, <2>1, GreatestExists
  <2>4. r = SubSeq(s, f, l) /\ c.lead = f - 1
    BY <1>4 DEF Conditioned
  <2> HIDE DEF f, l, c
  <2>5. /\ f \in 1..Len(s) /\ l \in 1..Len(s) /\ f <= l
        /\ f \in Nat /\ l \in Nat /\ Len(s) \in Nat
    BY <1>2, <2>2, <2>3
  <2>6. /\ r \in Seq(Loudness) /\ Len(r) = l - f + 1
        /\ \A k \in 1..Len(r) : r[k] = s[f + k - 1]
    BY <1>2, <2>4, <2>5
  <2>7. SegmentsOf(u, r)
    BY <1>1, <2>6, DecodedSegments
  <2>8. u \in Seq(Nat \X Nat) /\ Len(u) \in Nat
    BY <2>7 DEF SegmentsOf, Says
  <2>9. /\ t \in Seq(Nat \X Nat) /\ Len(t) = Len(u)
        /\ \A i \in 1..Len(u) :
             /\ u[i][1] \in Nat /\ u[i][2] \in Nat
             /\ t[i][1] = u[i][1] + (f - 1) /\ t[i][2] = u[i][2] + (f - 1)
    <3>1. f - 1 \in Nat
      BY <2>5
    <3> QED BY <1>1, <2>4, <2>8, <3>1, MovedSegments
  <2>10. \A m \in 1..Len(s) : m < f \/ m > l => s[m] = 0
    <3> TAKE m \in 1..Len(s)
    <3>1. m \in loud \/ s[m] = 0
      BY <1>2
    <3> QED BY <1>2, <2>2, <2>3, <2>5, <3>1
  <2> HIDE DEF loud, r
  <2>11. \A i \in 1..Len(t) : t[i][1] < t[i][2] /\ t[i][2] <= l
    <3> TAKE i \in 1..Len(t)
    <3>1. u[i][1] < u[i][2] /\ u[i][2] <= Len(r)
      BY <2>7, <2>9 DEF SegmentsOf, Says
    <3>2. u[i][1] \in Nat /\ u[i][2] \in Nat
      BY <2>9
    <3>3. t[i][1] = u[i][1] + (f - 1) /\ t[i][2] = u[i][2] + (f - 1)
      BY <2>9
    <3>4. Len(r) = l - f + 1
      BY <2>6
    <3> QED BY ONLY <2>5, <3>1, <3>2, <3>3, <3>4
  <2>12. \A i, j \in 1..Len(t) : i < j => t[i][2] <= t[j][1]
    <3> TAKE i, j \in 1..Len(t)
    <3>1. i < j => u[i][2] <= u[j][1]
      BY <2>7, <2>9 DEF SegmentsOf, Says
    <3>2. /\ u[i][2] \in Nat /\ t[i][2] = u[i][2] + (f - 1)
          /\ u[j][1] \in Nat /\ t[j][1] = u[j][1] + (f - 1)
      BY <2>9
    <3> QED BY ONLY <2>5, <3>1, <3>2
  <2>13. ASSUME NEW m \in 1..Len(s), s[m] > 0
         PROVE  \E i \in 1..Len(t) : t[i][1] < m /\ m <= t[i][2]
    <3> DEFINE k == m - (f - 1)
    <3>1. f <= m /\ m <= l
      BY <1>2, <2>5, <2>10, <2>13
    <3>2. k \in 1..Len(r) /\ r[k] = s[m]
      <4>1. k \in 1..Len(r) /\ f + k - 1 = m
        BY <2>5, <2>6, <3>1
      <4> QED BY <2>6, <4>1
    <3>3. PICK i \in 1..Len(u) : u[i][1] < k /\ k <= u[i][2]
      BY <2>7, <2>13, <3>2 DEF SegmentsOf, Says
    <3>4. /\ i \in 1..Len(t) /\ u[i][1] \in Nat /\ u[i][2] \in Nat
          /\ t[i][1] = u[i][1] + (f - 1) /\ t[i][2] = u[i][2] + (f - 1)
      BY <2>9
    <3>5. t[i][1] < m /\ m <= t[i][2]
      BY ONLY <2>5, <3>1, <3>3, <3>4
    <3> QED BY <3>4, <3>5
  <2>14. ASSUME NEW i \in 1..Len(t)
         PROVE  t[i][1] = 0 \/ s[t[i][1]] = 0
    <3>1. u[i][1] = 0 \/ r[u[i][1]] = 0
      BY <2>7, <2>9 DEF SegmentsOf, BeginInSilence
    <3>2. CASE u[i][1] = 0
      <4>1. t[i][1] = f - 1
        BY <2>5, <2>9, <3>2
      <4>2. f - 1 = 0 \/ (f - 1 \in 1..Len(s) /\ f - 1 < f)
        BY <1>2, <2>5
      <4> QED BY <2>10, <4>1, <4>2
    <3>3. CASE u[i][1] # 0 /\ r[u[i][1]] = 0
      <4>1. u[i][1] < u[i][2] /\ u[i][2] <= Len(r)
        BY <2>7, <2>9 DEF SegmentsOf, Says
      <4>2. /\ u[i][1] \in Nat /\ u[i][2] \in Nat /\ t[i][1] = u[i][1] + (f - 1)
            /\ Len(r) \in Nat
        BY <2>6, <2>9
      <4>3. u[i][1] \in 1..Len(r) /\ t[i][1] = f + u[i][1] - 1
        <5>1. u[i][1] # 0
          BY <3>3
        <5> QED BY ONLY <2>5, <4>1, <4>2, <5>1
      <4> QED BY <2>6, <3>3, <4>3
    <3> QED BY <3>1, <3>2, <3>3
  <2>15. ASSUME NEW i \in 1..Len(t)
         PROVE  t[i][2] = Len(s) \/ s[t[i][2] + 1] = 0
    <3>1. u[i][2] = Len(r) \/ r[u[i][2] + 1] = 0
      BY <2>7, <2>9 DEF SegmentsOf
    <3>2. CASE u[i][2] = Len(r)
      <4>1. t[i][2] = u[i][2] + (f - 1) /\ Len(r) = l - f + 1
        BY <2>6, <2>9
      <4>2. t[i][2] = l
        BY ONLY <2>5, <3>2, <4>1
      <4>3. l = Len(s) \/ (l + 1 \in 1..Len(s) /\ l + 1 > l)
        BY ONLY <2>5
      <4> QED BY <2>10, <4>2, <4>3
    <3>3. CASE u[i][2] # Len(r) /\ r[u[i][2] + 1] = 0
      <4>1. u[i][2] <= Len(r)
        BY <2>7, <2>9 DEF SegmentsOf, Says
      <4>2. u[i][2] \in Nat /\ t[i][2] = u[i][2] + (f - 1) /\ Len(r) \in Nat
        BY <2>6, <2>9
      <4>3. u[i][2] + 1 \in 1..Len(r) /\ t[i][2] + 1 = f + (u[i][2] + 1) - 1
        <5>1. u[i][2] # Len(r)
          BY <3>3
        <5>2. u[i][2] + 1 \in 1..Len(r)
          BY ONLY <4>1, <4>2, <5>1
        <5>3. t[i][2] + 1 = f + (u[i][2] + 1) - 1
          BY ONLY <2>5, <4>2
        <5> QED BY <5>2, <5>3
      <4> QED BY <2>6, <3>3, <4>3
    <3> QED BY <3>1, <3>2, <3>3
  <2>18. ASSUME NEW i \in 1..Len(t) PROVE s[t[i][1] + 1] > 0
    <3>1. r[u[i][1] + 1] > 0
      BY <2>7, <2>9 DEF SegmentsOf, BeginInSilence
    <3>2. u[i][1] < u[i][2] /\ u[i][2] <= Len(r)
      BY <2>7, <2>9 DEF SegmentsOf, Says
    <3>3. /\ u[i][1] \in Nat /\ u[i][2] \in Nat /\ t[i][1] = u[i][1] + (f - 1)
          /\ Len(r) \in Nat
      BY <2>6, <2>9
    <3>4. u[i][1] + 1 \in 1..Len(r)
      BY ONLY <3>2, <3>3
    <3>5. t[i][1] + 1 = f + (u[i][1] + 1) - 1
      BY ONLY <2>5, <3>3
    <3> QED BY <2>6, <3>1, <3>4, <3>5
  <2>16. \A i \in 1..Len(t) : t[i][2] <= Len(s)
    <3> TAKE i \in 1..Len(t)
    <3>1. t[i][2] <= l /\ t[i][2] = u[i][2] + (f - 1) /\ u[i][2] \in Nat
      BY <2>9, <2>11
    <3> QED BY ONLY <2>5, <3>1
  <2>17. Says(t, s, Len(s))
    BY <2>9, <2>11, <2>12, <2>13, <2>16 DEF Says
  <2> QED BY <2>14, <2>15, <2>17, <2>18 DEF SegmentsOf, BeginInSilence
<1> QED BY <1>3, <1>4

------------------------------------------------------------------------------
(* What split_commit hands on says the words before the mark, and both are *)
(* bounded by silence: a word that may straddle the cut ends within the    *)
(* guard of it, and is held back with all that follow it.                  *)
LEMMA SplitIsSafe ==
  ASSUME NEW s \in Seq(Loudness), Len(s) > 0, NEW segs, SegmentsOf(segs, s),
         NEW split, split = SplitCommit(segs, Len(s))
  PROVE  /\ split.watermark \in 0..Len(s)
         /\ split.watermark # 0 =>
              /\ Says(split.kept, s, split.watermark)
              /\ BeginInSilence(split.kept, s) /\ EndInSilence(split.kept, s)
              /\ s[split.watermark] = 0
<1> DEFINE cut == Len(s)
           n == Len(segs)
           late == {i \in DOMAIN segs : segs[i][2] + Guard > cut}
           held == Min(late)
           mark == Min({segs[held][1], cut})
<1>1. /\ segs \in Seq(Nat \X Nat) /\ n \in Nat /\ DOMAIN segs = 1..n
      /\ cut \in Nat /\ cut >= 1 /\ Guard \in Nat /\ Guard >= 1
      /\ \A i \in 1..cut : s[i] \in 0..2
  BY CaptureAssumption DEF SegmentsOf, Says, Loudness
<1>2. \A i \in 1..n : /\ segs[i][1] \in Nat /\ segs[i][2] \in Nat
                     /\ segs[i][1] < segs[i][2] /\ segs[i][2] <= cut
  BY <1>1 DEF SegmentsOf, Says
<1>3. \A i, j \in 1..n : i < j => segs[i][2] <= segs[j][1]
  BY DEF SegmentsOf, Says
<1>4. \A m \in 1..cut : s[m] > 0 => \E i \in 1..n : segs[i][1] < m /\ m <= segs[i][2]
  BY DEF SegmentsOf, Says
<1>5. ASSUME NEW i \in 1..n, i \notin late
      PROVE  segs[i][2] < cut /\ segs[i][2] + 1 <= cut /\ s[segs[i][2] + 1] = 0
  <2>1. ~(segs[i][2] + Guard > cut)
    BY <1>1, <1>5
  <2>2. segs[i][2] < cut /\ segs[i][2] + 1 <= cut /\ segs[i][2] # cut
    BY <1>1, <1>2, <2>1
  <2> QED BY <2>2 DEF SegmentsOf
<1>6. CASE late = {}
  <2>1. split = [kept |-> segs, watermark |-> cut]
    BY <1>6 DEF SplitCommit
  <2>2. split.kept = segs /\ split.watermark = cut
    BY <2>1
  <2>3. s[cut] = 0
    <3>1. SUFFICES ASSUME s[cut] > 0 PROVE FALSE
      BY <1>1
    <3>2. cut \in 1..cut
      BY <1>1
    <3>3. PICK i \in 1..n : cut <= segs[i][2]
      BY <1>4, <3>1, <3>2
    <3>4. segs[i][2] < cut
      BY <1>5, <1>6
    <3> QED BY <1>1, <1>2, <3>3, <3>4
  <2>4. EndInSilence(segs, s)
    BY <1>5, <1>6 DEF EndInSilence
  <2> QED BY <1>1, <2>2, <2>3, <2>4 DEF SegmentsOf
<1>7. CASE late # {}
  <2>1. late \in SUBSET (0..n)
    BY <1>1
  <2>2. held \in late /\ \A x \in late : held <= x
    <3> HIDE DEF late, n
    <3> QED BY <1>1, <1>7, <2>1, LeastOfBounded
  <2> HIDE DEF held
  <2>3. held \in 1..n /\ held \in Nat
    BY <1>1, <2>2
  <2>4. segs[held][1] \in Nat /\ segs[held][1] < cut
    BY <1>1, <1>2, <2>3
  <2>5. mark = segs[held][1]
    <3>1. segs[held][1] <= cut /\ ~(cut <= segs[held][1])
      BY <1>1, <2>4
    <3>2. \A x \in {segs[held][1], cut} :
            (\A y \in {segs[held][1], cut} : x <= y) <=> x = segs[held][1]
      BY <1>1, <2>4, <3>1
    <3> QED BY <3>2 DEF Min
  <2>6. CASE mark = 0 \/ \E i \in 1..(held - 1) : segs[i][2] > mark
    <3>1. split = [kept |-> <<>>, watermark |-> 0]
      BY <1>7, <2>6 DEF SplitCommit, held
    <3> QED BY <1>1, <3>1
  <2>7. CASE mark # 0 /\ ~ \E i \in 1..(held - 1) : segs[i][2] > mark
    <3> DEFINE kept == SubSeq(segs, 1, held - 1)
    <3>1. split = [kept |-> kept, watermark |-> mark]
      BY <1>7, <2>7 DEF SplitCommit, held
    <3>2. /\ kept \in Seq(Nat \X Nat) /\ Len(kept) = held - 1
          /\ \A i \in 1..Len(kept) : kept[i] = segs[i] /\ i \in 1..n /\ i < held
      <4>1. held - 1 \in 0..n /\ held - 1 \in Nat /\ held - 1 + 1 = held
        BY <1>1, <2>3
      <4>2. kept \in Seq(Nat \X Nat) /\ Len(kept) = held - 1
        BY <1>1, <4>1
      <4>3. \A i \in 1..(held - 1) : kept[i] = segs[i] /\ i \in 1..n /\ i < held
        BY <1>1, <2>3, <4>1
      <4> QED BY <4>2, <4>3
    <3> HIDE DEF kept, mark
    <3>3. ASSUME NEW i \in 1..Len(kept) PROVE i \notin late
      BY <2>2, <2>3, <3>2
    <3>4. EndInSilence(kept, s)
      BY <1>5, <3>2, <3>3 DEF EndInSilence
    <3>5. BeginInSilence(kept, s)
      BY <3>2 DEF SegmentsOf, BeginInSilence
    <3>6. mark \in 1..cut
      BY <1>1, <2>4, <2>5, <2>7
    <3>7. s[mark] = 0
      BY <2>3, <2>5, <2>7 DEF SegmentsOf, BeginInSilence
    <3>8. ASSUME NEW m \in 1..mark, s[m] > 0
          PROVE  \E i \in 1..Len(kept) : kept[i][1] < m /\ m <= kept[i][2]
      <4>1. m \in 1..cut
        BY <1>1, <3>6
      <4>2. PICK i \in 1..n : segs[i][1] < m /\ m <= segs[i][2]
        BY <1>4, <3>8, <4>1
      <4>3. i < held
        <5>1. i # held
          BY <1>1, <1>2, <2>3, <2>5, <3>6, <4>1, <4>2
        <5>2. ~(held < i)
          <6>1. SUFFICES ASSUME held < i PROVE FALSE
            OBVIOUS
          <6>2. segs[held][2] <= segs[i][1]
            BY <1>3, <2>3, <6>1
          <6> QED BY <1>1, <1>2, <2>3, <2>5, <3>6, <4>1, <4>2, <6>2
        <5> QED BY <1>1, <2>3, <5>1, <5>2
      <4>4. i \in 1..Len(kept)
        BY <1>1, <2>3, <3>2, <4>3
      <4> QED BY <3>2, <4>2, <4>4
    <3>9. \A i \in 1..Len(kept) : kept[i][1] < kept[i][2] /\ kept[i][2] <= mark
      <4> TAKE i \in 1..Len(kept)
      <4>1. segs[i][1] < segs[i][2] /\ segs[i][2] <= segs[held][1]
        BY <1>2, <1>3, <2>3, <3>2
      <4> QED BY <2>5, <3>2, <4>1
    <3>10. \A i, j \in 1..Len(kept) : i < j => kept[i][2] <= kept[j][1]
      BY <1>3, <3>2
    <3>11. Says(kept, s, mark)
      BY <3>2, <3>8, <3>9, <3>10 DEF Says
    <3> QED BY <1>1, <3>1, <3>4, <3>5, <3>6, <3>7, <3>11
  <2> QED BY <2>6, <2>7
<1> QED BY <1>6, <1>7

------------------------------------------------------------------------------
(* No word goes on from the nth frame to the next.                         *)
QuietAt(s, n) == n = 0 \/ s[n] = 0 \/ (n + 1 <= Len(s) /\ s[n + 1] = 0)

(* Both parts of a concatenation are found in it, one after the other.     *)
LEMMA ConcatIs ==
  ASSUME NEW S, NEW a \in Seq(S), NEW b \in Seq(S)
  PROVE  /\ a \o b \in Seq(S) /\ Len(a \o b) = Len(a) + Len(b)
         /\ \A i \in 1..Len(a) : (a \o b)[i] = a[i]
         /\ \A i \in 1..Len(b) : (a \o b)[Len(a) + i] = b[i]
OBVIOUS

(* The place behind one that is before the end.                            *)
LEMMA NextIsWithin ==
  ASSUME NEW x \in Nat, NEW y \in Nat, x < y
  PROVE  x + 1 \in 1..y /\ x + 1 \in Nat
OBVIOUS

(* Segments of the sound up to a quiet place, and those of what follows it,*)
(* moved there: joined as combine_chunked_outcomes does, they are segments *)
(* of both.                                                                *)
LEMMA JoinSays ==
  ASSUME NEW s \in Seq(Loudness), NEW d \in Nat, NEW w \in Nat,
         NEW r \in Seq(Loudness), d + Len(r) <= Len(s), w <= Len(r),
         \A i \in 1..Len(r) : r[i] = s[d + i],
         NEW t, Says(t, s, d), BeginInSilence(t, s), EndInSilence(t, s), QuietAt(s, d),
         NEW k, Says(k, r, w), BeginInSilence(k, r)
  PROVE  /\ Says(t \o Moved(k, d), s, d + w)
         /\ BeginInSilence(t \o Moved(k, d), s)
         /\ EndInSilence(k, r) => EndInSilence(t \o Moved(k, d), s)
<1> DEFINE u == t \o Moved(k, d)
           n == Len(t)
           l == Len(k)
<1>1. /\ t \in Seq(Nat \X Nat) /\ k \in Seq(Nat \X Nat) /\ n \in Nat /\ l \in Nat
      /\ \A i \in 1..n : t[i][1] \in Nat /\ t[i][2] \in Nat
      /\ Len(s) \in Nat /\ Len(r) \in Nat
  BY DEF Says
<1>2. /\ Moved(k, d) \in Seq(Nat \X Nat) /\ Len(Moved(k, d)) = l
      /\ \A i \in 1..l : /\ k[i][1] \in Nat /\ k[i][2] \in Nat
                        /\ Moved(k, d)[i][1] = k[i][1] + d
                        /\ Moved(k, d)[i][2] = k[i][2] + d
  BY <1>1, MovedSegments
<1>3. /\ u \in Seq(Nat \X Nat) /\ Len(u) = n + l
      /\ \A i \in 1..n : u[i] = t[i]
      /\ \A i \in 1..l : u[n + i] = Moved(k, d)[i]
  <2> DEFINE v == Moved(k, d)
             S == Nat \X Nat
  <2>1. t \in Seq(S) /\ v \in Seq(S) /\ Len(v) = l
    BY <1>1, <1>2
  <2> HIDE DEF v, S
  <2>2. t \o v \in Seq(S) /\ Len(t \o v) = n + l
    <3>1. t \o v \in Seq(S) /\ Len(t \o v) = Len(t) + Len(v)
      BY <2>1, ConcatIs
    <3> QED BY <2>1, <3>1
  <2>3. /\ \A i \in 1..n : (t \o v)[i] = t[i]
        /\ \A i \in 1..l : (t \o v)[n + i] = v[i]
    BY <2>1, ConcatIs
  <2> QED BY <2>2, <2>3 DEF v, S
<1> HIDE DEF u
<1>0. /\ d \in Nat /\ w \in Nat /\ Len(r) \in Nat /\ Len(s) \in Nat /\ n \in Nat
      /\ w <= Len(r) /\ d + Len(r) <= Len(s)
  BY <1>1
<1>4. ASSUME NEW i \in 1..Len(u)
      PROVE  i \in 1..n \/ (\E j \in 1..l : i = n + j)
  <2>1. i \in 1..n \/ (i - n \in 1..l /\ i = n + (i - n))
    BY <1>1, <1>3
  <2> QED BY <2>1
<1>5. \A i \in 1..l :
        /\ k[i][1] \in Nat /\ k[i][2] \in Nat
        /\ u[n + i][1] = k[i][1] + d /\ u[n + i][2] = k[i][2] + d
        /\ k[i][1] < k[i][2] /\ k[i][2] <= w
  BY <1>2, <1>3 DEF Says
<1>6. \A i \in 1..n :
        /\ t[i][1] \in Nat /\ t[i][2] \in Nat
        /\ u[i][1] = t[i][1] /\ u[i][2] = t[i][2]
        /\ t[i][1] < t[i][2] /\ t[i][2] <= d
  BY <1>1, <1>3 DEF Says
<1>7. \A i \in 1..Len(u) : u[i][1] < u[i][2] /\ u[i][2] <= d + w
  <2> TAKE i \in 1..Len(u)
  <2>1. CASE i \in 1..n
    <3>1. /\ t[i][1] \in Nat /\ t[i][2] \in Nat
          /\ u[i][1] = t[i][1] /\ u[i][2] = t[i][2]
          /\ t[i][1] < t[i][2] /\ t[i][2] <= d
      BY <1>6, <2>1
    <3> QED BY ONLY <3>1, d \in Nat, w \in Nat
  <2>2. ASSUME NEW j \in 1..l, i = n + j PROVE u[i][1] < u[i][2] /\ u[i][2] <= d + w
    <3>1. /\ k[j][1] \in Nat /\ k[j][2] \in Nat
          /\ u[i][1] = k[j][1] + d /\ u[i][2] = k[j][2] + d
          /\ k[j][1] < k[j][2] /\ k[j][2] <= w
      BY <1>5, <2>2
    <3> QED BY <3>1
  <2> QED BY <1>4, <2>1, <2>2
<1>8. \A i, j \in 1..Len(u) : i < j => u[i][2] <= u[j][1]
  <2> TAKE i, j \in 1..Len(u)
  <2>1. CASE i \in 1..n /\ j \in 1..n
    BY <1>6, <2>1 DEF Says
  <2>2. ASSUME i \in 1..n, NEW y \in 1..l, j = n + y PROVE u[i][2] <= u[j][1]
    <3>1. k[y][1] \in Nat /\ u[j][1] = k[y][1] + d
      BY <1>5, <2>2
    <3>2. t[i][2] \in Nat /\ u[i][2] = t[i][2] /\ t[i][2] <= d
      BY <1>6, <2>2
    <3> QED BY <3>1, <3>2
  <2>3. ASSUME NEW x \in 1..l, i = n + x, j \in 1..n PROVE ~(i < j)
    BY <1>1, <2>3
  <2>4. ASSUME NEW x \in 1..l, i = n + x, NEW y \in 1..l, j = n + y, i < j
        PROVE  u[i][2] <= u[j][1]
    <3>1. x < y
      BY <1>1, <2>4
    <3>2. k[x][2] <= k[y][1]
      BY <3>1 DEF Says
    <3>3. k[x][2] \in Nat /\ k[y][1] \in Nat /\ u[i][2] = k[x][2] + d /\ u[j][1] = k[y][1] + d
      BY <1>5, <2>4
    <3> QED BY ONLY <3>2, <3>3, d \in Nat
  <2> QED BY <1>4, <2>1, <2>2, <2>3, <2>4
<1>9. ASSUME NEW m \in 1..(d + w), s[m] > 0
      PROVE  \E i \in 1..Len(u) : u[i][1] < m /\ m <= u[i][2]
  <2>1. CASE m <= d
    <3>1. m \in 1..d
      BY <2>1
    <3>2. PICK i \in 1..n : t[i][1] < m /\ m <= t[i][2]
      BY <1>9, <3>1 DEF Says
    <3>3. u[i][1] < m /\ m <= u[i][2]
      BY <1>6, <3>2
    <3>4. i \in 1..Len(u)
      BY ONLY <1>1, <1>3, i \in 1..n
    <3> QED BY <3>3, <3>4
  <2>2. CASE m > d
    <3> DEFINE x == m - d
    <3>1. x \in 1..w /\ x \in 1..Len(r) /\ d + x = m
      BY <1>1, <2>2
    <3>2. r[x] > 0
      BY <1>9, <3>1
    <3>3. PICK i \in 1..l : k[i][1] < x /\ x <= k[i][2]
      BY <3>1, <3>2 DEF Says
    <3>4. /\ k[i][1] \in Nat /\ k[i][2] \in Nat
          /\ u[n + i][1] = k[i][1] + d /\ u[n + i][2] = k[i][2] + d
      BY <1>5
    <3>5. n + i \in 1..Len(u)
      BY <1>1, <1>3
    <3> HIDE DEF x
    <3>6. u[n + i][1] < m /\ m <= u[n + i][2]
      <4>1. x \in Nat
        BY <1>0, <3>1
      <4>2. d + x = m
        BY <3>1
      <4>3. u[n + i][1] < d + x
        BY ONLY <1>0, <3>3, <3>4, <4>1
      <4>4. d + x <= u[n + i][2]
        BY ONLY <1>0, <3>3, <3>4, <4>1
      <4> QED BY ONLY <4>2, <4>3, <4>4
    <3> QED BY <3>5, <3>6
  <2> QED BY <2>1, <2>2
<1>10. Says(u, s, d + w)
  BY <1>3, <1>7, <1>8, <1>9 DEF Says
<1>11. ASSUME NEW i \in 1..Len(u)
       PROVE  (u[i][1] = 0 \/ s[u[i][1]] = 0) /\ s[u[i][1] + 1] > 0
  <2>1. CASE i \in 1..n
    BY <1>6, <2>1 DEF BeginInSilence
  <2>2. ASSUME NEW j \in 1..l, i = n + j
        PROVE  (u[i][1] = 0 \/ s[u[i][1]] = 0) /\ s[u[i][1] + 1] > 0
    <3>1. /\ k[j][1] \in Nat /\ k[j][2] \in Nat /\ u[i][1] = k[j][1] + d
          /\ k[j][1] < k[j][2] /\ k[j][2] <= w
      BY <1>5, <2>2
    <3>2. (k[j][1] = 0 \/ r[k[j][1]] = 0) /\ r[k[j][1] + 1] > 0
      BY DEF BeginInSilence
    <3>3. k[j][1] + 1 \in 1..Len(r) /\ d + (k[j][1] + 1) = u[i][1] + 1
      <4>1. k[j][1] + 1 \in 1..Len(r)
        <5>1. k[j][1] < Len(r)
          BY ONLY <1>0, <3>1
        <5> QED BY <1>0, <3>1, <5>1, NextIsWithin
      <4>2. d + (k[j][1] + 1) = u[i][1] + 1
        BY ONLY <1>0, <3>1
      <4> QED BY ONLY <4>1, <4>2
    <3>4. s[u[i][1] + 1] > 0
      <4>1. r[k[j][1] + 1] = s[d + (k[j][1] + 1)]
        BY <3>3
      <4> QED BY <3>2, <3>3, <4>1
    <3>5. CASE k[j][1] = 0
      <4>1. u[i][1] = d
        BY <3>1, <3>5
      <4> QED BY <3>4, <4>1 DEF QuietAt
    <3>6. CASE k[j][1] # 0
      <4>1. k[j][1] \in 1..Len(r) /\ d + k[j][1] = u[i][1]
        BY ONLY <1>0, <3>1, <3>6
      <4> QED BY <3>2, <3>4, <3>6, <4>1
    <3> QED BY <3>5, <3>6
  <2> QED BY <1>4, <2>1, <2>2
<1>12. ASSUME EndInSilence(k, r), NEW i \in 1..Len(u)
       PROVE  u[i][2] + 1 <= Len(s) /\ s[u[i][2] + 1] = 0
  <2>1. CASE i \in 1..n
    BY <1>6, <2>1 DEF EndInSilence
  <2>2. ASSUME NEW j \in 1..l, i = n + j
        PROVE  u[i][2] + 1 <= Len(s) /\ s[u[i][2] + 1] = 0
    <3>1. k[j][2] \in Nat /\ u[i][2] = k[j][2] + d
      BY <1>5, <2>2
    <3>2. k[j][2] + 1 <= Len(r) /\ r[k[j][2] + 1] = 0
      BY <1>12 DEF EndInSilence
    <3>3. /\ k[j][2] + 1 \in 1..Len(r) /\ d + (k[j][2] + 1) = u[i][2] + 1
          /\ u[i][2] + 1 <= Len(s)
      <4>1. k[j][2] + 1 <= Len(r)
        BY <3>2
      <4>2. k[j][2] + 1 \in 1..Len(r)
        <5>1. k[j][2] < Len(r)
          BY ONLY <1>0, <3>1, <4>1
        <5> QED BY <1>0, <3>1, <5>1, NextIsWithin
      <4>3. d + (k[j][2] + 1) = u[i][2] + 1
        BY ONLY <1>0, <3>1
      <4>4. u[i][2] + 1 <= Len(s)
        BY ONLY <1>0, <3>1, <4>1
      <4> QED BY ONLY <4>2, <4>3, <4>4
    <3>4. r[k[j][2] + 1] = s[d + (k[j][2] + 1)]
      BY <3>3
    <3> QED BY <3>2, <3>3, <3>4
  <2> QED BY <1>4, <2>1, <2>2
<1>13. BeginInSilence(u, s)
  BY <1>11 DEF BeginInSilence
<1>14. EndInSilence(k, r) => EndInSilence(u, s)
  BY <1>12 DEF EndInSilence
<1> QED BY <1>10, <1>13, <1>14 DEF u

(* What is said of a sound is said of any that begins like it.             *)
LEMMA SaysOfPrefix ==
  ASSUME NEW s \in Seq(Loudness), NEW q \in Seq(Loudness), NEW n \in Nat,
         n <= Len(s), n <= Len(q), \A m \in 1..n : q[m] = s[m],
         NEW t, Says(t, s, n)
  PROVE  Says(t, q, n)
BY DEF Says

(* One more frame does not undo what is said, nor the silence behind it.   *)
LEMMA MoreIsSpoken ==
  ASSUME NEW s \in Seq(Loudness), NEW f \in Loudness, NEW n \in Nat, n <= Len(s),
         NEW t, Says(t, s, n), BeginInSilence(t, s), EndInSilence(t, s), QuietAt(s, n)
  PROVE  LET q == Append(s, f)
         IN  Says(t, q, n) /\ BeginInSilence(t, q) /\ EndInSilence(t, q) /\ QuietAt(q, n)
<1> DEFINE q == Append(s, f)
<1>1. /\ q \in Seq(Loudness) /\ Len(q) = Len(s) + 1 /\ Len(s) \in Nat
      /\ \A m \in 1..Len(s) : q[m] = s[m]
  OBVIOUS
<1> HIDE DEF q
<1>2. \A i \in 1..Len(t) : /\ t[i][1] \in Nat /\ t[i][2] \in Nat
                          /\ t[i][1] < t[i][2] /\ t[i][2] <= n
  BY DEF Says
<1>3. Says(t, q, n)
  BY <1>1, SaysOfPrefix
<1>4. BeginInSilence(t, q)
  <2>1. ASSUME NEW i \in 1..Len(t)
        PROVE  (t[i][1] = 0 \/ q[t[i][1]] = 0) /\ q[t[i][1] + 1] > 0
    <3>1. (t[i][1] = 0 \/ t[i][1] \in 1..Len(s)) /\ t[i][1] + 1 \in 1..Len(s)
      BY <1>1, <1>2
    <3>2. (t[i][1] = 0 \/ s[t[i][1]] = 0) /\ s[t[i][1] + 1] > 0
      BY DEF BeginInSilence
    <3> QED BY <1>1, <3>1, <3>2
  <2> QED BY <2>1 DEF BeginInSilence
<1>5. EndInSilence(t, q)
  <2>1. ASSUME NEW i \in 1..Len(t)
        PROVE  t[i][2] + 1 <= Len(q) /\ q[t[i][2] + 1] = 0
    <3>1. t[i][2] + 1 <= Len(s) /\ s[t[i][2] + 1] = 0
      BY DEF EndInSilence
    <3>2. t[i][2] + 1 \in 1..Len(s) /\ t[i][2] + 1 <= Len(q)
      BY <1>1, <1>2, <3>1
    <3> QED BY <1>1, <3>1, <3>2
  <2> QED BY <2>1 DEF EndInSilence
<1>6. QuietAt(q, n)
  BY <1>1 DEF QuietAt
<1> QED BY <1>3, <1>4, <1>5, <1>6 DEF q

------------------------------------------------------------------------------
(* The loudest of a window is no less loud than any frame of it.           *)
LEMMA LoudestIs ==
  ASSUME NEW q \in Seq(Loudness)
  PROVE  Loudest(q) \in 0..2 /\ \A i \in 1..Len(q) : q[i] <= Loudest(q)
<1> DEFINE S == {0} \cup ToSet(q)
<1>1. S \in SUBSET (0..2) /\ S # {} /\ \A i \in 1..Len(q) : q[i] \in S
  BY DEF Loudness, ToSet
<1>2. Max(S) \in S /\ \A x \in S : x <= Max(S)
  <2> HIDE DEF S
  <2> QED BY <1>1, GreatestExists
<1>3. Loudest(q) = Max(S)
  BY DEF Loudest
<1> HIDE DEF S
<1> QED BY <1>1, <1>2, <1>3

(* A cut is within the sound, and a verified one before a silent frame: at *)
(* the middle of a window of which not even the loudest frame is heard.    *)
LEMMA CutIsSafe ==
  ASSUME NEW s \in Seq(Loudness), NEW c \in Cut(s)
  PROVE  /\ c.sound \in Seq(Loudness) /\ c.verified \in BOOLEAN
         /\ Len(c.sound) \in Nat /\ 1 <= Len(c.sound) /\ Len(c.sound) <= Len(s)
         /\ \A i \in 1..Len(c.sound) : c.sound[i] = s[i]
         /\ c.verified => Len(c.sound) + 1 <= Len(s) /\ s[Len(c.sound) + 1] = 0
<1> DEFINE n == Min({MaxCut, Len(s)})
           half == QuietWindow \div 2
<1>1. PICK p \in Positions(n) :
        /\ c.sound = SubSeq(s, 1, p + half)
        /\ c.verified = Verified(Window(s, p), s) \/ c.verified = FALSE
  <2> DEFINE at == Positions(n)
             pauses == {x \in at : IsPause(Window(s, x))}
             quietest == {x \in at : \A y \in at : Sum(Window(s, x)) <= Sum(Window(s, y))}
  <2>1. \/ \E x \in Earliest(pauses) :
              c = [sound |-> SubSeq(s, 1, x + half), verified |-> Verified(Window(s, x), s)]
        \/ \E x \in Earliest(quietest) :
              c = [sound |-> SubSeq(s, 1, x + half), verified |-> FALSE]
    <3> HIDE DEF Positions, IsPause, Sum, Window, Verified, Earliest
    <3> QED BY DEF Cut
  <2>2. Earliest(pauses) \subseteq at /\ Earliest(quietest) \subseteq at
    <3> HIDE DEF at
    <3> QED BY DEF Earliest
  <2> HIDE DEF at, pauses, quietest
  <2>3. CASE \E x \in Earliest(pauses) :
               c = [sound |-> SubSeq(s, 1, x + half), verified |-> Verified(Window(s, x), s)]
    <3>1. PICK x \in at :
            c = [sound |-> SubSeq(s, 1, x + half), verified |-> Verified(Window(s, x), s)]
      BY <2>2, <2>3
    <3>2. c.sound = SubSeq(s, 1, x + half) /\ c.verified = Verified(Window(s, x), s)
      BY <3>1
    <3> QED BY <3>2 DEF at
  <2>4. CASE \E x \in Earliest(quietest) :
               c = [sound |-> SubSeq(s, 1, x + half), verified |-> FALSE]
    <3>1. PICK x \in at : c = [sound |-> SubSeq(s, 1, x + half), verified |-> FALSE]
      BY <2>2, <2>4
    <3>2. c.sound = SubSeq(s, 1, x + half) /\ c.verified = FALSE
      BY <3>1
    <3> QED BY <3>2 DEF at
  <2> QED BY <2>1, <2>3, <2>4
<1>2. MinCut \in Nat /\ MinCut >= 1 /\ QuietWindow \in Nat /\ QuietWindow >= 1 /\ MaxCut \in Nat
  BY CaptureAssumption
<1>3. n \in Nat /\ n <= Len(s)
  <2>1. {MaxCut, Len(s)} \in SUBSET Nat /\ IsFiniteSet({MaxCut, Len(s)}) /\ {MaxCut, Len(s)} # {}
    <3>1. /\ {MaxCut, Len(s)} \in SUBSET Nat /\ MaxCut + Len(s) \in Nat
          /\ \A x \in {MaxCut, Len(s)} : x <= MaxCut + Len(s)
      BY <1>2
    <3> QED BY <3>1, FS_BoundedSetOfNaturals
  <2> QED BY <2>1, LeastExists
<1>4. p \in Nat /\ MinCut <= p /\ p + QuietWindow <= n
  BY <1>2, <1>3 DEF Positions
<1>5. half \in Nat /\ half < QuietWindow
  BY <1>2
<1> DEFINE m == p + half
<1>6. Len(s) \in Nat
  OBVIOUS
<1> HIDE DEF half, n
<1>7. m \in Nat /\ 1 <= m /\ m + 1 <= Len(s) /\ m <= Len(s)
  BY ONLY <1>2, <1>3, <1>4, <1>5, <1>6
<1>8. /\ c.sound \in Seq(Loudness) /\ Len(c.sound) = m
      /\ \A i \in 1..m : c.sound[i] = s[i]
  BY <1>1, <1>7
<1>9. c.verified \in BOOLEAN
  <2>1. Verified(Window(s, p), s) \in BOOLEAN
    BY DEF Verified
  <2> HIDE DEF Verified
  <2> QED BY <1>1, <2>1, Zenon
<1>10. ASSUME Verified(Window(s, p), s) PROVE s[m + 1] = 0
  <2> DEFINE w == SubSeq(s, p + 1, p + QuietWindow)
  <2>1. p + 1 \in 1..Len(s) /\ p + QuietWindow \in 1..Len(s) /\ p + 1 <= p + QuietWindow
    BY ONLY <1>2, <1>3, <1>4, <1>6
  <2>2. /\ w \in Seq(Loudness) /\ Len(w) = QuietWindow
        /\ \A i \in 1..QuietWindow : w[i] = s[p + i]
    BY <1>2, <1>4, <2>1
  <2>3. half + 1 \in 1..QuietWindow /\ p + (half + 1) = m + 1
    <3>1. half + 1 \in 1..QuietWindow
      BY <1>2, <1>5, NextIsWithin
    <3>2. p + (half + 1) = m + 1
      BY <1>4, <1>5
    <3> QED BY <3>1, <3>2
  <2>4. w[half + 1] = s[m + 1]
    BY <2>2, <2>3
  <2>5. w = Window(s, p)
    BY DEF Window
  <2> HIDE DEF w, m
  <2>6. 4 * Loudest(w) <= Loudest(s)
    BY <1>10, <2>5 DEF Verified
  <2>7. Loudest(w) \in 0..2 /\ Loudest(s) \in 0..2 /\ w[half + 1] <= Loudest(w)
    BY <2>2, <2>3, LoudestIs
  <2>8. Loudest(w) = 0
    BY ONLY <2>6, <2>7
  <2>9. w[half + 1] \in 0..2
    BY <2>2, <2>3 DEF Loudness
  <2> QED BY ONLY <2>4, <2>7, <2>8, <2>9
<1> HIDE DEF m
<1> QED BY <1>1, <1>6, <1>7, <1>8, <1>9, <1>10

------------------------------------------------------------------------------
(* The buffer and what the callback keeps, against what was spoken.        *)
HeardOf(said, held, rest, gone, full) ==
  /\ said \in Seq(Loudness) /\ held \in Seq(Loudness) /\ rest \in Seq(Loudness)
  /\ gone \in Nat /\ full \in BOOLEAN
  /\ Len(held) <= MaxBuffer /\ gone + Len(held) <= MaxLive /\ Len(rest) <= MaxSpill
  /\ gone + Len(held) <= Len(said)
  /\ \A i \in 1..Len(held) : held[i] = said[gone + i]
  /\ ~full => /\ Len(said) = gone + Len(held) + Len(rest)
              /\ \A i \in 1..Len(rest) : rest[i] = said[gone + Len(held) + i]

Heard == HeardOf(spoken, raw, spill, drained, deaf)

(* The copy that is decoded is what the buffer begins with; and behind a   *)
(* verified cut it is silent.                                              *)
ChunkHeard ==
  /\ chunk.sound \in Seq(Loudness) /\ chunk.verified \in BOOLEAN
  /\ Len(chunk.sound) <= Len(raw)
  /\ \A i \in 1..Len(chunk.sound) : chunk.sound[i] = raw[i]
  /\ chunk # NoChunk => 1 <= Len(chunk.sound)
  /\ chunk.verified => Len(chunk.sound) + 1 <= Len(raw) /\ raw[Len(chunk.sound) + 1] = 0

(* What is committed says what is drained, between silences.               *)
PartsSay ==
  /\ parts.took = drained
  /\ Says(parts.text, spoken, drained)
  /\ BeginInSilence(parts.text, spoken) /\ EndInSilence(parts.text, spoken)
  /\ QuietAt(spoken, drained)

SoundInv == Heard /\ ChunkHeard /\ PartsSay

(* The last take's text says a beginning of its sound, or all of it.       *)
ResultSays ==
  /\ result.sound \in Seq(Loudness) /\ result.incomplete \in BOOLEAN
  /\ \E n \in 0..Len(result.sound) :
       /\ Says(result.text, result.sound, n)
       /\ ~result.incomplete => n = Len(result.sound)

StreamInv ==
  /\ stream \in {"none", "live", "dead"} /\ capture \in {"idle", "recording", "paused"}
  /\ locked \in BOOLEAN /\ deaf \in BOOLEAN
  /\ error \in {"none", "limit", "slow", "device"}
  /\ chunking \in {"on", "off", "disabled"}
  /\ DeafIsReported

(* A handle is of the device it was asked for by.                          *)
DeviceInv ==
  /\ plugged \in BOOLEAN /\ stale \in BOOLEAN /\ missed = FALSE
  /\ handle \in {NoHandle} \cup [for : {"usb", "default"}, is : {"usb", "default"}]
  /\ handle.for = handle.is

CaptureInv == DeviceInv /\ StreamInv /\ SoundInv /\ ResultSays

------------------------------------------------------------------------------
(* Nothing is said of no sound.                                            *)
LEMMA EmptySays ==
  ASSUME NEW s \in Seq(Loudness)
  PROVE  /\ <<>> \in Seq(Loudness) /\ Len(<<>>) = 0
         /\ Says(<<>>, s, 0) /\ BeginInSilence(<<>>, s) /\ EndInSilence(<<>>, s)
         /\ QuietAt(s, 0)
BY DEF Says, BeginInSilence, EndInSilence, QuietAt

(* Without a copy nothing has to agree with the buffer.                    *)
LEMMA NoChunkIsHeard ==
  ASSUME chunk' = NoChunk, raw' \in Seq(Loudness)
  PROVE  ChunkHeard'
<1>1. <<>> \in Seq(Loudness) /\ Len(<<>>) = 0 /\ Len(raw') \in Nat
  OBVIOUS
<1>2. chunk'.sound = <<>> /\ chunk'.verified = FALSE
  BY DEF NoChunk
<1>3. Len(chunk'.sound) = 0 /\ chunk'.sound \in Seq(Loudness) /\ chunk'.verified \in BOOLEAN
  BY <1>1, <1>2
<1>4. ~chunk'.verified
  BY <1>2
<1> QED BY <1>1, <1>3, <1>4 DEF ChunkHeard

(* A new take begins with nothing held, kept, copied or committed.         *)
LEMMA ClearedKeepsSound ==
  ASSUME Cleared
  PROVE  SoundInv'
<1>1. /\ raw' = <<>> /\ drained' = 0 /\ spill' = <<>> /\ deaf' = FALSE /\ spoken' = <<>>
      /\ chunk'.sound = <<>> /\ chunk'.verified = FALSE /\ chunk' = NoChunk
      /\ parts'.text = <<>> /\ parts'.took = 0
  BY DEF Cleared, NoChunk, NoParts
<1>2. <<>> \in Seq(Loudness) /\ Len(<<>>) = 0
  OBVIOUS
<1>3. MaxBuffer \in Nat /\ MaxLive \in Nat /\ MaxSpill \in Nat
  BY CaptureAssumption
<1>4. Heard'
  <2>1. HeardOf(<<>>, <<>>, <<>>, 0, FALSE)
    BY <1>2, <1>3 DEF HeardOf
  <2> QED BY <1>1, <2>1 DEF Heard
<1>5. ChunkHeard'
  BY <1>1, <1>2, NoChunkIsHeard
<1>6. PartsSay'
  <2>1. /\ Says(<<>>, <<>>, 0) /\ BeginInSilence(<<>>, <<>>) /\ EndInSilence(<<>>, <<>>)
        /\ QuietAt(<<>>, 0)
    BY <1>2, EmptySays
  <2> QED BY <1>1, <2>1 DEF PartsSay
<1> QED BY <1>4, <1>5, <1>6 DEF SoundInv

(* A step that leaves the buffer, the copy and the committed text alone.   *)
LEMMA SoundStays ==
  ASSUME SoundInv, UNCHANGED <<samples, chunk, parts>>
  PROVE  SoundInv'
<1>1. Heard'
  BY DEF SoundInv, Heard, HeardOf, samples
<1>2. ChunkHeard'
  BY DEF SoundInv, ChunkHeard, samples, NoChunk
<1>3. PartsSay'
  BY DEF SoundInv, PartsSay, samples
<1> QED BY <1>1, <1>2, <1>3 DEF SoundInv

(* So does one that only drops the copy.                                   *)
LEMMA NoChunkKeepsSound ==
  ASSUME SoundInv, UNCHANGED <<samples, parts>>, chunk' = NoChunk
  PROVE  SoundInv'
<1>1. Heard'
  BY DEF SoundInv, Heard, HeardOf, samples
<1>2. ChunkHeard'
  <2>1. raw' \in Seq(Loudness)
    BY DEF samples, SoundInv, Heard, HeardOf
  <2> QED BY <2>1, NoChunkIsHeard
<1>3. PartsSay'
  BY DEF SoundInv, PartsSay, samples
<1> QED BY <1>1, <1>2, <1>3 DEF SoundInv

(* peek_stable_chunk copies what the buffer begins with.                   *)
LEMMA PeekKeepsSound ==
  ASSUME SoundInv, Peek
  PROVE  SoundInv'
<1>1. Heard'
  BY DEF SoundInv, Heard, HeardOf, samples, Peek
<1>2. ChunkHeard'
  <2>1. raw \in Seq(Loudness) /\ raw' = raw
    BY DEF SoundInv, Heard, HeardOf, Peek, samples
  <2>2. PICK c \in Cut(raw) : chunk' = c
    BY DEF Peek
  <2> QED BY <2>1, <2>2, CutIsSafe DEF ChunkHeard
<1>3. PartsSay'
  BY DEF SoundInv, PartsSay, samples, Peek
<1> QED BY <1>1, <1>2, <1>3 DEF SoundInv

(* What follows a beginning of a sound, appended to it.                    *)
LEMMA HeardConcat ==
  ASSUME NEW s \in Seq(Loudness), NEW d \in Nat, NEW a \in Seq(Loudness), NEW b \in Seq(Loudness),
         \A i \in 1..Len(a) : a[i] = s[d + i],
         \A i \in 1..Len(b) : b[i] = s[d + Len(a) + i]
  PROVE  /\ a \o b \in Seq(Loudness) /\ Len(a \o b) = Len(a) + Len(b)
         /\ \A i \in 1..Len(a \o b) : (a \o b)[i] = s[d + i]
         /\ \A i \in 1..Len(a) : (a \o b)[i] = a[i]
<1> DEFINE c == a \o b
<1>1. /\ c \in Seq(Loudness) /\ Len(c) = Len(a) + Len(b)
      /\ \A i \in 1..Len(a) : c[i] = a[i]
      /\ \A i \in 1..Len(b) : c[Len(a) + i] = b[i]
  BY ConcatIs
<1> HIDE DEF c
<1>2. ASSUME NEW i \in 1..Len(c) PROVE c[i] = s[d + i]
  <2>1. CASE i \in 1..Len(a)
    BY <1>1, <2>1
  <2>2. CASE i \notin 1..Len(a)
    <3> DEFINE j == i - Len(a)
    <3>1. Len(a) \in Nat /\ Len(b) \in Nat /\ i \in Nat /\ 1 <= i /\ i <= Len(a) + Len(b) /\ i > Len(a)
      BY <1>1, <2>2
    <3>2. j \in 1..Len(b) /\ Len(a) + j = i
      BY ONLY <3>1
    <3>3. d + Len(a) + j = d + i
      BY ONLY <3>1, d \in Nat
    <3> HIDE DEF j
    <3> QED BY <1>1, <3>2, <3>3
  <2> QED BY <2>1, <2>2
<1> QED BY <1>1, <1>2 DEF c

(* A buffer that only grows still begins with the copy.                    *)
LEMMA LongerBuffer ==
  ASSUME ChunkHeard, raw \in Seq(Loudness), raw' \in Seq(Loudness), chunk' = chunk,
         Len(raw) <= Len(raw'), \A i \in 1..Len(raw) : raw'[i] = raw[i]
  PROVE  ChunkHeard'
<1> DEFINE n == Len(chunk.sound)
<1>1. n \in Nat /\ Len(raw) \in Nat /\ Len(raw') \in Nat /\ n <= Len(raw)
  BY DEF ChunkHeard
<1>2. \A i \in 1..n : i \in 1..Len(raw)
  BY ONLY <1>1
<1>3. \A i \in 1..n : chunk.sound[i] = raw'[i]
  BY <1>2 DEF ChunkHeard
<1>4. ASSUME chunk.verified PROVE n + 1 <= Len(raw') /\ raw'[n + 1] = 0
  <2>1. n + 1 <= Len(raw) /\ raw[n + 1] = 0
    BY <1>4 DEF ChunkHeard
  <2>2. n + 1 \in 1..Len(raw) /\ n + 1 <= Len(raw')
    BY <1>1, <2>1
  <2> QED BY <2>1, <2>2
<1>5. n <= Len(raw')
  BY <1>1
<1> QED BY <1>3, <1>4, <1>5 DEF ChunkHeard, NoChunk

(* The callback, locked out or not, with room or without.                  *)
LEMMA CallbackKeepsSound ==
  ASSUME SoundInv, Callback
  PROVE  SoundInv'
<1>1. PICK f \in Loudness : spoken' = Append(spoken, f) /\ IF locked THEN Keep(f) ELSE Store(f)
  BY DEF Callback, Loudness
<1>2. ~deaf /\ drained' = drained /\ chunk' = chunk /\ parts' = parts
  BY DEF Callback, text
<1>3. /\ spoken \in Seq(Loudness) /\ raw \in Seq(Loudness) /\ spill \in Seq(Loudness)
      /\ drained \in Nat /\ Len(raw) \in Nat /\ Len(spill) \in Nat /\ Len(spoken) \in Nat
      /\ Len(raw) <= MaxBuffer /\ drained + Len(raw) <= MaxLive /\ Len(spill) <= MaxSpill
      /\ \A i \in 1..Len(raw) : raw[i] = spoken[drained + i]
      /\ Len(spoken) = drained + Len(raw) + Len(spill)
      /\ \A i \in 1..Len(spill) : spill[i] = spoken[drained + Len(raw) + i]
  BY <1>2 DEF SoundInv, Heard, HeardOf
<1>4. MaxBuffer \in Nat /\ MaxLive \in Nat /\ MaxSpill \in Nat
  BY CaptureAssumption
<1>5. PartsSay'
  <2>1. drained <= Len(spoken)
    BY <1>3
  <2> QED BY <1>1, <1>2, <1>3, <2>1, MoreIsSpoken DEF SoundInv, PartsSay
<1> DEFINE q == Append(spoken, f)
<1>6. /\ q \in Seq(Loudness) /\ Len(q) = Len(spoken) + 1 /\ q[Len(spoken) + 1] = f
      /\ \A i \in 1..Len(spoken) : q[i] = spoken[i]
  BY <1>3
<1>7. spoken' = q
  BY <1>1
<1> HIDE DEF q
<1>8. /\ \A i \in 1..Len(raw) : raw[i] = q[drained + i]
      /\ \A i \in 1..Len(spill) : spill[i] = q[drained + Len(raw) + i]
  <2>1. \A i \in 1..Len(raw) : drained + i \in 1..Len(spoken)
    BY ONLY <1>3
  <2>2. \A i \in 1..Len(spill) : drained + Len(raw) + i \in 1..Len(spoken)
    BY ONLY <1>3
  <2> QED BY <1>3, <1>6, <2>1, <2>2
<1> DEFINE a == raw \o spill
           b == a \o <<f>>
           c == Append(spill, f)
<1>9. /\ a \in Seq(Loudness) /\ Len(a) = Len(raw) + Len(spill)
      /\ \A i \in 1..Len(a) : a[i] = q[drained + i]
      /\ \A i \in 1..Len(raw) : a[i] = raw[i]
  <2>1. /\ q \in Seq(Loudness) /\ drained \in Nat /\ raw \in Seq(Loudness) /\ spill \in Seq(Loudness)
    BY <1>3, <1>6
  <2>2. \A i \in 1..Len(raw) : raw[i] = q[drained + i]
    BY <1>8
  <2>3. \A i \in 1..Len(spill) : spill[i] = q[drained + Len(raw) + i]
    BY <1>8
  <2>4. /\ raw \o spill \in Seq(Loudness) /\ Len(raw \o spill) = Len(raw) + Len(spill)
        /\ \A i \in 1..Len(raw \o spill) : (raw \o spill)[i] = q[drained + i]
        /\ \A i \in 1..Len(raw) : (raw \o spill)[i] = raw[i]
    BY ONLY <2>1, <2>2, <2>3, HeardConcat
  <2> QED BY ONLY <2>4 DEF a
<1> HIDE DEF a
<1>10. <<f>> \in Seq(Loudness) /\ Len(<<f>>) = 1 /\ <<f>>[1] = f
  OBVIOUS
<1>11. \A i \in 1..Len(<<f>>) : <<f>>[i] = q[drained + Len(a) + i]
  <2>1. drained + Len(a) + 1 = Len(spoken) + 1
    BY <1>3, <1>9
  <2> QED BY <1>6, <1>10, <2>1
<1>12. /\ b \in Seq(Loudness) /\ Len(b) = Len(a) + 1
       /\ \A i \in 1..Len(b) : b[i] = q[drained + i]
       /\ \A i \in 1..Len(a) : b[i] = a[i]
  BY <1>3, <1>6, <1>9, <1>10, <1>11, HeardConcat
<1> HIDE DEF b
<1>13. /\ c \in Seq(Loudness) /\ Len(c) = Len(spill) + 1
       /\ \A i \in 1..Len(c) : c[i] = q[drained + Len(raw) + i]
  <2>1. /\ c \in Seq(Loudness) /\ Len(c) = Len(spill) + 1 /\ c[Len(spill) + 1] = f
        /\ \A i \in 1..Len(spill) : c[i] = spill[i]
    BY <1>3
  <2>2. drained + Len(raw) + (Len(spill) + 1) = Len(spoken) + 1
    BY <1>3
  <2>3. \A i \in 1..(Len(spill) + 1) : i \in 1..Len(spill) \/ i = Len(spill) + 1
    BY ONLY <1>3
  <2> HIDE DEF c
  <2> QED BY <1>6, <1>8, <2>1, <2>2, <2>3
<1> HIDE DEF c
<1>14. CASE locked
  <2>1. raw' = raw
    BY <1>1, <1>14 DEF Keep
  <2>4. Heard' => SoundInv'
    <3>1. ChunkHeard'
      BY <1>2, <1>3, <2>1, LongerBuffer DEF SoundInv
    <3> QED BY <1>5, <3>1 DEF SoundInv
  <2>2. CASE Len(spill) < MaxSpill
    <3>1. spill' = c /\ deaf' = FALSE
      BY <1>1, <1>2, <1>14, <2>2 DEF Keep, c
    <3>2. /\ Len(c) <= MaxSpill /\ Len(q) = drained + Len(raw) + Len(c)
          /\ drained + Len(raw) <= Len(q)
      BY <1>3, <1>4, <1>6, <1>13, <2>2
    <3>3. /\ raw' = raw /\ spill' = c /\ spoken' = q /\ drained' = drained /\ deaf' = FALSE
      BY <1>2, <1>7, <2>1, <3>1
    <3>4. HeardOf(q, raw, c, drained, FALSE)
      BY <1>3, <1>6, <1>8, <1>13, <3>2 DEF HeardOf
    <3>5. Heard'
      BY ONLY <3>3, <3>4 DEF Heard
    <3> QED BY <2>4, <3>5
  <2>3. CASE ~(Len(spill) < MaxSpill)
    <3>1. spill' = spill /\ deaf' = TRUE
      BY <1>1, <1>14, <2>3 DEF Keep, Reports
    <3>2. drained + Len(raw) <= Len(q)
      BY <1>3, <1>6
    <3>3. /\ raw' = raw /\ spill' = spill /\ spoken' = q /\ drained' = drained /\ deaf' = TRUE
      BY <1>2, <1>7, <2>1, <3>1
    <3>4. HeardOf(q, raw, spill, drained, TRUE)
      BY <1>3, <1>6, <1>8, <3>2 DEF HeardOf
    <3>5. Heard'
      BY ONLY <3>3, <3>4 DEF Heard
    <3> QED BY <2>4, <3>5
  <2> QED BY <2>2, <2>3
<1>15. CASE ~locked
  <2>1. spill' = <<>> /\ <<>> \in Seq(Loudness) /\ Len(<<>>) = 0
    BY <1>1, <1>15 DEF Store
  <2>2. CASE Fits(spill \o <<f>>)
    <3>1. raw' = b /\ deaf' = FALSE
      BY <1>1, <1>2, <1>15, <2>2 DEF Store, a, b
    <3>2. Len(spill \o <<f>>) = Len(spill) + 1
      BY <1>3, <1>10, ConcatIs
    <3>3. drained + Len(raw) + (Len(spill) + 1) <= MaxLive /\ Len(raw) + (Len(spill) + 1) <= MaxBuffer
      BY <2>2, <3>2 DEF Fits
    <3>4. /\ Len(b) <= MaxBuffer /\ drained + Len(b) <= MaxLive
          /\ Len(q) = drained + Len(b) + 0 /\ Len(raw) <= Len(b) /\ drained + Len(b) <= Len(q)
      BY <1>3, <1>4, <1>6, <1>9, <1>12, <3>3
    <3>5. Heard'
      <4>1. /\ raw' = b /\ spill' = <<>> /\ spoken' = q /\ drained' = drained /\ deaf' = FALSE
        BY <1>2, <1>7, <2>1, <3>1
      <4>2. HeardOf(q, b, <<>>, drained, FALSE)
        <5>1. /\ q \in Seq(Loudness) /\ b \in Seq(Loudness) /\ <<>> \in Seq(Loudness)
              /\ drained \in Nat /\ FALSE \in BOOLEAN /\ MaxSpill \in Nat
          BY <1>3, <1>4, <1>6, <1>12, <2>1
        <5>2. /\ Len(b) <= MaxBuffer /\ drained + Len(b) <= MaxLive /\ drained + Len(b) <= Len(q)
              /\ Len(q) = drained + Len(b) + Len(<<>>) /\ Len(<<>>) = 0
          BY <2>1, <3>4
        <5>3. \A i \in 1..Len(b) : b[i] = q[drained + i]
          BY <1>12
        <5> QED BY ONLY <5>1, <5>2, <5>3 DEF HeardOf
      <4> QED BY ONLY <4>1, <4>2 DEF Heard
    <3>6. \A i \in 1..Len(raw) : i \in 1..Len(a)
      BY <1>3, <1>9
    <3>7. ChunkHeard'
      BY <1>2, <1>3, <1>9, <1>12, <3>1, <3>4, <3>6, LongerBuffer DEF SoundInv
    <3> QED BY <1>5, <3>5, <3>7 DEF SoundInv
  <2>3. CASE ~Fits(spill \o <<f>>)
    <3>1. raw' = (IF Fits(spill) THEN a ELSE raw) /\ deaf' = TRUE
      BY <1>1, <1>15, <2>3 DEF Store, Reports, a
    <3>2. CASE Fits(spill)
      <4>1. drained + Len(raw) + Len(spill) <= MaxLive /\ Len(raw) + Len(spill) <= MaxBuffer
        BY <3>2 DEF Fits
      <4>2. /\ Len(a) <= MaxBuffer /\ drained + Len(a) <= MaxLive /\ Len(raw) <= Len(a)
            /\ drained + Len(a) <= Len(q)
        BY <1>3, <1>4, <1>6, <1>9, <4>1
      <4>3. Heard'
        <5>1. /\ raw' = a /\ spill' = <<>> /\ spoken' = q /\ drained' = drained /\ deaf' = TRUE
          BY <1>2, <1>7, <2>1, <3>1, <3>2
        <5>2. HeardOf(q, a, <<>>, drained, TRUE)
          BY <1>3, <1>4, <1>6, <1>9, <2>1, <4>2 DEF HeardOf
        <5> QED BY ONLY <5>1, <5>2 DEF Heard
      <4>4. ChunkHeard'
        BY <1>2, <1>3, <1>9, <3>1, <3>2, <4>2, LongerBuffer DEF SoundInv
      <4> QED BY <1>5, <4>3, <4>4 DEF SoundInv
    <3>3. CASE ~Fits(spill)
      <4>1. drained + Len(raw) <= Len(q)
        BY <1>3, <1>6
      <4>2. Heard'
        <5>1. /\ raw' = raw /\ spill' = <<>> /\ spoken' = q /\ drained' = drained /\ deaf' = TRUE
          BY <1>2, <1>7, <2>1, <3>1, <3>3
        <5>2. HeardOf(q, raw, <<>>, drained, TRUE)
          BY <1>3, <1>4, <1>6, <1>8, <2>1, <4>1 DEF HeardOf
        <5> QED BY ONLY <5>1, <5>2 DEF Heard
      <4>3. ChunkHeard'
        BY <1>2, <1>3, <3>1, <3>3, LongerBuffer DEF SoundInv
      <4> QED BY <1>5, <4>2, <4>3 DEF SoundInv
    <3> QED BY <3>2, <3>3
  <2> QED BY <2>2, <2>3
<1> QED BY <1>14, <1>15

(* What is left of the buffer when its beginning is drained.               *)
LEMMA HeardDrained ==
  ASSUME NEW said, NEW held, NEW rest, NEW gone, NEW full,
         HeardOf(said, held, rest, gone, full), NEW w \in Nat, w <= Len(held)
  PROVE  HeardOf(said, SubSeq(held, w + 1, Len(held)), rest, gone + w, full)
<1> DEFINE left == SubSeq(held, w + 1, Len(held))
<1>1. /\ said \in Seq(Loudness) /\ held \in Seq(Loudness) /\ rest \in Seq(Loudness)
      /\ gone \in Nat /\ full \in BOOLEAN
      /\ Len(held) \in Nat /\ Len(rest) \in Nat /\ Len(said) \in Nat
      /\ Len(held) <= MaxBuffer /\ gone + Len(held) <= MaxLive /\ Len(rest) <= MaxSpill
      /\ gone + Len(held) <= Len(said)
  BY DEF HeardOf
<1>2. MaxBuffer \in Nat /\ MaxLive \in Nat
  BY CaptureAssumption
<1>3. /\ left \in Seq(Loudness) /\ Len(left) = Len(held) - w
      /\ \A i \in 1..Len(left) : left[i] = held[w + i]
  BY <1>1
<1> HIDE DEF left
<1>4. /\ Len(left) \in Nat /\ Len(left) <= MaxBuffer
      /\ gone + w + Len(left) = gone + Len(held) /\ gone + w \in Nat
  BY ONLY <1>1, <1>2, <1>3, w \in Nat, w <= Len(held)
<1>5. ASSUME NEW i \in 1..Len(left) PROVE left[i] = said[gone + w + i]
  <2>1. w + i \in 1..Len(held) /\ gone + (w + i) = gone + w + i
    BY ONLY <1>1, <1>3, w \in Nat, w <= Len(held), i \in 1..Len(left)
  <2>2. held[w + i] = said[gone + (w + i)]
    BY <2>1 DEF HeardOf
  <2> QED BY <1>3, <2>1, <2>2
<1>6. ASSUME ~full
      PROVE  /\ Len(said) = gone + Len(held) + Len(rest)
             /\ \A i \in 1..Len(rest) : rest[i] = said[gone + Len(held) + i]
  BY <1>6 DEF HeardOf
<1>7. /\ gone + w + Len(left) <= MaxLive /\ gone + w + Len(left) <= Len(said)
  BY ONLY <1>1, <1>4
<1> QED BY ONLY <1>1, <1>3, <1>4, <1>5, <1>6, <1>7 DEF HeardOf, left

(* What a chunk commits says the words before its watermark, and there no  *)
(* word of the buffer goes on.                                             *)
LEMMA CommittedSays ==
  ASSUME raw \in Seq(Loudness), ChunkHeard, chunk # NoChunk,
         NEW segs \in Segments(chunk.sound), NEW split,
         split = IF chunk.verified \/ segs = <<>>
                 THEN [kept |-> segs, watermark |-> Len(chunk.sound)]
                 ELSE SplitCommit(segs, Len(chunk.sound))
  PROVE  /\ split.watermark \in Nat /\ split.watermark <= Len(raw)
         /\ split.watermark # 0 =>
              /\ Says(split.kept, raw, split.watermark)
              /\ BeginInSilence(split.kept, raw) /\ EndInSilence(split.kept, raw)
              /\ QuietAt(raw, split.watermark)
<1> DEFINE s == chunk.sound
           cut == Len(s)
           k == split.kept
           w == split.watermark
<1>1. /\ s \in Seq(Loudness) /\ cut \in Nat /\ Len(raw) \in Nat /\ cut >= 1 /\ cut <= Len(raw)
      /\ \A i \in 1..cut : s[i] = raw[i]
      /\ chunk.verified => cut + 1 <= Len(raw) /\ raw[cut + 1] = 0
      /\ \A i \in 1..cut : s[i] \in 0..2
  BY DEF ChunkHeard, Loudness
<1>2. SegmentsOf(segs, s)
  BY <1>1, DecodedInPlace
<1>3. w \in Nat /\ w <= cut
  <2>1. CASE chunk.verified \/ segs = <<>>
    BY <1>1, <2>1
  <2>2. CASE ~(chunk.verified \/ segs = <<>>)
    <3>1. split = SplitCommit(segs, Len(s)) /\ Len(s) > 0
      BY <1>1, <2>2
    <3>2. w \in 0..Len(s)
      BY <1>1, <1>2, <3>1, SplitIsSafe
    <3> QED BY <1>1, <3>2
  <2> QED BY <2>1, <2>2
<1>4. ASSUME w # 0
      PROVE  /\ Says(k, s, w) /\ BeginInSilence(k, s) /\ EndInSilence(k, raw)
             /\ QuietAt(raw, w)
  <2>1. CASE chunk.verified
    <3>1. k = segs /\ w = cut
      BY <2>1
    <3>2. Says(segs, s, cut) /\ BeginInSilence(segs, s) /\ QuietAt(raw, cut)
      BY <1>1, <1>2, <2>1 DEF SegmentsOf, QuietAt
    <3>3. ASSUME NEW i \in 1..Len(segs)
          PROVE  segs[i][2] + 1 <= Len(raw) /\ raw[segs[i][2] + 1] = 0
      <4>1. /\ segs[i][2] \in Nat /\ segs[i][2] <= cut
            /\ segs[i][2] = cut \/ s[segs[i][2] + 1] = 0
        BY <1>2 DEF SegmentsOf, Says
      <4>2. CASE segs[i][2] = cut
        BY <1>1, <2>1, <4>2
      <4>3. CASE segs[i][2] # cut
        <5>1. segs[i][2] + 1 \in 1..cut /\ segs[i][2] + 1 <= Len(raw)
          BY <1>1, <4>1, <4>3
        <5> QED BY <1>1, <4>1, <4>3, <5>1
      <4> QED BY <4>2, <4>3
    <3>4. EndInSilence(segs, raw)
      BY <3>3 DEF EndInSilence
    <3> QED BY <3>1, <3>2, <3>4
  <2>2. CASE ~chunk.verified /\ segs = <<>>
    <3>1. k = segs /\ w = cut
      BY <2>2
    <3>2. Says(segs, s, cut) /\ BeginInSilence(segs, s)
      BY <1>2 DEF SegmentsOf
    <3>3. EndInSilence(segs, raw)
      BY <2>2 DEF EndInSilence
    <3>4. QuietAt(raw, cut)
      <4>1. cut \in 1..cut /\ Len(segs) = 0
        BY <1>1, <2>2
      <4>2. ~(s[cut] > 0)
        BY <3>2, <4>1 DEF Says
      <4>3. s[cut] = 0 /\ s[cut] = raw[cut]
        BY <1>1, <4>1, <4>2
      <4> QED BY <4>3 DEF QuietAt
    <3> QED BY <3>1, <3>2, <3>3, <3>4
  <2>3. CASE ~chunk.verified /\ segs # <<>>
    <3>1. split = SplitCommit(segs, Len(s)) /\ Len(s) > 0
      BY <1>1, <2>3
    <3>2. /\ Says(k, s, w) /\ BeginInSilence(k, s) /\ EndInSilence(k, s) /\ s[w] = 0
      BY <1>1, <1>2, <1>4, <3>1, SplitIsSafe
    <3>3. EndInSilence(k, raw)
      <4>1. ASSUME NEW i \in 1..Len(k)
            PROVE  k[i][2] + 1 <= Len(raw) /\ raw[k[i][2] + 1] = 0
        <5>1. k[i][2] \in Nat
          BY <3>2 DEF Says
        <5>2. k[i][2] + 1 <= cut /\ s[k[i][2] + 1] = 0
          BY <3>2 DEF EndInSilence
        <5>3. k[i][2] + 1 \in 1..cut /\ k[i][2] + 1 <= Len(raw)
          BY ONLY <1>1, <5>1, <5>2
        <5> QED BY <1>1, <5>2, <5>3
      <4> QED BY <4>1 DEF EndInSilence
    <3>4. w \in 1..cut
      BY <1>1, <1>3, <1>4
    <3> QED BY <1>1, <3>2, <3>3, <3>4 DEF QuietAt
  <2> QED BY <2>1, <2>2, <2>3
<1>5. ASSUME w # 0
      PROVE  Says(k, raw, w) /\ BeginInSilence(k, raw)
  <2>1. Says(k, s, w) /\ BeginInSilence(k, s)
    BY <1>4, <1>5
  <2> HIDE DEF s, cut, k, w
  <2>2. w <= Len(s) /\ w <= Len(raw) /\ \A m \in 1..w : raw[m] = s[m]
    BY <1>1, <1>3 DEF cut
  <2>3. Says(k, raw, w)
    BY <1>1, <1>3, <2>1, <2>2, SaysOfPrefix
  <2>4. ASSUME NEW i \in 1..Len(k)
        PROVE  (k[i][1] = 0 \/ raw[k[i][1]] = 0) /\ raw[k[i][1] + 1] > 0
    <3>1. k[i][1] \in Nat /\ k[i][2] \in Nat /\ k[i][1] < k[i][2] /\ k[i][2] <= w
      BY <2>1 DEF Says
    <3>2. k[i][1] + 1 \in 1..cut /\ (k[i][1] = 0 \/ k[i][1] \in 1..cut)
      BY ONLY <1>1, <1>3, <3>1
    <3>3. (k[i][1] = 0 \/ s[k[i][1]] = 0) /\ s[k[i][1] + 1] > 0
      BY <2>1 DEF BeginInSilence
    <3> QED BY <1>1, <3>2, <3>3
  <2>5. BeginInSilence(k, raw)
    BY <2>4 DEF BeginInSilence
  <2> QED BY <2>3, <2>5
<1>6. w <= Len(raw)
  BY <1>1, <1>3
<1> QED BY <1>3, <1>4, <1>5, <1>6

(* A committed chunk: its words join the text, its samples leave the       *)
(* buffer.                                                                 *)
LEMMA CommitKeepsSound ==
  ASSUME SoundInv, Commit
  PROVE  SoundInv'
<1>1. PICK segs \in Segments(chunk.sound) :
        LET cut == Len(chunk.sound)
            split == IF chunk.verified \/ segs = <<>> THEN [kept |-> segs, watermark |-> cut]
                     ELSE SplitCommit(segs, cut)
        IN IF split.watermark = 0
           THEN chunking' = "disabled" /\ UNCHANGED <<parts, raw, drained>>
           ELSE /\ parts' = Joined(split.kept, split.watermark)
                /\ Drain(split.watermark) /\ UNCHANGED chunking
  BY DEF Commit
<1> DEFINE split == IF chunk.verified \/ segs = <<>>
                    THEN [kept |-> segs, watermark |-> Len(chunk.sound)]
                    ELSE SplitCommit(segs, Len(chunk.sound))
           k == split.kept
           w == split.watermark
<1>2. /\ chunk # NoChunk /\ chunk' = NoChunk /\ spill' = spill /\ deaf' = deaf
      /\ spoken' = spoken
  BY DEF Commit
<1>3. /\ raw \in Seq(Loudness) /\ spoken \in Seq(Loudness) /\ drained \in Nat
      /\ Len(raw) \in Nat /\ Len(spoken) \in Nat /\ drained + Len(raw) <= Len(spoken)
      /\ \A i \in 1..Len(raw) : raw[i] = spoken[drained + i]
  BY DEF SoundInv, Heard, HeardOf
<1>4. /\ w \in Nat /\ w <= Len(raw)
      /\ w # 0 => /\ Says(k, raw, w) /\ BeginInSilence(k, raw) /\ EndInSilence(k, raw)
                  /\ QuietAt(raw, w)
  BY <1>2, <1>3, CommittedSays DEF SoundInv
<1>5. CASE w = 0
  <2>1. parts' = parts /\ raw' = raw /\ drained' = drained
    BY <1>1, <1>5
  <2> QED BY <1>2, <2>1, NoChunkKeepsSound DEF samples
<1>6. CASE w # 0
  <2>1. /\ parts' = [text |-> parts.text \o Moved(k, parts.took), took |-> parts.took + w]
        /\ drained' = drained + w /\ raw' = SubSeq(raw, w + 1, Len(raw))
    BY <1>1, <1>6 DEF Joined, Drain
  <2> HIDE DEF split, k, w
  <2>2. Heard'
    <3>1. HeardOf(spoken, SubSeq(raw, w + 1, Len(raw)), spill, drained + w, deaf)
      BY <1>4, HeardDrained DEF SoundInv, Heard
    <3> QED BY <1>2, <2>1, <3>1 DEF Heard
  <2>3. ChunkHeard'
    <3>1. raw' \in Seq(Loudness)
      BY <2>2 DEF Heard, HeardOf
    <3> QED BY <1>2, <3>1, NoChunkIsHeard
  <2>4. /\ parts.took = drained /\ Says(parts.text, spoken, drained)
        /\ BeginInSilence(parts.text, spoken) /\ EndInSilence(parts.text, spoken)
        /\ QuietAt(spoken, drained)
    BY DEF SoundInv, PartsSay
  <2>5. /\ parts'.took = drained + w /\ parts'.text = parts.text \o Moved(k, drained)
    BY <2>1, <2>4
  <2>6. /\ Says(parts.text \o Moved(k, drained), spoken, drained + w)
        /\ BeginInSilence(parts.text \o Moved(k, drained), spoken)
        /\ EndInSilence(parts.text \o Moved(k, drained), spoken)
    BY <1>3, <1>4, <1>6, <2>4, JoinSays
  <2>7. QuietAt(spoken, drained + w)
    <3>1. w \in 1..Len(raw)
      BY <1>3, <1>4, <1>6
    <3>2. CASE raw[w] = 0
      BY <1>3, <3>1, <3>2 DEF QuietAt
    <3>3. CASE w + 1 <= Len(raw) /\ raw[w + 1] = 0
      <4>1. w + 1 \in 1..Len(raw) /\ drained + (w + 1) = drained + w + 1
            /\ drained + w + 1 <= Len(spoken)
        BY ONLY <1>3, <1>4, <3>3
      <4>2. spoken[drained + w + 1] = 0
        BY <1>3, <3>3, <4>1
      <4> QED BY <4>1, <4>2 DEF QuietAt
    <3> QED BY <1>4, <1>6, <3>2, <3>3 DEF QuietAt
  <2>8. PartsSay'
    <3>1. parts'.took = drained' /\ drained' = drained + w /\ spoken' = spoken
      BY <1>2, <2>1, <2>5
    <3> QED BY ONLY <2>5, <2>6, <2>7, <3>1 DEF PartsSay
  <2> QED BY <2>2, <2>3, <2>8 DEF SoundInv
<1> QED BY <1>5, <1>6

------------------------------------------------------------------------------
(* A sound that agrees with another all along is a beginning of it.        *)
LEMMA PrefixIs ==
  ASSUME NEW a \in Seq(Loudness), NEW b \in Seq(Loudness), Len(a) <= Len(b),
         \A i \in 1..Len(a) : a[i] = b[i]
  PROVE  IsPrefix(a, b)
<1>1. /\ SubSeq(a, 1, Len(a)) \in Seq(Loudness) /\ Len(SubSeq(a, 1, Len(a))) = Len(a)
      /\ \A i \in 1..Len(a) : SubSeq(a, 1, Len(a))[i] = a[i]
  OBVIOUS
<1>2. /\ SubSeq(b, 1, Len(a)) \in Seq(Loudness) /\ Len(SubSeq(b, 1, Len(a))) = Len(a)
      /\ \A i \in 1..Len(a) : SubSeq(b, 1, Len(a))[i] = b[i]
  OBVIOUS
<1>3. SubSeq(a, 1, Len(a)) = SubSeq(b, 1, Len(a))
  BY <1>1, <1>2, SeqEqual
<1> QED BY <1>3 DEF IsPrefix

(* The text of a take that ends says a beginning of what was recorded.     *)
LEMMA StoppedSays ==
  ASSUME SoundInv, Stopped
  PROVE  SoundInv' /\ ResultSays'
<1>1. PICK segs \in Segments(raw), failed \in BOOLEAN :
        result' = Finished(SubSeq(spoken, 1, drained) \o raw, failed, segs)
  BY DEF Stopped
<1>2. SoundInv'
  BY ClearedKeepsSound DEF Stopped
<1>3. /\ raw \in Seq(Loudness) /\ spoken \in Seq(Loudness) /\ drained \in Nat
      /\ Len(raw) \in Nat /\ Len(spoken) \in Nat /\ drained + Len(raw) <= Len(spoken)
      /\ \A i \in 1..Len(raw) : raw[i] = spoken[drained + i]
  BY DEF SoundInv, Heard, HeardOf
<1>4. /\ parts.took = drained /\ Says(parts.text, spoken, drained)
      /\ BeginInSilence(parts.text, spoken) /\ EndInSilence(parts.text, spoken)
      /\ QuietAt(spoken, drained)
  BY DEF SoundInv, PartsSay
<1> DEFINE b == SubSeq(spoken, 1, drained)
           q == b \o raw
<1>5. /\ b \in Seq(Loudness) /\ Len(b) = drained
      /\ \A i \in 1..Len(b) : b[i] = spoken[0 + i]
  BY <1>3
<1>6. /\ q \in Seq(Loudness) /\ Len(q) = drained + Len(raw)
      /\ \A i \in 1..Len(q) : q[i] = spoken[0 + i]
  <2>1. \A i \in 1..Len(raw) : raw[i] = spoken[0 + Len(b) + i]
    BY <1>3, <1>5
  <2>2. 0 \in Nat
    OBVIOUS
  <2> HIDE DEF b
  <2>3. /\ q \in Seq(Loudness) /\ Len(q) = Len(b) + Len(raw)
        /\ \A i \in 1..Len(q) : q[i] = spoken[0 + i]
    <3>1. spoken \in Seq(Loudness) /\ raw \in Seq(Loudness) /\ b \in Seq(Loudness)
      BY <1>3, <1>5
    <3>2. \A i \in 1..Len(b) : b[i] = spoken[0 + i]
      BY <1>5
    <3> QED BY ONLY <2>1, <2>2, <3>1, <3>2, HeardConcat
  <2> QED BY <1>5, <2>3
<1>7. \A i \in 1..Len(q) : q[i] = spoken[i]
  BY <1>6
<1> HIDE DEF b, q
<1>8. SegmentsOf(segs, raw)
  BY <1>3, DecodedInPlace
<1>9. Len(q) \in Nat /\ drained <= Len(q) /\ Len(q) <= Len(spoken)
  BY ONLY <1>3, <1>6
<1>10. CASE parts = NoParts /\ failed
  <2>1. result'.sound = <<>> /\ result'.text = <<>> /\ result'.incomplete = FALSE
    BY <1>1, <1>10 DEF Finished, NoResult
  <2>2. <<>> \in Seq(Loudness) /\ Len(<<>>) = 0 /\ Says(<<>>, <<>>, 0)
    <3>1. <<>> \in Seq(Loudness)
      OBVIOUS
    <3> QED BY <3>1, EmptySays
  <2>3. 0 \in 0..Len(<<>>)
    BY <2>2
  <2>4. ResultSays'
    BY <2>1, <2>2, <2>3 DEF ResultSays
  <2> QED BY <1>2, <2>4
<1>11. CASE ~(parts = NoParts /\ failed) /\ failed
  <2>1. result' = [sound |-> q, incomplete |-> failed, text |-> parts.text]
    BY <1>1, <1>11 DEF Finished, q, b
  <2>2. result'.sound = q /\ result'.incomplete = TRUE /\ result'.text = parts.text
    BY <1>11, <2>1
  <2>3. drained \in 0..Len(q) /\ \A m \in 1..drained : q[m] = spoken[m]
    <3>1. \A m \in 1..drained : m \in 1..Len(q)
      BY ONLY <1>3, <1>9
    <3> QED BY <1>3, <1>7, <1>9, <3>1
  <2>4. Says(parts.text, q, drained)
    <3>1. drained <= Len(spoken) /\ drained <= Len(q) /\ drained \in Nat
      BY <1>3, <1>9
    <3>2. \A m \in 1..drained : q[m] = spoken[m]
      BY <2>3
    <3> QED BY <1>3, <1>4, <1>6, <3>1, <3>2, SaysOfPrefix
  <2>5. ResultSays'
    BY <1>6, <2>2, <2>3, <2>4 DEF ResultSays
  <2> QED BY <1>2, <2>5
<1>12. CASE ~failed
  <2> DEFINE u == parts.text \o Moved(segs, drained)
  <2>1. result' = [sound |-> q, incomplete |-> FALSE, text |-> u]
    BY <1>1, <1>4, <1>12 DEF Finished, Joined, q, b
  <2>2. result'.sound = q /\ result'.incomplete = FALSE /\ result'.text = u
    BY <2>1
  <2>3. Says(segs, raw, Len(raw)) /\ BeginInSilence(segs, raw) /\ Len(raw) <= Len(raw)
    BY <1>3, <1>8 DEF SegmentsOf
  <2>4. Says(u, spoken, drained + Len(raw))
    BY <1>3, <1>4, <2>3, JoinSays
  <2> HIDE DEF u
  <2>5. Says(u, q, Len(q))
    <3>1. Says(u, spoken, Len(q)) /\ \A m \in 1..Len(q) : q[m] = spoken[m]
      BY <1>6, <1>7, <2>4
    <3> QED BY <1>3, <1>6, <1>9, <3>1, SaysOfPrefix
  <2>6. Len(q) \in 0..Len(q)
    BY <1>9
  <2>7. ResultSays'
    BY <1>6, <2>2, <2>5, <2>6 DEF ResultSays
  <2> QED BY <1>2, <2>7
<1> QED BY <1>10, <1>11, <1>12

(* Before the first take ends there is nothing to say.                     *)
LEMMA NoResultSays ==
  ASSUME result' = NoResult
  PROVE  ResultSays'
<1>1. result'.sound = <<>> /\ result'.text = <<>> /\ result'.incomplete = FALSE
  BY DEF NoResult
<1>2. <<>> \in Seq(Loudness) /\ Len(<<>>) = 0
  OBVIOUS
<1>3. Says(<<>>, <<>>, 0)
  BY <1>2, EmptySays
<1>4. 0 \in 0..Len(<<>>)
  BY <1>2
<1> QED BY <1>1, <1>2, <1>3, <1>4 DEF ResultSays

(* A step that leaves the last take alone.                                 *)
LEMMA ResultStays ==
  ASSUME ResultSays, result' = result
  PROVE  ResultSays'
BY DEF ResultSays

(* A handle, cached or looked up, is of the device that is asked for.      *)
LEMMA DeviceKeeps ==
  ASSUME DeviceInv, CaptureNext
  PROVE  DeviceInv'
<1> DEFINE H == {NoHandle} \cup [for : {"usb", "default"}, is : {"usb", "default"}]
           Own(h) == h \in H /\ h.for = h.is
<1>1. /\ plugged \in BOOLEAN /\ stale \in BOOLEAN /\ missed = FALSE /\ Own(handle)
  BY DEF DeviceInv
<1>2. ASSUME NEW s \in Starts
      PROVE  /\ s.mic \in {"usb", "default"} /\ Own(Resolved(s.mic))
             /\ There(s.mic) => Substitute(Resolved(s.mic)) = s.mic
  <2>1. s.mic \in {"usb", "default"}
    BY CaptureAssumption
  <2>2. CASE handle.for = s.mic /\ ~stale
    <3>1. Resolved(s.mic) = handle /\ handle # NoHandle
      BY <2>1, <2>2 DEF Resolved, NoHandle
    <3> QED BY <1>1, <2>1, <2>2, <3>1 DEF Substitute
  <2>3. CASE ~(handle.for = s.mic /\ ~stale)
    <3>1. Resolved(s.mic) = LookedUp(s.mic)
      BY <2>3 DEF Resolved
    <3>2. CASE There(s.mic)
      <4>1. LookedUp(s.mic) = [for |-> s.mic, is |-> s.mic]
        BY <3>2 DEF LookedUp
      <4>2. LookedUp(s.mic) # NoHandle /\ LookedUp(s.mic).is = s.mic /\ LookedUp(s.mic).for = s.mic
        BY <2>1, <4>1 DEF NoHandle
      <4> QED BY <2>1, <3>1, <4>1, <4>2 DEF Substitute
    <3>3. CASE ~There(s.mic)
      <4>1. LookedUp(s.mic) = NoHandle
        BY <3>3 DEF LookedUp
      <4> QED BY <2>1, <3>1, <3>3, <4>1 DEF NoHandle
    <3> QED BY <3>2, <3>3
  <2> QED BY <2>2, <2>3
<1>3. Own(NoHandle)
  BY DEF NoHandle
<1>4. ASSUME plugged' \in BOOLEAN, stale' \in BOOLEAN, missed' = FALSE, Own(handle')
      PROVE  DeviceInv'
  BY <1>4 DEF DeviceInv
<1> HIDE DEF Own, H
<1>5. ASSUME UNCHANGED device PROVE DeviceInv'
  BY <1>1, <1>4, <1>5 DEF device
<1>6. CASE Plug
  <2>1. plugged' \in BOOLEAN /\ stale' \in BOOLEAN /\ missed' = missed /\ handle' = handle
    BY <1>1, <1>6 DEF Plug
  <2> QED BY <1>1, <1>4, <2>1
<1>7. ASSUME NEW s \in Starts, StartFails(s) PROVE DeviceInv'
  <2>1. plugged' = plugged /\ missed' = missed
    BY <1>7 DEF StartFails
  <2>2. \/ handle' \in {NoHandle, Resolved(s.mic)} /\ stale' = FALSE
        \/ UNCHANGED <<handle, stale>>
    BY <1>7 DEF StartFails
  <2> QED BY <1>1, <1>2, <1>3, <1>4, <2>1, <2>2
<1>8. ASSUME NEW s \in Starts, Start(s) PROVE DeviceInv'
  <2>1. /\ handle' = Resolved(s.mic) /\ stale' = FALSE /\ plugged' = plugged
        /\ missed' = (There(s.mic) /\ Substitute(handle') # s.mic)
    BY <1>8 DEF Start
  <2>2. missed' = FALSE
    BY <1>2, <2>1
  <2> QED BY <1>1, <1>2, <1>4, <2>1, <2>2
<1>9. CASE Callback \/ StreamDies \/ Pause \/ Resume
  BY <1>5, <1>9 DEF Callback, StreamDies, Pause, Resume
<1>10. CASE Stop \/ Poll
  BY <1>5, <1>10 DEF Stop, Poll, Stopped
<1>11. CASE Lock \/ Unlock \/ Peek \/ Commit \/ ChunkFails
  BY <1>5, <1>11 DEF Lock, Unlock, Peek, Commit, ChunkFails
<1> QED BY <1>6, <1>7, <1>8, <1>9, <1>10, <1>11 DEF CaptureNext, DeviceNext, TakeNext

(* What the poller must know is in the slot before anyone can see it.      *)
LEMMA StreamKeeps ==
  ASSUME StreamInv, CaptureNext
  PROVE  StreamInv'
<1>1. CASE Plug
  BY <1>1 DEF Plug, StreamInv, DeafIsReported, samples, text
<1>2. CASE StreamDies
  BY <1>2 DEF StreamDies, StreamInv, DeafIsReported, samples, text
<1>3. CASE Pause \/ Resume
  BY <1>3 DEF Pause, Resume, StreamInv, DeafIsReported, samples, text
<1>4. ASSUME NEW s \in Starts, StartFails(s) PROVE StreamInv'
  <2>1. /\ stream' = "none" /\ capture' = "idle" /\ locked' = locked /\ chunking' = chunking
    BY <1>4 DEF StartFails
  <2>2. deaf' \in BOOLEAN /\ error' \in {"none", "limit", "slow", "device"}
    BY <1>4 DEF StartFails, Cleared, StreamInv, samples
  <2> QED BY <2>1, <2>2 DEF StreamInv, DeafIsReported
<1>5. ASSUME NEW s \in Starts, Start(s) PROVE StreamInv'
  <2>1. /\ stream' = "live" /\ capture' = "recording" /\ locked' = locked
        /\ chunking' \in {"on", "off"} /\ deaf' = FALSE /\ error' = "none"
    BY <1>5 DEF Start, Cleared
  <2> QED BY <2>1 DEF StreamInv, DeafIsReported
<1>6. CASE Callback
  <2>1. /\ stream' = stream /\ stream = "live" /\ capture' = capture /\ locked' = locked
        /\ chunking' = chunking
    BY <1>6 DEF Callback, text
  <2>2. (deaf' = TRUE /\ error' \in {"limit", "slow"}) \/ (deaf' = deaf /\ error' = error)
    <3>1. PICK f : IF locked THEN Keep(f) ELSE Store(f)
      BY <1>6 DEF Callback
    <3>2. CASE locked
      BY <3>1, <3>2 DEF Keep, Reports
    <3>3. CASE ~locked
      BY <3>1, <3>3 DEF Store, Reports
    <3> QED BY <3>2, <3>3
  <2>3. CASE deaf' = TRUE /\ error' \in {"limit", "slow"}
    BY <2>1, <2>3 DEF StreamInv, DeafIsReported
  <2>4. CASE deaf' = deaf /\ error' = error
    BY <2>1, <2>4 DEF StreamInv, DeafIsReported
  <2> QED BY <2>2, <2>3, <2>4
<1>7. CASE Stop \/ Poll
  <2>1. /\ stream' = "none" /\ capture' = "idle" /\ locked' = locked /\ chunking' = chunking
        /\ deaf' = FALSE /\ (error' = error \/ error' = "none")
    BY <1>7 DEF Stop, Poll, Stopped, Cleared
  <2> QED BY <2>1 DEF StreamInv, DeafIsReported
<1>8. CASE Lock \/ Unlock
  <2>1. /\ stream' = stream /\ capture' = capture /\ locked' \in BOOLEAN /\ deaf' = deaf
        /\ error' = error /\ chunking' = chunking
    BY <1>8 DEF Lock, Unlock, samples, text
  <2> QED BY <2>1 DEF StreamInv, DeafIsReported
<1>9. CASE Peek
  BY <1>9 DEF Peek, StreamInv, DeafIsReported, samples
<1>10. CASE Commit
  <2>1. /\ stream' = stream /\ capture' = capture /\ locked' = FALSE /\ deaf' = deaf
        /\ error' = error
    BY <1>10 DEF Commit
  <2>2. chunking' = "disabled" \/ chunking' = chunking
    BY <1>10 DEF Commit
  <2> QED BY <2>1, <2>2 DEF StreamInv, DeafIsReported
<1>11. CASE ChunkFails
  BY <1>11 DEF ChunkFails, StreamInv, DeafIsReported, samples
<1> QED BY <1>1, <1>2, <1>3, <1>4, <1>5, <1>6, <1>7, <1>8, <1>9, <1>10, <1>11
        DEF CaptureNext, DeviceNext, TakeNext

(* Every step keeps the sound of the take, and the text of the last one.   *)
LEMMA TakeKeeps ==
  ASSUME SoundInv, ResultSays, CaptureNext
  PROVE  SoundInv' /\ ResultSays'
<1>1. ASSUME UNCHANGED <<samples, chunk, parts>>, result' = result
      PROVE  SoundInv' /\ ResultSays'
  BY <1>1, SoundStays, ResultStays
<1>2. CASE Plug \/ StreamDies \/ Pause \/ Resume \/ Lock \/ Unlock
  <2>1. UNCHANGED <<samples, chunk, parts>> /\ result' = result
    BY <1>2 DEF Plug, StreamDies, Pause, Resume, Lock, Unlock, text
  <2> QED BY <1>1, <2>1
<1>3. ASSUME NEW s \in Starts, StartFails(s) PROVE SoundInv' /\ ResultSays'
  <2>1. Cleared \/ UNCHANGED <<samples, chunk, parts>>
    BY <1>3 DEF StartFails
  <2>2. result' = NoResult
    BY <1>3 DEF StartFails
  <2> QED BY <2>1, <2>2, SoundStays, ClearedKeepsSound, NoResultSays
<1>4. ASSUME NEW s \in Starts, Start(s) PROVE SoundInv' /\ ResultSays'
  <2>1. Cleared /\ result' = NoResult
    BY <1>4 DEF Start
  <2> QED BY <2>1, ClearedKeepsSound, NoResultSays
<1>5. CASE Callback
  <2>1. result' = result
    BY <1>5 DEF Callback, text
  <2> QED BY <1>5, <2>1, CallbackKeepsSound, ResultStays
<1>6. CASE Stop \/ Poll
  BY <1>6, StoppedSays DEF Stop, Poll
<1>7. CASE Peek
  <2>1. result' = result
    BY <1>7 DEF Peek
  <2> QED BY <1>7, <2>1, PeekKeepsSound, ResultStays
<1>8. CASE Commit
  <2>1. result' = result
    BY <1>8 DEF Commit
  <2> QED BY <1>8, <2>1, CommitKeepsSound, ResultStays
<1>9. CASE ChunkFails
  <2>1. UNCHANGED <<samples, parts>> /\ chunk' = NoChunk /\ result' = result
    BY <1>9 DEF ChunkFails
  <2> QED BY <2>1, NoChunkKeepsSound, ResultStays
<1> QED BY <1>2, <1>3, <1>4, <1>5, <1>6, <1>7, <1>8, <1>9
        DEF CaptureNext, DeviceNext, TakeNext

(* What is shown of the take, its sound and its text are kept together by  *)
(* every step of the callback and of the GTK thread.                       *)
LEMMA CaptureInvariant == CaptureInit /\ [][CaptureNext]_captureVars => []CaptureInv
<1>1. CaptureInit => CaptureInv
  <2> SUFFICES ASSUME CaptureInit PROVE CaptureInv
    OBVIOUS
  <2>1. DeviceInv
    BY DEF CaptureInit, DeviceInv, NoHandle
  <2>2. StreamInv
    BY DEF CaptureInit, StreamInv, DeafIsReported
  <2>3. /\ raw = <<>> /\ drained = 0 /\ spill = <<>> /\ deaf = FALSE /\ spoken = <<>>
        /\ chunk.sound = <<>> /\ chunk.verified = FALSE /\ chunk = NoChunk
        /\ parts.text = <<>> /\ parts.took = 0
    BY DEF CaptureInit, NoChunk, NoParts
  <2>4. <<>> \in Seq(Loudness) /\ Len(<<>>) = 0
    OBVIOUS
  <2>5. MaxBuffer \in Nat /\ MaxLive \in Nat /\ MaxSpill \in Nat
    BY CaptureAssumption
  <2>6. Heard
    <3>1. HeardOf(<<>>, <<>>, <<>>, 0, FALSE)
      BY <2>4, <2>5 DEF HeardOf
    <3> QED BY <2>3, <3>1 DEF Heard
  <2>7. ChunkHeard
    <3>1. Len(chunk.sound) = 0 /\ chunk.sound \in Seq(Loudness) /\ Len(raw) = 0 /\ ~chunk.verified
      BY <2>3, <2>4
    <3>2. chunk.verified \in BOOLEAN /\ chunk = NoChunk
      BY <2>3
    <3> QED BY ONLY <3>1, <3>2 DEF ChunkHeard
  <2>8. PartsSay
    <3>1. /\ Says(<<>>, <<>>, 0) /\ BeginInSilence(<<>>, <<>>) /\ EndInSilence(<<>>, <<>>)
          /\ QuietAt(<<>>, 0)
      BY <2>4, EmptySays
    <3> QED BY <2>3, <3>1 DEF PartsSay
  <2>9. ResultSays
    <3>1. result.sound = <<>> /\ result.text = <<>> /\ result.incomplete = FALSE
      BY DEF CaptureInit, NoResult
    <3>2. Says(<<>>, <<>>, 0)
      BY <2>4, EmptySays
    <3>3. 0 \in 0..Len(<<>>)
      BY <2>4
    <3> QED BY <2>4, <3>1, <3>2, <3>3 DEF ResultSays
  <2> QED BY <2>1, <2>2, <2>6, <2>7, <2>8, <2>9 DEF CaptureInv, SoundInv
<1>2. CaptureInv /\ [CaptureNext]_captureVars => CaptureInv'
  <2> SUFFICES ASSUME CaptureInv, [CaptureNext]_captureVars PROVE CaptureInv'
    OBVIOUS
  <2>1. CASE CaptureNext
    BY <2>1, DeviceKeeps, StreamKeeps, TakeKeeps DEF CaptureInv
  <2>2. CASE UNCHANGED captureVars
    <3>1. DeviceInv'
      BY <2>2 DEF CaptureInv, DeviceInv, captureVars, device
    <3>2. StreamInv'
      BY <2>2 DEF CaptureInv, StreamInv, DeafIsReported, captureVars, samples, text
    <3>3. UNCHANGED <<samples, chunk, parts>> /\ result' = result
      BY <2>2 DEF captureVars, text
    <3> QED BY <3>1, <3>2, <3>3, SoundStays, ResultStays DEF CaptureInv
  <2> QED BY <2>1, <2>2
<1> QED BY <1>1, <1>2, PTL

(* The buffer and the copy, as the runs state it.                          *)
LEMMA HeardIsInOrder ==
  ASSUME SoundInv
  PROVE  NothingDropped /\ ChunkIsPrefix
<1>1. /\ raw \in Seq(Loudness) /\ spoken \in Seq(Loudness) /\ spill \in Seq(Loudness)
      /\ drained \in Nat /\ Len(raw) \in Nat /\ Len(spoken) \in Nat /\ Len(spill) \in Nat
      /\ drained + Len(raw) <= Len(spoken)
      /\ \A i \in 1..Len(raw) : raw[i] = spoken[drained + i]
  BY DEF SoundInv, Heard, HeardOf
<1> DEFINE rest == SubSeq(spoken, drained + 1, Len(spoken))
<1>2. /\ rest \in Seq(Loudness) /\ Len(rest) = Len(spoken) - drained
      /\ \A i \in 1..Len(rest) : rest[i] = spoken[drained + i]
  BY <1>1
<1> HIDE DEF rest
<1>3. Len(raw) <= Len(rest) /\ \A i \in 1..Len(raw) : i \in 1..Len(rest)
  BY ONLY <1>1, <1>2
<1>4. IsPrefix(raw, rest)
  BY <1>1, <1>2, <1>3, PrefixIs
<1>5. ASSUME ~deaf PROVE raw \o spill = rest
  <2>1. /\ Len(spoken) = drained + Len(raw) + Len(spill)
        /\ \A i \in 1..Len(spill) : spill[i] = spoken[drained + Len(raw) + i]
    BY <1>5 DEF SoundInv, Heard, HeardOf
  <2> DEFINE a == raw \o spill
  <2>2. /\ a \in Seq(Loudness) /\ Len(a) = Len(raw) + Len(spill)
        /\ \A i \in 1..Len(a) : a[i] = spoken[drained + i]
    <3>1. /\ spoken \in Seq(Loudness) /\ drained \in Nat
          /\ raw \in Seq(Loudness) /\ spill \in Seq(Loudness)
      BY <1>1
    <3>2. \A i \in 1..Len(raw) : raw[i] = spoken[drained + i]
      BY <1>1
    <3>3. \A i \in 1..Len(spill) : spill[i] = spoken[drained + Len(raw) + i]
      BY <2>1
    <3> QED BY ONLY <3>1, <3>2, <3>3, HeardConcat
  <2> HIDE DEF a
  <2>3. Len(a) = Len(rest)
    BY ONLY <1>1, <1>2, <2>1, <2>2
  <2>4. \A i \in 1..Len(a) : a[i] = rest[i]
    BY ONLY <1>2, <2>2, <2>3
  <2>5. a = rest
    BY <1>2, <2>2, <2>3, <2>4, SeqEqual
  <2> QED BY <2>5 DEF a
<1>6. NothingDropped
  <2> USE DEF rest
  <2> QED BY <1>4, <1>5 DEF NothingDropped
<1>7. ChunkIsPrefix
  BY <1>1, PrefixIs DEF SoundInv, ChunkHeard, ChunkIsPrefix
<1> QED BY <1>6, <1>7

(* The committed words, as the runs state it.                              *)
LEMMA CommittedIsWhole ==
  ASSUME SoundInv
  PROVE  CommittedWordsWhole
<1> DEFINE t == parts.text
           Silent(i) == i = 0 \/ i > Len(spoken) \/ spoken[i] = 0
<1>1. Says(t, spoken, drained) /\ BeginInSilence(t, spoken) /\ EndInSilence(t, spoken)
  BY DEF SoundInv, PartsSay
<1>2. /\ t \in Seq(Nat \X Nat) /\ DOMAIN t = 1..Len(t) /\ Len(t) \in Nat
  BY <1>1 DEF Says
<1>3. ASSUME NEW i \in DOMAIN t
      PROVE  /\ Silent(t[i][1]) /\ Silent(t[i][2] + 1)
             /\ i > 1 => t[i - 1][2] <= t[i][1]
  <2>1. i \in 1..Len(t)
    BY <1>2
  <2>2. t[i][1] = 0 \/ spoken[t[i][1]] = 0
    BY <1>1, <2>1 DEF BeginInSilence
  <2>3. spoken[t[i][2] + 1] = 0
    BY <1>1, <2>1 DEF EndInSilence
  <2>4. ASSUME i > 1 PROVE t[i - 1][2] <= t[i][1]
    <3>1. i - 1 \in 1..Len(t) /\ i - 1 < i
      BY <1>2, <2>1, <2>4
    <3> QED BY <1>1, <2>1, <3>1 DEF Says
  <2> QED BY <2>2, <2>3, <2>4
<1>4. ASSUME NEW n \in 1..drained, spoken[n] > 0
      PROVE  \E i \in DOMAIN t : t[i][1] < n /\ n <= t[i][2]
  BY <1>1, <1>2, <1>4 DEF Says
<1> QED BY <1>3, <1>4 DEF CommittedWordsWhole

(* The text of a take, as the runs state it: no sound is in two segments,  *)
(* for they are in order.                                                  *)
LEMMA ResultIsWhole ==
  ASSUME ResultSays
  PROVE  TakeIsWhole
<1> DEFINE t == result.text
           s == result.sound
           Said(n) == {i \in DOMAIN t : t[i][1] < n /\ n <= t[i][2]}
<1>1. PICK said \in 0..Len(s) :
        /\ Says(t, s, said)
        /\ ~result.incomplete => said = Len(s)
  BY DEF ResultSays
<1>2. /\ s \in Seq(Loudness) /\ DOMAIN s = 1..Len(s) /\ Len(s) \in Nat
      /\ t \in Seq(Nat \X Nat) /\ DOMAIN t = 1..Len(t) /\ Len(t) \in Nat
      /\ result.incomplete \in BOOLEAN
  BY <1>1 DEF ResultSays, Says
<1>3. \A i \in 1..Len(t) : t[i][1] \in Nat /\ t[i][2] \in Nat
  BY <1>2
<1> HIDE DEF t, s
<1>4. \A i, j \in 1..Len(t) : i < j => t[i][2] <= t[j][1]
  BY <1>1 DEF Says
<1>5. \A m \in 1..said : s[m] > 0 => \E i \in 1..Len(t) : t[i][1] < m /\ m <= t[i][2]
  BY <1>1 DEF Says
<1>6. said \in Nat
  BY <1>2
<1>7. ~result.incomplete => said = Len(s)
  BY <1>1, Zenon
<1>8. ASSUME NEW n \in DOMAIN s, s[n] > 0
      PROVE  Cardinality(Said(n)) = IF result.incomplete /\ Said(n) = {} THEN 0 ELSE 1
  <2>1. n \in Nat
    BY <1>2
  <2>2. ASSUME NEW i \in Said(n), NEW j \in Said(n) PROVE i = j
    <3>1. /\ i \in 1..Len(t) /\ t[i][1] < n /\ n <= t[i][2]
          /\ j \in 1..Len(t) /\ t[j][1] < n /\ n <= t[j][2]
      BY <1>2
    <3>2. ~(i < j)
      <4>1. i < j => t[i][2] <= t[j][1]
        BY <1>4, <3>1
      <4> QED BY <1>3, <2>1, <3>1, <4>1
    <3>3. ~(j < i)
      <4>1. j < i => t[j][2] <= t[i][1]
        BY <1>4, <3>1
      <4> QED BY <1>3, <2>1, <3>1, <4>1
    <3>4. i \in Nat /\ j \in Nat
      BY <1>2, <3>1
    <3> QED BY ONLY <3>2, <3>3, <3>4
  <2>3. CASE Said(n) = {}
    <3>1. result.incomplete
      <4>1. SUFFICES ASSUME ~result.incomplete PROVE FALSE
        OBVIOUS
      <4>2. n \in 1..said
        <5>1. said = Len(s)
          BY <1>7, <4>1
        <5> QED BY <1>2, <1>6, <5>1
      <4>3. \E i \in 1..Len(t) : t[i][1] < n /\ n <= t[i][2]
        BY <1>5, <1>8, <4>2
      <4> QED BY <1>2, <2>3, <4>3
    <3>2. Cardinality(Said(n)) = 0
      BY <2>3, FS_EmptySet
    <3> QED BY <2>3, <3>1, <3>2
  <2>4. CASE Said(n) # {}
    <3>1. PICK i : i \in Said(n)
      BY <2>4
    <3>2. Said(n) = {i}
      BY <2>2, <3>1
    <3>3. Cardinality({i}) = 1
      BY FS_Singleton
    <3> QED BY <2>4, <3>2, <3>3
  <2> QED BY <2>3, <2>4
<1>9. ASSUME NEW i \in DOMAIN t, i > 1 PROVE t[i - 1][2] <= t[i][1]
  <2>1. i \in 1..Len(t) /\ i - 1 \in 1..Len(t) /\ i - 1 < i
    BY <1>2, <1>9
  <2> QED BY <1>4, <2>1
<1> QED BY <1>8, <1>9 DEF TakeIsWhole, t, s

(* For any devices, limits and guards of the cut: every sound from the     *)
(* microphone that was asked for is decoded once, in order and in whole    *)
(* words, however the callback, the chunks and the limits interleave, or   *)
(* the take says that it is not whole.                                     *)
THEOREM CaptureSafetyAlways == CaptureInit /\ [][CaptureNext]_captureVars => []CaptureSafety
<1>1. CaptureInv => CaptureSafety
  <2> SUFFICES ASSUME CaptureInv PROVE CaptureSafety
    OBVIOUS
  <2>1. DeviceInv /\ StreamInv /\ SoundInv /\ ResultSays
    BY DEF CaptureInv
  <2>2. CaptureTypeOK
    <3>1. /\ plugged \in BOOLEAN /\ stale \in BOOLEAN /\ missed \in BOOLEAN
          /\ handle \in {NoHandle} \cup [for : {"usb", "default"}, is : {"usb", "default"}]
      BY <2>1 DEF DeviceInv
    <3>2. /\ stream \in {"none", "live", "dead"} /\ capture \in {"idle", "recording", "paused"}
          /\ locked \in BOOLEAN /\ deaf \in BOOLEAN
          /\ error \in {"none", "limit", "slow", "device"}
          /\ chunking \in {"on", "off", "disabled"}
      BY <2>1 DEF StreamInv
    <3>3. /\ raw \in Seq(Loudness) /\ Len(raw) <= MaxBuffer /\ drained + Len(raw) <= MaxLive
          /\ spill \in Seq(Loudness) /\ Len(spill) <= MaxSpill /\ drained \in Nat
      BY <2>1 DEF SoundInv, Heard, HeardOf
    <3>4. chunk.sound \in Seq(Loudness) /\ chunk.verified \in BOOLEAN
      BY <2>1 DEF SoundInv, ChunkHeard
    <3>5. parts.text \in Seq(Nat \X Nat) /\ parts.took = drained
      BY <2>1 DEF SoundInv, PartsSay, Says
    <3>6. drained \in 0..MaxLive
      <4>1. Len(raw) \in Nat /\ MaxLive \in Nat
        BY <3>3, CaptureAssumption
      <4> QED BY ONLY <3>3, <4>1
    <3>7. result.incomplete \in BOOLEAN
      BY <2>1 DEF ResultSays
    <3>8. parts.took \in 0..MaxLive
      BY <3>5, <3>6
    <3> QED BY ONLY <3>1, <3>2, <3>3, <3>4, <3>5, <3>7, <3>8 DEF CaptureTypeOK
  <2>3. NothingDropped /\ ChunkIsPrefix /\ CommittedWordsWhole /\ TakeIsWhole
    BY <2>1, HeardIsInOrder, CommittedIsWhole, ResultIsWhole
  <2>4. DeafIsReported /\ RequestedMicUsed
    BY <2>1 DEF StreamInv, DeviceInv, RequestedMicUsed
  <2> QED BY <2>2, <2>3, <2>4 DEF CaptureSafety
<1> QED BY <1>1, CaptureInvariant, PTL
=============================================================================
