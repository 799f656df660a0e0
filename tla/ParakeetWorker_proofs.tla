------------------------- MODULE ParakeetWorker_proofs -------------------------
(* The Parakeet worker, for any number of threads, models, processes,      *)
(* calls and shutdowns: its safety, and step by step that it implements    *)
(* the warm slot.  And the global shortcuts, for any queues and keys.      *)
EXTENDS ParakeetWorker, GlobalShortcuts, SequenceTheorems, TLAPS

Starting == {"handshake", "publish"}

(* Only the holder of the request mutex is past the wait for it.           *)
Locked == \A t \in Thread : call[t].pc \in Holding => request = t

(* While a thread puts a worker away or starts one the slot is empty.      *)
SlotEmptied ==
  \A t \in Thread :
    call[t].pc \in {"stale", "spawn"} \cup Starting => slot = None

(* A worker that starts is the thread's own, not what shutdown drops; the  *)
(* worker a thread talks to stays in the slot until shutdown takes it.     *)
MineIsOwn ==
  \A t \in Thread :
    /\ call[t].pc \in Starting => call[t].mine \in Server /\ call[t].mine # victim
    /\ call[t].pc \in {"write", "read"} =>
         call[t].mine \in Server /\ slot \in {call[t].mine, None}

(* Shutdown has a worker only between taking and dropping it.              *)
VictimTaken ==
  /\ stopping # "drop" => victim = None
  /\ victim # None => slot # victim

(* The worker a thread deals with was started for what it wants.           *)
MineMatches ==
  \A t \in Thread :
    call[t].pc \in Starting \cup {"write", "read"} /\ call[t].mine \in live =>
      model[call[t].mine] = call[t].want

(* A stream is empty until the call is written, then holds that call; what *)
(* a failed call left there is in a worker that is about to go.            *)
StreamIsOwn ==
  /\ \A t \in Thread : call[t].mine \in live =>
       /\ call[t].pc \in Starting \cup {"write"} => wire[call[t].mine] = <<>>
       /\ call[t].pc = "read" => wire[call[t].mine] = <<call[t].id>>
  /\ slot \in live /\ wire[slot] # <<>> =>
       \E t \in Thread : call[t].pc \in {"read", "failed"}

EpochsPast == \A t \in Thread : call[t].epoch <= epoch

(* A start whose worker a shutdown found is of an older epoch, so nothing  *)
(* that shutdown found is warm once it has taken the slot.                 *)
CondemnedPast ==
  /\ \A t \in Thread :
       call[t].pc \in Starting /\ call[t].mine \in condemned => call[t].epoch # epoch
  /\ stopping # "bumped" => slot \notin condemned

WorkerInv ==
  /\ WorkerSafety /\ Locked /\ SlotEmptied /\ MineIsOwn /\ VictimTaken
  /\ MineMatches /\ StreamIsOwn /\ EpochsPast /\ CondemnedPast

(* A thread moves on, and another worker may be its own from then on.      *)
LEMMA Moved ==
  ASSUME TypeOK, NEW t \in Thread, NEW pc \in Holding \cup {"idle", "waiting", "done"},
         NEW s \in Server \cup {None}
  PROVE  /\ [call EXCEPT ![t].pc = pc] \in [Thread -> Call]
         /\ [call EXCEPT ![t].pc = pc, ![t].mine = s] \in [Thread -> Call]
<1>1. call[t] \in Call
  BY DEF TypeOK
<1>2. [call[t] EXCEPT !.pc = pc] \in Call /\ [call[t] EXCEPT !.pc = pc, !.mine = s] \in Call
  BY <1>1 DEF Call
<1>3. /\ [call EXCEPT ![t].pc = pc] = [call EXCEPT ![t] = [call[t] EXCEPT !.pc = pc]]
      /\ [call EXCEPT ![t].pc = pc, ![t].mine = s]
           = [call EXCEPT ![t] = [call[t] EXCEPT !.pc = pc, !.mine = s]]
  BY <1>1 DEF TypeOK
<1> QED BY <1>2, <1>3 DEF TypeOK

(* A thread that has returned or not yet called.                           *)
LEMMA IdleIsCall == Idle \in Call
BY DEF Idle, Call

LEMMA Called ==
  ASSUME NEW c \in Call, NEW m \in Model, NEW n \in Nat, NEW e \in Nat
  PROVE  [c EXCEPT !.pc = "waiting", !.id = n, !.want = m, !.epoch = e] \in Call
BY DEF Call

(* A process that is gone has no model and no stream; killing none changes *)
(* nothing.                                                                *)
LEMMA Killed ==
  ASSUME TypeOK, NEW s \in Server \cup {None}, Kill(s)
  PROVE  /\ live' \subseteq live /\ s \notin live' /\ live \subseteq live' \cup {s}
         /\ model' \in [Server -> Model \cup {None}] /\ wire' \in [Server -> Seq(Nat)]
         /\ \A x \in live' : model'[x] = model[x] /\ wire'[x] = wire[x]
BY WorkerAssumption DEF TypeOK, Kill


(* A thread asks for a transcription and reads the epoch.                  *)
LEMMA TranscribePreserves ==
  ASSUME WorkerInv, NEW t \in Thread, NEW m \in Model, Transcribe(t, m)
  PROVE  WorkerInv'
<1> USE WorkerAssumption DEF WorkerInv, WorkerSafety, Transcribe, processes,
     gtk, Holding, Starting
<1>1. TypeOK'
  <2> DEFINE c == [Idle EXCEPT !.pc = "waiting", !.id = calls + 1, !.want = m, !.epoch = epoch]
  <2>0. calls + 1 \in Nat /\ epoch \in Nat
    BY DEF TypeOK
  <2>1. c \in Call
    BY <2>0, IdleIsCall, Called, Zenon
  <2>2. call' = [call EXCEPT ![t] = c]
    OBVIOUS
  <2> HIDE DEF c
  <2> QED BY <2>1, <2>2 DEF TypeOK
<1>2. AnswerIsOwn'
  BY DEF AnswerIsOwn, StreamIsOwn, TypeOK, Call, Idle
<1>3. RightModel'
  BY DEF RightModel, MineMatches, TypeOK, Call, Idle
<1>4. NoOrphan'
  BY DEF NoOrphan, SlotEmptied, VictimTaken, Locked, TypeOK, Call, Idle
<1>5. Locked'
  BY DEF Locked, TypeOK, Call, Idle
<1>6. SlotEmptied'
  BY DEF SlotEmptied, Locked, TypeOK, Call, Idle
<1>7. MineIsOwn'
  BY DEF MineIsOwn, Locked, SlotEmptied, TypeOK, Call, Idle
<1>8. VictimTaken'
  BY DEF VictimTaken, SlotEmptied, MineIsOwn, TypeOK, Call, Idle
<1>9. MineMatches'
  BY DEF MineMatches, Locked, SlotEmptied, MineIsOwn, TypeOK, Call, Idle
<1>10. StreamIsOwn'
  BY DEF StreamIsOwn, Locked, TypeOK, Call, Idle
<1>11. EpochsPast'
  BY DEF EpochsPast, TypeOK, Call, Idle
<1>12. CondemnedPast'
  BY DEF CondemnedPast, EpochsPast, SlotEmptied, TypeOK, Call, Idle
<1> QED BY <1>1, <1>2, <1>3, <1>4, <1>5, <1>6, <1>7, <1>8, <1>9, <1>10, <1>11, <1>12

(* It gives up waiting.                                                    *)
LEMMA GiveUpPreserves ==
  ASSUME WorkerInv, NEW t \in Thread, GiveUp(t)
  PROVE  WorkerInv'
<1> USE WorkerAssumption DEF WorkerInv, WorkerSafety, GiveUp, processes, gtk,
     Holding, Starting
<1>1. TypeOK'
  BY IdleIsCall DEF TypeOK
<1>2. AnswerIsOwn'
  BY DEF AnswerIsOwn, StreamIsOwn, TypeOK, Call, Idle
<1>3. RightModel'
  BY DEF RightModel, MineMatches, TypeOK, Call, Idle
<1>4. NoOrphan'
  BY DEF NoOrphan, SlotEmptied, VictimTaken, Locked, TypeOK, Call, Idle
<1>5. Locked'
  BY DEF Locked, TypeOK, Call, Idle
<1>6. SlotEmptied'
  BY DEF SlotEmptied, Locked, TypeOK, Call, Idle
<1>7. MineIsOwn'
  BY DEF MineIsOwn, Locked, SlotEmptied, TypeOK, Call, Idle
<1>8. VictimTaken'
  BY DEF VictimTaken, SlotEmptied, MineIsOwn, TypeOK, Call, Idle
<1>9. MineMatches'
  BY DEF MineMatches, Locked, SlotEmptied, MineIsOwn, TypeOK, Call, Idle
<1>10. StreamIsOwn'
  BY DEF StreamIsOwn, Locked, TypeOK, Call, Idle
<1>11. EpochsPast'
  BY DEF EpochsPast, TypeOK, Call, Idle
<1>12. CondemnedPast'
  BY DEF CondemnedPast, EpochsPast, SlotEmptied, TypeOK, Call, Idle
<1> QED BY <1>1, <1>2, <1>3, <1>4, <1>5, <1>6, <1>7, <1>8, <1>9, <1>10, <1>11, <1>12

(* It gets the request mutex: no other thread is past the wait.            *)
LEMMA LockPreserves ==
  ASSUME WorkerInv, NEW t \in Thread, Lock(t)
  PROVE  WorkerInv'
<1> USE WorkerAssumption DEF WorkerInv, WorkerSafety, Lock, Goto, processes,
     gtk, Holding, Starting
<1>1. TypeOK'
  BY Moved DEF TypeOK
<1>2. AnswerIsOwn'
  BY DEF AnswerIsOwn, StreamIsOwn, TypeOK, Call
<1>3. RightModel'
  BY DEF RightModel, MineMatches, TypeOK, Call
<1>4. NoOrphan'
  BY DEF NoOrphan, SlotEmptied, VictimTaken, Locked, TypeOK, Call
<1>5. Locked'
  BY DEF Locked, TypeOK, Call
<1>6. SlotEmptied'
  BY DEF SlotEmptied, Locked, TypeOK, Call
<1>7. MineIsOwn'
  BY DEF MineIsOwn, Locked, SlotEmptied, TypeOK, Call
<1>8. VictimTaken'
  BY DEF VictimTaken, SlotEmptied, MineIsOwn, TypeOK, Call
<1>9. MineMatches'
  BY DEF MineMatches, Locked, SlotEmptied, MineIsOwn, TypeOK, Call
<1>10. StreamIsOwn'
  BY DEF StreamIsOwn, Locked, TypeOK, Call
<1>11. EpochsPast'
  BY DEF EpochsPast, TypeOK, Call
<1>12. CondemnedPast'
  BY DEF CondemnedPast, EpochsPast, SlotEmptied, TypeOK, Call
<1> QED BY <1>1, <1>2, <1>3, <1>4, <1>5, <1>6, <1>7, <1>8, <1>9, <1>10, <1>11, <1>12

(* A check or the socket fails.                                            *)
LEMMA FailPreserves ==
  ASSUME WorkerInv, NEW t \in Thread, Fail(t)
  PROVE  WorkerInv'
<1> USE WorkerAssumption DEF WorkerInv, WorkerSafety, Fail, gtk, Holding,
     Starting
<1>1. TypeOK'
  <2> DEFINE s == IF call[t].pc = "stale" THEN call[t].mine ELSE None
  <2>1. s \in Server \cup {None} /\ Kill(s)
    BY DEF TypeOK, Call
  <2> HIDE DEF s
  <2>2. live' \subseteq Server /\ model' \in [Server -> Model \cup {None}]
        /\ wire' \in [Server -> Seq(Nat)]
    BY <2>1, Killed DEF TypeOK
  <2>3. call' \in [Thread -> Call]
    BY Moved
  <2> QED BY <2>2, <2>3 DEF TypeOK
<1>2. AnswerIsOwn'
  BY DEF AnswerIsOwn, StreamIsOwn, TypeOK, Call, Kill
<1>3. RightModel'
  BY DEF RightModel, MineMatches, TypeOK, Call, Kill
<1>4. NoOrphan'
  BY DEF NoOrphan, SlotEmptied, VictimTaken, Locked, TypeOK, Call, Kill
<1>5. Locked'
  BY DEF Locked, TypeOK, Call, Kill
<1>6. SlotEmptied'
  BY DEF SlotEmptied, Locked, TypeOK, Call, Kill
<1>7. MineIsOwn'
  BY DEF MineIsOwn, Locked, SlotEmptied, TypeOK, Call, Kill
<1>8. VictimTaken'
  BY DEF VictimTaken, SlotEmptied, MineIsOwn, TypeOK, Call, Kill
<1>9. MineMatches'
  BY DEF MineMatches, Locked, SlotEmptied, MineIsOwn, TypeOK, Call, Kill
<1>10. StreamIsOwn'
  BY DEF StreamIsOwn, Locked, TypeOK, Call, Kill
<1>11. EpochsPast'
  BY DEF EpochsPast, TypeOK, Call, Kill
<1>12. CondemnedPast'
  BY DEF CondemnedPast, EpochsPast, SlotEmptied, TypeOK, Call, Kill
<1> QED BY <1>1, <1>2, <1>3, <1>4, <1>5, <1>6, <1>7, <1>8, <1>9, <1>10, <1>11, <1>12

(* It takes what is in the slot, to talk to it or to put it away.          *)
LEMMA ConnectionPreserves ==
  ASSUME WorkerInv, NEW t \in Thread, Connection(t)
  PROVE  WorkerInv'
<1> USE WorkerAssumption DEF WorkerInv, WorkerSafety, Connection, processes,
     gtk, Holding, Starting
<1>1. TypeOK /\ Locked /\ call[t].pc = "connection" /\ slot \in Server \cup {None}
  BY DEF TypeOK
<1>2. \A u \in Thread : call[u].pc \in Holding => u = t
  BY DEF Locked
<1> HIDE DEF Connection
<1>3. UNCHANGED <<request, epoch, live, model, wire, stopping, victim, calls, condemned>>
  BY DEF Connection
<1>4. CASE Reusable(t)
  <2>1. /\ call' = [call EXCEPT ![t].pc = "write", ![t].mine = slot]
        /\ slot' = slot /\ slot \in live /\ model[slot] = call[t].want
    BY <1>4 DEF Connection, Reusable
  <2>2. call' \in [Thread -> Call]
    BY <2>1, <1>1, Moved
  <2>3. /\ call'[t].pc = "write" /\ call'[t].mine = slot /\ call'[t].want = call[t].want
        /\ call'[t].epoch = call[t].epoch
        /\ \A u \in Thread : u # t => call'[u] = call[u]
    BY <2>1 DEF TypeOK, Call
  <2>4. TypeOK'
    BY <1>1, <1>3, <2>1, <2>2 DEF TypeOK
  <2>5. AnswerIsOwn'
    BY <1>1, <1>2, <1>3, <2>1, <2>2, <2>3 DEF AnswerIsOwn, TypeOK
  <2>6. RightModel'
    BY <1>1, <1>2, <1>3, <2>1, <2>2, <2>3 DEF RightModel, TypeOK
  <2>7. NoOrphan'
    BY <1>1, <1>2, <1>3, <2>1, <2>2, <2>3 DEF NoOrphan, TypeOK
  <2>8. Locked'
    BY <1>1, <1>2, <1>3, <2>1, <2>2, <2>3 DEF Locked, TypeOK
  <2>9. SlotEmptied'
    BY <1>1, <1>2, <1>3, <2>1, <2>2, <2>3 DEF SlotEmptied, TypeOK
  <2>10. MineIsOwn'
    BY <1>1, <1>2, <1>3, <2>1, <2>2, <2>3 DEF MineIsOwn, SlotEmptied, TypeOK
  <2>11. VictimTaken'
    BY <1>1, <1>2, <1>3, <2>1, <2>2, <2>3 DEF VictimTaken, TypeOK
  <2>12. MineMatches'
    BY <1>1, <1>2, <1>3, <2>1, <2>2, <2>3 DEF MineMatches, TypeOK
  <2>13. StreamIsOwn'
    BY <1>1, <1>2, <1>3, <2>1, <2>2, <2>3 DEF StreamIsOwn, TypeOK
  <2>14. EpochsPast'
    BY <1>1, <1>2, <1>3, <2>1, <2>2, <2>3 DEF EpochsPast, TypeOK
  <2>15. CondemnedPast'
    BY <1>1, <1>2, <1>3, <2>1, <2>2, <2>3 DEF CondemnedPast, TypeOK
  <2> QED BY <2>4, <2>5, <2>6, <2>7, <2>8, <2>9, <2>10, <2>11, <2>12, <2>13, <2>14, <2>15
<1>5. CASE ~Reusable(t)
  <2>1. /\ call' = [call EXCEPT ![t].pc = "stale", ![t].mine = slot]
        /\ slot' = None
    BY <1>5 DEF Connection
  <2>2. call' \in [Thread -> Call]
    BY <2>1, <1>1, Moved
  <2>3. /\ call'[t].pc = "stale" /\ call'[t].mine = slot
        /\ call'[t].epoch = call[t].epoch
        /\ \A u \in Thread : u # t => call'[u] = call[u]
    BY <2>1 DEF TypeOK, Call
  <2>4. TypeOK'
    BY <1>1, <1>3, <2>1, <2>2 DEF TypeOK
  <2>5. AnswerIsOwn'
    BY <1>1, <1>2, <1>3, <2>1, <2>2, <2>3 DEF AnswerIsOwn, TypeOK
  <2>6. RightModel'
    BY <1>1, <1>2, <1>3, <2>1, <2>2, <2>3 DEF RightModel, TypeOK
  <2>7. NoOrphan'
    BY <1>1, <1>2, <1>3, <2>1, <2>2, <2>3 DEF NoOrphan, TypeOK
  <2>8. Locked'
    BY <1>1, <1>2, <1>3, <2>1, <2>2, <2>3 DEF Locked, TypeOK
  <2>9. SlotEmptied'
    BY <1>1, <1>2, <1>3, <2>1, <2>2, <2>3 DEF SlotEmptied, TypeOK
  <2>10. MineIsOwn'
    BY <1>1, <1>2, <1>3, <2>1, <2>2, <2>3 DEF MineIsOwn, SlotEmptied, TypeOK
  <2>11. VictimTaken'
    BY <1>1, <1>2, <1>3, <2>1, <2>2, <2>3 DEF VictimTaken, TypeOK
  <2>12. MineMatches'
    BY <1>1, <1>2, <1>3, <2>1, <2>2, <2>3 DEF MineMatches, TypeOK
  <2>13. StreamIsOwn'
    BY <1>1, <1>2, <1>3, <2>1, <2>2, <2>3 DEF StreamIsOwn, TypeOK
  <2>14. EpochsPast'
    BY <1>1, <1>2, <1>3, <2>1, <2>2, <2>3 DEF EpochsPast, TypeOK
  <2>15. CondemnedPast'
    BY <1>1, <1>2, <1>3, <2>1, <2>2, <2>3 DEF CondemnedPast, TypeOK
  <2> QED BY <2>4, <2>5, <2>6, <2>7, <2>8, <2>9, <2>10, <2>11, <2>12, <2>13, <2>14, <2>15
<1> QED BY <1>4, <1>5

(* It puts away a worker of another model.                                 *)
LEMMA DropStalePreserves ==
  ASSUME WorkerInv, NEW t \in Thread, DropStale(t)
  PROVE  WorkerInv'
<1> USE WorkerAssumption DEF WorkerInv, WorkerSafety, DropStale, gtk, Holding,
     Starting
<1>1. TypeOK'
  <2>1. call[t].mine \in Server \cup {None} /\ Kill(call[t].mine)
    BY DEF TypeOK, Call
  <2>2. live' \subseteq Server /\ model' \in [Server -> Model \cup {None}]
        /\ wire' \in [Server -> Seq(Nat)]
    BY <2>1, Killed DEF TypeOK
  <2>3. call' \in [Thread -> Call]
    BY Moved
  <2> QED BY <2>2, <2>3 DEF TypeOK
<1>2. AnswerIsOwn'
  BY DEF AnswerIsOwn, StreamIsOwn, TypeOK, Call, Kill
<1>3. RightModel'
  BY DEF RightModel, MineMatches, TypeOK, Call, Kill
<1>4. NoOrphan'
  BY DEF NoOrphan, SlotEmptied, VictimTaken, Locked, TypeOK, Call, Kill
<1>5. Locked'
  BY DEF Locked, TypeOK, Call, Kill
<1>6. SlotEmptied'
  BY DEF SlotEmptied, Locked, TypeOK, Call, Kill
<1>7. MineIsOwn'
  BY DEF MineIsOwn, Locked, SlotEmptied, TypeOK, Call, Kill
<1>8. VictimTaken'
  BY DEF VictimTaken, SlotEmptied, MineIsOwn, TypeOK, Call, Kill
<1>9. MineMatches'
  BY DEF MineMatches, Locked, SlotEmptied, MineIsOwn, TypeOK, Call, Kill
<1>10. StreamIsOwn'
  BY DEF StreamIsOwn, Locked, TypeOK, Call, Kill
<1>11. EpochsPast'
  BY DEF EpochsPast, TypeOK, Call, Kill
<1>12. CondemnedPast'
  BY DEF CondemnedPast, EpochsPast, SlotEmptied, TypeOK, Call, Kill
<1> QED BY <1>1, <1>2, <1>3, <1>4, <1>5, <1>6, <1>7, <1>8, <1>9, <1>10, <1>11, <1>12

(* It starts a process whose id nobody holds.                              *)
LEMMA SpawnPreserves ==
  ASSUME WorkerInv, NEW t \in Thread, Spawn(t)
  PROVE  WorkerInv'
<1> USE WorkerAssumption DEF WorkerInv, WorkerSafety, Spawn, gtk, Holding,
     Starting
<1>1. PICK s \in Free :
        /\ live' = live \cup {s}
        /\ model' = [model EXCEPT ![s] = call[t].want]
        /\ wire' = [wire EXCEPT ![s] = <<>>]
        /\ condemned' = condemned \ {s}
        /\ call' = [call EXCEPT ![t].pc = "handshake", ![t].mine = s]
  OBVIOUS
<1>2. /\ s \in Server /\ s \notin live /\ s # slot /\ s # victim
      /\ \A u \in Thread : call[u].mine # s
  BY DEF Free
<1> HIDE DEF Spawn
<1>3. /\ call[t].pc = "spawn" /\ call[t].want \in Model \cup {None}
      /\ UNCHANGED <<slot, request, epoch, gtk, calls>>
  BY DEF Spawn, TypeOK, Call
<1>4. TypeOK'
  <2>1. call' \in [Thread -> Call]
    BY <1>1, <1>2, Moved
  <2>2. model' \in [Server -> Model \cup {None}] /\ wire' \in [Server -> Seq(Nat)]
    BY <1>1, <1>2, <1>3 DEF TypeOK
  <2> QED BY <1>1, <1>2, <1>3, <2>1, <2>2 DEF TypeOK
<1>5. /\ call'[t].pc = "handshake" /\ call'[t].mine = s /\ call'[t].want = call[t].want
      /\ call'[t].epoch = call[t].epoch
      /\ \A u \in Thread : u # t => call'[u] = call[u]
  BY <1>1 DEF TypeOK, Call
<1>6. AnswerIsOwn'
  BY <1>1, <1>2, <1>3, <1>5 DEF AnswerIsOwn, StreamIsOwn, TypeOK
<1>7. RightModel'
  BY <1>1, <1>2, <1>3, <1>5 DEF RightModel, MineMatches, TypeOK
<1>8. NoOrphan'
  BY <1>1, <1>2, <1>3, <1>5 DEF NoOrphan, SlotEmptied, VictimTaken, Locked, TypeOK
<1>9. Locked'
  BY <1>1, <1>2, <1>3, <1>5 DEF Locked, TypeOK
<1>10. SlotEmptied'
  BY <1>1, <1>2, <1>3, <1>5 DEF SlotEmptied, Locked, TypeOK
<1>11. MineIsOwn'
  BY <1>1, <1>2, <1>3, <1>5 DEF MineIsOwn, Locked, SlotEmptied, TypeOK
<1>12. VictimTaken'
  BY <1>1, <1>2, <1>3, <1>5 DEF VictimTaken, SlotEmptied, MineIsOwn, TypeOK
<1>13. MineMatches'
  BY <1>1, <1>2, <1>3, <1>5 DEF MineMatches, Locked, SlotEmptied, MineIsOwn, TypeOK
<1>14. StreamIsOwn'
  BY <1>1, <1>2, <1>3, <1>5 DEF StreamIsOwn, Locked, TypeOK
<1>15. EpochsPast'
  BY <1>1, <1>2, <1>3, <1>5 DEF EpochsPast, TypeOK
<1>16. CondemnedPast'
  BY <1>1, <1>2, <1>3, <1>5 DEF CondemnedPast, EpochsPast, SlotEmptied, TypeOK
<1> QED BY <1>4, <1>6, <1>7, <1>8, <1>9, <1>10, <1>11, <1>12, <1>13, <1>14, <1>15, <1>16

(* It gives the start up and kills its process.                            *)
LEMMA AbandonPreserves ==
  ASSUME WorkerInv, NEW t \in Thread, Abandon(t)
  PROVE  WorkerInv'
<1> USE WorkerAssumption DEF WorkerInv, WorkerSafety, Abandon, gtk, Holding,
     Starting
<1>1. TypeOK'
  <2>1. call[t].mine \in Server \cup {None} /\ Kill(call[t].mine)
    BY DEF TypeOK, Call
  <2>2. live' \subseteq Server /\ model' \in [Server -> Model \cup {None}]
        /\ wire' \in [Server -> Seq(Nat)]
    BY <2>1, Killed DEF TypeOK
  <2>3. call' \in [Thread -> Call]
    BY Moved
  <2> QED BY <2>2, <2>3 DEF TypeOK
<1>2. AnswerIsOwn'
  BY DEF AnswerIsOwn, StreamIsOwn, TypeOK, Call, Kill
<1>3. RightModel'
  BY DEF RightModel, MineMatches, TypeOK, Call, Kill
<1>4. NoOrphan'
  BY DEF NoOrphan, SlotEmptied, VictimTaken, Locked, TypeOK, Call, Kill
<1>5. Locked'
  BY DEF Locked, TypeOK, Call, Kill
<1>6. SlotEmptied'
  BY DEF SlotEmptied, Locked, TypeOK, Call, Kill
<1>7. MineIsOwn'
  BY DEF MineIsOwn, Locked, SlotEmptied, TypeOK, Call, Kill
<1>8. VictimTaken'
  BY DEF VictimTaken, SlotEmptied, MineIsOwn, TypeOK, Call, Kill
<1>9. MineMatches'
  BY DEF MineMatches, Locked, SlotEmptied, MineIsOwn, TypeOK, Call, Kill
<1>10. StreamIsOwn'
  BY DEF StreamIsOwn, Locked, TypeOK, Call, Kill
<1>11. EpochsPast'
  BY DEF EpochsPast, TypeOK, Call, Kill
<1>12. CondemnedPast'
  BY DEF CondemnedPast, EpochsPast, SlotEmptied, TypeOK, Call, Kill
<1> QED BY <1>1, <1>2, <1>3, <1>4, <1>5, <1>6, <1>7, <1>8, <1>9, <1>10, <1>11, <1>12

(* The process is ready.                                                   *)
LEMMA HandshakePreserves ==
  ASSUME WorkerInv, NEW t \in Thread, Handshake(t)
  PROVE  WorkerInv'
<1> USE WorkerAssumption DEF WorkerInv, WorkerSafety, Handshake, Goto,
     processes, gtk, Holding, Starting
<1>1. TypeOK'
  BY Moved DEF TypeOK
<1>2. AnswerIsOwn'
  BY DEF AnswerIsOwn, StreamIsOwn, TypeOK, Call
<1>3. RightModel'
  BY DEF RightModel, MineMatches, TypeOK, Call
<1>4. NoOrphan'
  BY DEF NoOrphan, SlotEmptied, VictimTaken, Locked, TypeOK, Call
<1>5. Locked'
  BY DEF Locked, TypeOK, Call
<1>6. SlotEmptied'
  BY DEF SlotEmptied, Locked, TypeOK, Call
<1>7. MineIsOwn'
  BY DEF MineIsOwn, Locked, SlotEmptied, TypeOK, Call
<1>8. VictimTaken'
  BY DEF VictimTaken, SlotEmptied, MineIsOwn, TypeOK, Call
<1>9. MineMatches'
  BY DEF MineMatches, Locked, SlotEmptied, MineIsOwn, TypeOK, Call
<1>10. StreamIsOwn'
  BY DEF StreamIsOwn, Locked, TypeOK, Call
<1>11. EpochsPast'
  BY DEF EpochsPast, TypeOK, Call
<1>12. CondemnedPast'
  BY DEF CondemnedPast, EpochsPast, SlotEmptied, TypeOK, Call
<1> QED BY <1>1, <1>2, <1>3, <1>4, <1>5, <1>6, <1>7, <1>8, <1>9, <1>10, <1>11, <1>12

(* It fills the empty slot.                                                *)
LEMMA PublishPreserves ==
  ASSUME WorkerInv, NEW t \in Thread, Publish(t)
  PROVE  WorkerInv'
<1> USE WorkerAssumption DEF WorkerInv, WorkerSafety, Publish, Goto, processes,
     gtk, Holding, Starting
<1>1. TypeOK'
  <2>1. call' \in [Thread -> Call] /\ slot' \in Server \cup {None}
    BY Moved DEF TypeOK, Call
  <2> QED BY <2>1 DEF TypeOK
<1>2. AnswerIsOwn'
  BY DEF AnswerIsOwn, StreamIsOwn, TypeOK, Call
<1>3. RightModel'
  BY DEF RightModel, MineMatches, TypeOK, Call
<1>4. NoOrphan'
  <2>1. \A u \in Thread : call[u].pc \in {"stale", "handshake", "publish"} => u = t
    BY DEF Locked
  <2>2. slot = None
    BY DEF SlotEmptied
  <2>3. SUFFICES ASSUME NEW s \in live PROVE s \in {slot', victim}
    BY DEF NoOrphan
  <2>4. s # None
    BY DEF TypeOK
  <2> QED BY <2>1, <2>2, <2>4 DEF NoOrphan
<1>5. Locked'
  BY DEF Locked, TypeOK, Call
<1>6. SlotEmptied'
  BY DEF SlotEmptied, Locked, TypeOK, Call
<1>7. MineIsOwn'
  BY DEF MineIsOwn, Locked, SlotEmptied, TypeOK, Call
<1>8. VictimTaken'
  BY DEF VictimTaken, SlotEmptied, MineIsOwn, TypeOK, Call
<1>9. MineMatches'
  BY DEF MineMatches, Locked, SlotEmptied, MineIsOwn, TypeOK, Call
<1>10. StreamIsOwn'
  BY DEF StreamIsOwn, Locked, TypeOK, Call
<1>11. EpochsPast'
  BY DEF EpochsPast, TypeOK, Call
<1>12. CondemnedPast'
  BY DEF CondemnedPast, Current, TypeOK, Call
<1> QED BY <1>1, <1>2, <1>3, <1>4, <1>5, <1>6, <1>7, <1>8, <1>9, <1>10, <1>11, <1>12

(* It writes its call into an empty stream.                                *)
LEMMA WritePreserves ==
  ASSUME WorkerInv, NEW t \in Thread, Write(t)
  PROVE  WorkerInv'
<1> USE WorkerAssumption DEF WorkerInv, WorkerSafety, Write, Goto, gtk,
     Holding, Starting
<1>1. TypeOK'
  <2>1. call' \in [Thread -> Call] /\ call[t].id \in Nat
    BY Moved DEF TypeOK, Call
  <2>2. wire' \in [Server -> Seq(Nat)]
    BY <2>1 DEF TypeOK, MineIsOwn
  <2> QED BY <2>1, <2>2 DEF TypeOK
<1>2. AnswerIsOwn'
  BY DEF AnswerIsOwn, StreamIsOwn, TypeOK, Call
<1>3. RightModel'
  BY DEF RightModel, MineMatches, TypeOK, Call
<1>4. NoOrphan'
  BY DEF NoOrphan, SlotEmptied, VictimTaken, Locked, TypeOK, Call
<1>5. Locked'
  BY DEF Locked, TypeOK, Call
<1>6. SlotEmptied'
  BY DEF SlotEmptied, Locked, TypeOK, Call
<1>7. MineIsOwn'
  BY DEF MineIsOwn, Locked, SlotEmptied, TypeOK, Call
<1>8. VictimTaken'
  BY DEF VictimTaken, SlotEmptied, MineIsOwn, TypeOK, Call
<1>9. MineMatches'
  BY DEF MineMatches, Locked, SlotEmptied, MineIsOwn, TypeOK, Call
<1>10. StreamIsOwn'
  <2>1. \A u \in Thread : call[u].pc \in Holding => u = t
    BY DEF Locked
  <2>2. call'[t].pc = "read" /\ \A u \in Thread : u # t => call'[u] = call[u]
    BY DEF TypeOK, Call
  <2>3. call'[t].mine = call[t].mine /\ call'[t].id = call[t].id
    BY DEF TypeOK, Call
  <2>4. ASSUME call[t].mine \in live PROVE wire'[call[t].mine] = <<call[t].id>>
    <3>1. wire[call[t].mine] = <<>> /\ call[t].mine \in Server
      BY <2>4 DEF StreamIsOwn, TypeOK
    <3>2. wire'[call[t].mine] = Append(<<>>, call[t].id)
      BY <3>1 DEF TypeOK
    <3> QED BY <3>2
  <2> QED BY <2>1, <2>2, <2>3, <2>4 DEF StreamIsOwn
<1>11. EpochsPast'
  BY DEF EpochsPast, TypeOK, Call
<1>12. CondemnedPast'
  BY DEF CondemnedPast, EpochsPast, SlotEmptied, TypeOK, Call
<1> QED BY <1>1, <1>2, <1>3, <1>4, <1>5, <1>6, <1>7, <1>8, <1>9, <1>10, <1>11, <1>12

(* It reads the one answer there is, its own.                              *)
LEMMA ReadPreserves ==
  ASSUME WorkerInv, NEW t \in Thread, Read(t)
  PROVE  WorkerInv'
<1> USE WorkerAssumption DEF WorkerInv, WorkerSafety, Read, gtk, Holding,
     Starting
<1>0. /\ call[t].mine \in Server /\ call[t].mine \in live /\ call[t].id \in Nat
      /\ wire[call[t].mine] = <<call[t].id>>
  BY DEF TypeOK, Call, MineIsOwn, StreamIsOwn
<1>1. TypeOK'
  <2>1. Head(wire[call[t].mine]) \in Nat /\ Tail(wire[call[t].mine]) \in Seq(Nat)
    BY <1>0
  <2>2. call[t] \in Call
    BY DEF TypeOK
  <2>3. [call[t] EXCEPT !.pc = "done", !.answer = Head(wire[call[t].mine])] \in Call
    BY <2>1, <2>2 DEF Call
  <2>4. call' = [call EXCEPT ![t] =
                   [call[t] EXCEPT !.pc = "done", !.answer = Head(wire[call[t].mine])]]
    BY <2>2 DEF TypeOK
  <2> QED BY <2>1, <2>3, <2>4 DEF TypeOK
<1>2. AnswerIsOwn'
  BY DEF AnswerIsOwn, StreamIsOwn, TypeOK, Call
<1>3. RightModel'
  BY DEF RightModel, MineMatches, TypeOK, Call
<1>4. NoOrphan'
  BY DEF NoOrphan, SlotEmptied, VictimTaken, Locked, TypeOK, Call
<1>5. Locked'
  BY DEF Locked, TypeOK, Call
<1>6. SlotEmptied'
  BY DEF SlotEmptied, Locked, TypeOK, Call
<1>7. MineIsOwn'
  BY DEF MineIsOwn, Locked, SlotEmptied, TypeOK, Call
<1>8. VictimTaken'
  BY DEF VictimTaken, SlotEmptied, MineIsOwn, TypeOK, Call
<1>9. MineMatches'
  BY DEF MineMatches, Locked, SlotEmptied, MineIsOwn, TypeOK, Call
<1>10. StreamIsOwn'
  <2>1. \A u \in Thread : call[u].pc \in Holding => u = t
    BY DEF Locked
  <2>2. call'[t].pc = "done" /\ \A u \in Thread : u # t => call'[u] = call[u]
    BY DEF TypeOK, Call
  <2>3. wire'[call[t].mine] = <<>>
    BY <1>0 DEF TypeOK
  <2>4. slot \in live => slot = call[t].mine
    BY WorkerAssumption DEF MineIsOwn, TypeOK
  <2> QED BY <2>1, <2>2, <2>3, <2>4 DEF StreamIsOwn
<1>11. EpochsPast'
  BY DEF EpochsPast, TypeOK, Call
<1>12. CondemnedPast'
  BY DEF CondemnedPast, EpochsPast, SlotEmptied, TypeOK, Call
<1> QED BY <1>1, <1>2, <1>3, <1>4, <1>5, <1>6, <1>7, <1>8, <1>9, <1>10, <1>11, <1>12

(* It returns.                                                             *)
LEMMA ReturnPreserves ==
  ASSUME WorkerInv, NEW t \in Thread, Return(t)
  PROVE  WorkerInv'
<1> USE WorkerAssumption DEF WorkerInv, WorkerSafety, Return, processes, gtk,
     Holding, Starting
<1>1. TypeOK'
  BY IdleIsCall DEF TypeOK
<1>2. AnswerIsOwn'
  BY DEF AnswerIsOwn, StreamIsOwn, TypeOK, Call, Idle
<1>3. RightModel'
  BY DEF RightModel, MineMatches, TypeOK, Call, Idle
<1>4. NoOrphan'
  BY DEF NoOrphan, SlotEmptied, VictimTaken, Locked, TypeOK, Call, Idle
<1>5. Locked'
  BY DEF Locked, TypeOK, Call, Idle
<1>6. SlotEmptied'
  BY DEF SlotEmptied, Locked, TypeOK, Call, Idle
<1>7. MineIsOwn'
  BY DEF MineIsOwn, Locked, SlotEmptied, TypeOK, Call, Idle
<1>8. VictimTaken'
  BY DEF VictimTaken, SlotEmptied, MineIsOwn, TypeOK, Call, Idle
<1>9. MineMatches'
  BY DEF MineMatches, Locked, SlotEmptied, MineIsOwn, TypeOK, Call, Idle
<1>10. StreamIsOwn'
  BY DEF StreamIsOwn, Locked, TypeOK, Call, Idle
<1>11. EpochsPast'
  BY DEF EpochsPast, TypeOK, Call, Idle
<1>12. CondemnedPast'
  BY DEF CondemnedPast, EpochsPast, SlotEmptied, TypeOK, Call, Idle
<1> QED BY <1>1, <1>2, <1>3, <1>4, <1>5, <1>6, <1>7, <1>8, <1>9, <1>10, <1>11, <1>12

(* After a failure it kills what is in the slot.                           *)
LEMMA CleanupPreserves ==
  ASSUME WorkerInv, NEW t \in Thread, Cleanup(t)
  PROVE  WorkerInv'
<1> USE WorkerAssumption DEF WorkerInv, WorkerSafety, Cleanup, gtk, Holding,
     Starting
<1>1. TypeOK'
  BY DEF TypeOK, Call, Kill, Idle
<1>2. AnswerIsOwn'
  BY DEF AnswerIsOwn, StreamIsOwn, TypeOK, Call, Kill, Idle
<1>3. RightModel'
  BY DEF RightModel, MineMatches, TypeOK, Call, Kill, Idle
<1>4. NoOrphan'
  BY DEF NoOrphan, SlotEmptied, VictimTaken, Locked, TypeOK, Call, Kill, Idle
<1>5. Locked'
  BY DEF Locked, TypeOK, Call, Kill, Idle
<1>6. SlotEmptied'
  BY DEF SlotEmptied, Locked, TypeOK, Call, Kill, Idle
<1>7. MineIsOwn'
  BY DEF MineIsOwn, Locked, SlotEmptied, TypeOK, Call, Kill, Idle
<1>8. VictimTaken'
  BY DEF VictimTaken, SlotEmptied, MineIsOwn, TypeOK, Call, Kill, Idle
<1>9. MineMatches'
  BY DEF MineMatches, Locked, SlotEmptied, MineIsOwn, TypeOK, Call, Kill, Idle
<1>10. StreamIsOwn'
  BY DEF StreamIsOwn, Locked, TypeOK, Call, Kill, Idle
<1>11. EpochsPast'
  BY DEF EpochsPast, TypeOK, Call, Kill, Idle
<1>12. CondemnedPast'
  BY DEF CondemnedPast, TypeOK, Call, Idle
<1> HIDE DEF Cleanup, Holding, Starting, processes, gtk, Goto
<1>13. QED BY <1>1, <1>2, <1>3, <1>4, <1>5, <1>6, <1>7, <1>8, <1>9, <1>10, <1>11, <1>12

(* A shutdown makes every call's epoch an old one.                         *)
LEMMA ShutdownBumpPreserves ==
  ASSUME WorkerInv, ShutdownBump
  PROVE  WorkerInv'
<1> USE WorkerAssumption DEF WorkerInv, WorkerSafety, ShutdownBump, processes,
     Holding, Starting
<1>1. TypeOK'
  BY DEF TypeOK, Call
<1>2. AnswerIsOwn'
  BY DEF AnswerIsOwn, StreamIsOwn, TypeOK, Call
<1>3. RightModel'
  BY DEF RightModel, MineMatches, TypeOK, Call
<1>4. NoOrphan'
  BY DEF NoOrphan, SlotEmptied, VictimTaken, Locked, TypeOK, Call
<1>5. Locked'
  BY DEF Locked, TypeOK, Call
<1>6. SlotEmptied'
  BY DEF SlotEmptied, Locked, TypeOK, Call
<1>7. MineIsOwn'
  BY DEF MineIsOwn, Locked, SlotEmptied, TypeOK, Call
<1>8. VictimTaken'
  BY DEF VictimTaken, SlotEmptied, MineIsOwn, TypeOK, Call
<1>9. MineMatches'
  BY DEF MineMatches, Locked, SlotEmptied, MineIsOwn, TypeOK, Call
<1>10. StreamIsOwn'
  BY DEF StreamIsOwn, Locked, TypeOK, Call
<1>11. EpochsPast'
  BY DEF EpochsPast, TypeOK, Call
<1>12. CondemnedPast'
  BY DEF CondemnedPast, EpochsPast, SlotEmptied, TypeOK, Call
<1> QED BY <1>1, <1>2, <1>3, <1>4, <1>5, <1>6, <1>7, <1>8, <1>9, <1>10, <1>11, <1>12

(* It takes what is in the slot.                                           *)
LEMMA ShutdownTakePreserves ==
  ASSUME WorkerInv, ShutdownTake
  PROVE  WorkerInv'
<1> USE WorkerAssumption DEF WorkerInv, WorkerSafety, ShutdownTake, processes,
     Holding, Starting
<1>1. TypeOK'
  BY DEF TypeOK, Call
<1>2. AnswerIsOwn'
  BY DEF AnswerIsOwn, StreamIsOwn, TypeOK, Call
<1>3. RightModel'
  BY DEF RightModel, MineMatches, TypeOK, Call
<1>4. NoOrphan'
  BY DEF NoOrphan, SlotEmptied, VictimTaken, Locked, TypeOK, Call
<1>5. Locked'
  BY DEF Locked, TypeOK, Call
<1>6. SlotEmptied'
  BY DEF SlotEmptied, Locked, TypeOK, Call
<1>7. MineIsOwn'
  BY DEF MineIsOwn, Locked, SlotEmptied, TypeOK, Call
<1>8. VictimTaken'
  BY DEF VictimTaken, SlotEmptied, MineIsOwn, TypeOK, Call
<1>9. MineMatches'
  BY DEF MineMatches, Locked, SlotEmptied, MineIsOwn, TypeOK, Call
<1>10. StreamIsOwn'
  BY DEF StreamIsOwn, Locked, TypeOK, Call
<1>11. EpochsPast'
  BY DEF EpochsPast, TypeOK, Call
<1>12. CondemnedPast'
  BY DEF CondemnedPast, EpochsPast, SlotEmptied, TypeOK, Call
<1> QED BY <1>1, <1>2, <1>3, <1>4, <1>5, <1>6, <1>7, <1>8, <1>9, <1>10, <1>11, <1>12

(* It kills what it took.                                                  *)
LEMMA ShutdownDropPreserves ==
  ASSUME WorkerInv, ShutdownDrop
  PROVE  WorkerInv'
<1> USE WorkerAssumption DEF WorkerInv, WorkerSafety, ShutdownDrop, Holding,
     Starting
<1>1. TypeOK'
  BY DEF TypeOK, Call, Kill
<1>2. AnswerIsOwn'
  BY DEF AnswerIsOwn, StreamIsOwn, TypeOK, Call, Kill
<1>3. RightModel'
  BY DEF RightModel, MineMatches, TypeOK, Call, Kill
<1>4. NoOrphan'
  BY DEF NoOrphan, SlotEmptied, VictimTaken, Locked, TypeOK, Call, Kill
<1>5. Locked'
  BY DEF Locked, TypeOK, Call, Kill
<1>6. SlotEmptied'
  BY DEF SlotEmptied, Locked, TypeOK, Call, Kill
<1>7. MineIsOwn'
  BY DEF MineIsOwn, Locked, SlotEmptied, TypeOK, Call, Kill
<1>8. VictimTaken'
  BY DEF VictimTaken, SlotEmptied, MineIsOwn, TypeOK, Call, Kill
<1>9. MineMatches'
  BY DEF MineMatches, Locked, SlotEmptied, MineIsOwn, TypeOK, Call, Kill
<1>10. StreamIsOwn'
  BY DEF StreamIsOwn, Locked, TypeOK, Call, Kill
<1>11. EpochsPast'
  BY DEF EpochsPast, TypeOK, Call, Kill
<1>12. CondemnedPast'
  BY DEF CondemnedPast, EpochsPast, SlotEmptied, TypeOK, Call, Kill
<1> QED BY <1>1, <1>2, <1>3, <1>4, <1>5, <1>6, <1>7, <1>8, <1>9, <1>10, <1>11, <1>12

(* A process dies by itself.                                               *)
LEMMA WorkerDiesPreserves ==
  ASSUME WorkerInv, WorkerDies
  PROVE  WorkerInv'
<1> USE WorkerAssumption DEF WorkerInv, WorkerSafety, WorkerDies, gtk, Holding,
     Starting
<1>1. TypeOK'
  BY DEF TypeOK, Call, Kill
<1>2. AnswerIsOwn'
  BY DEF AnswerIsOwn, StreamIsOwn, TypeOK, Call, Kill
<1>3. RightModel'
  BY DEF RightModel, MineMatches, TypeOK, Call, Kill
<1>4. NoOrphan'
  BY DEF NoOrphan, SlotEmptied, VictimTaken, Locked, TypeOK, Call, Kill
<1>5. Locked'
  BY DEF Locked, TypeOK, Call, Kill
<1>6. SlotEmptied'
  BY DEF SlotEmptied, Locked, TypeOK, Call, Kill
<1>7. MineIsOwn'
  BY DEF MineIsOwn, Locked, SlotEmptied, TypeOK, Call, Kill
<1>8. VictimTaken'
  BY DEF VictimTaken, SlotEmptied, MineIsOwn, TypeOK, Call, Kill
<1>9. MineMatches'
  BY DEF MineMatches, Locked, SlotEmptied, MineIsOwn, TypeOK, Call, Kill
<1>10. StreamIsOwn'
  BY DEF StreamIsOwn, Locked, TypeOK, Call, Kill
<1>11. EpochsPast'
  BY DEF EpochsPast, TypeOK, Call, Kill
<1>12. CondemnedPast'
  BY DEF CondemnedPast, EpochsPast, SlotEmptied, TypeOK, Call, Kill
<1> QED BY <1>1, <1>2, <1>3, <1>4, <1>5, <1>6, <1>7, <1>8, <1>9, <1>10, <1>11, <1>12

(* No thread has called and no worker runs.                                *)
LEMMA InitHolds == Init => WorkerInv
<1> SUFFICES ASSUME Init PROVE WorkerInv
  OBVIOUS
<1>1. TypeOK
  BY IdleIsCall DEF Init, TypeOK
<1>2. \A t \in Thread : call[t].pc = "idle" /\ call[t].epoch = 0
  BY DEF Init, Idle
<1>3. AnswerIsOwn /\ RightModel /\ NoOrphan /\ MineMatches /\ StreamIsOwn
  BY <1>2, WorkerAssumption DEF Init, AnswerIsOwn, RightModel, NoOrphan, MineMatches,
     StreamIsOwn, Starting
<1>4. Locked /\ SlotEmptied /\ MineIsOwn /\ VictimTaken /\ EpochsPast /\ CondemnedPast
  BY <1>2 DEF Init, Locked, SlotEmptied, MineIsOwn, VictimTaken, EpochsPast,
     CondemnedPast, Holding, Starting
<1> QED BY <1>1, <1>3, <1>4 DEF WorkerInv, WorkerSafety

(* A step that changes nothing.                                            *)
LEMMA StutterPreserves ==
  ASSUME WorkerInv, UNCHANGED vars
  PROVE  WorkerInv'
BY DEF WorkerInv, WorkerSafety, vars, processes, gtk, TypeOK, AnswerIsOwn, RightModel,
   NoOrphan, Locked, SlotEmptied, MineIsOwn, VictimTaken, MineMatches, StreamIsOwn,
   EpochsPast, CondemnedPast

(* So every step preserves the invariant.                                  *)
LEMMA StepPreserves ==
  ASSUME WorkerInv, [Next]_vars
  PROVE  WorkerInv'
<1>1. ASSUME NEW t \in Thread, Work(t)
      PROVE  WorkerInv'
  BY <1>1, GiveUpPreserves, LockPreserves, FailPreserves, ConnectionPreserves,
     DropStalePreserves, SpawnPreserves, AbandonPreserves, HandshakePreserves,
     PublishPreserves, WritePreserves, ReadPreserves, ReturnPreserves, CleanupPreserves
     DEF Work
<1>2. ASSUME NEW t \in Thread, NEW m \in Model, Transcribe(t, m)
      PROVE  WorkerInv'
  BY <1>2, TranscribePreserves
<1>3. CASE ShutdownBump \/ Shutdown \/ WorkerDies
  BY <1>3, ShutdownBumpPreserves, ShutdownTakePreserves, ShutdownDropPreserves,
     WorkerDiesPreserves DEF Shutdown
<1>4. CASE UNCHANGED vars
  BY <1>4, StutterPreserves
<1> QED BY <1>1, <1>2, <1>3, <1>4 DEF Next

(* And every reachable state has it.                                       *)
LEMMA WorkerInvAlways == Spec => []WorkerInv
BY InitHolds, StepPreserves, PTL DEF Spec

(* Each caller gets its own answer from its own model, and every process   *)
(* has someone who will end it: for any number of callers, whatever is     *)
(* cancelled, fails, dies or is shut down between the steps.               *)
THEOREM WorkerSafetyAlways == Spec => []WorkerSafety
BY WorkerInvAlways, PTL DEF WorkerInv

-----------------------------------------------------------------------------
(* The refinement of the warm slot.                                        *)

StartingAt(s) == \E t \in Thread : s = call[t].mine /\ call[t].pc \in Starting

(* What a process is for the slot, by what the worker knows of it.         *)
LEMMA Roles ==
  ASSUME NEW s \in Server
  PROVE  /\ s \notin live => RoleOf(s) = "none"
         /\ s \in live /\ s = slot => RoleOf(s) = "warm"
         /\ s \in live /\ s # slot /\ StartingAt(s) => RoleOf(s) = "starting"
         /\ s \in live /\ s # slot /\ ~StartingAt(s) => RoleOf(s) = "leaving"
<1>1. StartingAt(s) <=> \E t \in Thread : s = call[t].mine /\ call[t].pc \in {"handshake", "publish"}
  BY DEF StartingAt, Starting
<1> QED BY <1>1 DEF RoleOf

(* The same after a step.                                                  *)
LEMMA RolesNext ==
  ASSUME NEW s \in Server
  PROVE  /\ s \notin live' => RoleOf(s)' = "none"
         /\ s \in live' /\ s = slot' => RoleOf(s)' = "warm"
         /\ s \in live' /\ s # slot' /\ StartingAt(s)' => RoleOf(s)' = "starting"
         /\ s \in live' /\ s # slot' /\ ~StartingAt(s)' => RoleOf(s)' = "leaving"
<1>1. StartingAt(s)' <=>
        \E t \in Thread : s = call'[t].mine /\ call'[t].pc \in {"handshake", "publish"}
  BY DEF StartingAt, Starting
<1> QED BY <1>1 DEF RoleOf

(* A step that moves no process is a stutter of the slot.                  *)
LEMMA NoRoleMoves ==
  ASSUME \A s \in Server : RoleOf(s)' = RoleOf(s), UNCHANGED condemned,
         (stopping # "no")' = (stopping # "no")
  PROVE  UNCHANGED Slot!vars
BY DEF Slot!vars

(* A step that moves one process and nothing else.                         *)
LEMMA OneRoleMoves ==
  ASSUME NEW s \in Server, NEW r, RoleOf(s)' = r,
         \A x \in Server : x # s => RoleOf(x)' = RoleOf(x)
  PROVE  [x \in Server |-> RoleOf(x)]' = [[x \in Server |-> RoleOf(x)] EXCEPT ![s] = r]
OBVIOUS

(* The processes that are not killed keep their role when the slot and     *)
(* the threads that start a process stay.                                  *)
LEMMA OthersStay ==
  ASSUME NEW x \in Server, x \in live' <=> x \in live, x = slot' <=> x = slot,
         StartingAt(x)' <=> StartingAt(x)
  PROVE  RoleOf(x)' = RoleOf(x)
BY Roles, RolesNext

(* Steps of a thread that leave every process where it is.                 *)
LEMMA QuietSteps ==
  ASSUME WorkerInv, NEW t \in Thread,
         \/ GiveUp(t) \/ Lock(t) \/ Handshake(t) \/ Write(t) \/ Read(t) \/ Return(t)
         \/ \E m \in Model : Transcribe(t, m)
  PROVE  UNCHANGED Slot!vars
<1>1. /\ UNCHANGED <<live, slot, condemned, stopping>>
      /\ \A u \in Thread : u # t => call'[u] = call[u]
      /\ \/ call[t].pc \notin Starting /\ call'[t].pc \notin Starting
         \/ /\ call[t].pc \in Starting /\ call'[t].pc \in Starting
            /\ call'[t].mine = call[t].mine
  <2> USE DEF WorkerInv, WorkerSafety, TypeOK, Call, Goto, Starting, processes, gtk
  <2>1. CASE GiveUp(t) \/ Return(t)
    BY <2>1 DEF GiveUp, Return, Idle
  <2>2. CASE Lock(t) \/ Handshake(t) \/ Write(t)
    BY <2>2 DEF Lock, Handshake, Write
  <2>3. CASE Read(t)
    BY <2>3 DEF Read
  <2>4. CASE \E m \in Model : Transcribe(t, m)
    BY <2>4 DEF Transcribe, Idle
  <2> QED BY <2>1, <2>2, <2>3, <2>4
<1>2. \A s \in Server : StartingAt(s)' <=> StartingAt(s)
  BY <1>1 DEF StartingAt
<1> QED BY <1>1, <1>2, OthersStay, NoRoleMoves

(* A process that is killed or dies by itself ends.                        *)
LEMMA Ends ==
  ASSUME TypeOK, NEW s \in live, live' = live \ {s}, UNCHANGED <<condemned, stopping>>,
         \A x \in live' : (x = slot' <=> x = slot) /\ (StartingAt(x)' <=> StartingAt(x))
  PROVE  Slot!Next
<1>1. s \in Server /\ RoleOf(s)' = "none" /\ RoleOf(s) # "none"
  BY Roles, RolesNext DEF TypeOK
<1>2. ASSUME NEW x \in Server, x # s
      PROVE  RoleOf(x)' = RoleOf(x)
  <2>1. CASE x \in live
    BY <1>2, <2>1, OthersStay
  <2>2. CASE x \notin live
    BY <2>2, <1>2, Roles, RolesNext
  <2> QED BY <2>1, <2>2
<1>3. [x \in Server |-> RoleOf(x)]' = [[x \in Server |-> RoleOf(x)] EXCEPT ![s] = "none"]
  BY <1>1, <1>2, OneRoleMoves
<1>4. Slot!End(s)
  BY <1>1, <1>3 DEF Slot!End
<1> QED BY <1>1, <1>4 DEF Slot!Next

(* A kill is the end of a process that lives, and nothing otherwise.       *)
LEMMA KillEnds ==
  ASSUME TypeOK, NEW s \in Server \cup {None}, Kill(s), UNCHANGED <<condemned, stopping>>,
         \A x \in live' : (x = slot' <=> x = slot) /\ (StartingAt(x)' <=> StartingAt(x))
  PROVE  Slot!Next \/ UNCHANGED Slot!vars
<1>1. CASE s \in live
  BY <1>1, Ends DEF Kill
<1>2. CASE s \notin live
  <2>1. live' = live
    BY <1>2 DEF Kill
  <2>2. \A x \in Server : RoleOf(x)' = RoleOf(x)
    BY <2>1, OthersStay, Roles, RolesNext
  <2> QED BY <2>2, NoRoleMoves
<1> QED BY <1>1, <1>2

(* Only the holder of the mutex starts a process.                          *)
LEMMA OneStarts ==
  ASSUME WorkerInv, NEW t \in Thread, call[t].pc \in Holding
  PROVE  \A s : StartingAt(s) <=> s = call[t].mine /\ call[t].pc \in Starting
<1>1. \A u \in Thread : call[u].pc \in Starting => u = t
  BY DEF WorkerInv, Locked, Holding, Starting
<1> QED BY <1>1 DEF StartingAt

(* After its step too, when no other thread moved.                         *)
LEMMA OneStartsNext ==
  ASSUME WorkerInv, NEW t \in Thread, call[t].pc \in Holding,
         \A u \in Thread : u # t => call'[u] = call[u]
  PROVE  \A s : StartingAt(s)' <=> s = call'[t].mine /\ call'[t].pc \in Starting
<1>1. \A u \in Thread : call[u].pc \in Starting => u = t
  BY DEF WorkerInv, Locked, Holding, Starting
<1> QED BY <1>1 DEF StartingAt

(* The failures and what they kill.                                        *)
LEMMA FailEnds ==
  ASSUME WorkerInv, NEW t \in Thread, Fail(t)
  PROVE  Slot!Next \/ UNCHANGED Slot!vars
<1> DEFINE s == IF call[t].pc = "stale" THEN call[t].mine ELSE None
<1>1. /\ TypeOK /\ s \in Server \cup {None} /\ Kill(s)
      /\ UNCHANGED <<slot, condemned, stopping>>
  BY DEF WorkerInv, WorkerSafety, TypeOK, Call, Fail, gtk
<1>2. /\ call[t].pc \in Holding \ Starting /\ call'[t].pc = "failed"
      /\ \A u \in Thread : u # t => call'[u] = call[u]
  BY <1>1 DEF Fail, TypeOK, Call, Holding, Starting
<1>3. \A x : ~StartingAt(x) /\ ~StartingAt(x)'
  BY <1>2, OneStarts, OneStartsNext DEF Starting
<1> HIDE DEF s
<1> QED BY <1>1, <1>3, KillEnds

LEMMA DropStaleEnds ==
  ASSUME WorkerInv, NEW t \in Thread, DropStale(t)
  PROVE  Slot!Next \/ UNCHANGED Slot!vars
<1>1. /\ TypeOK /\ call[t].mine \in Server \cup {None} /\ Kill(call[t].mine)
      /\ UNCHANGED <<slot, condemned, stopping>>
  BY DEF WorkerInv, WorkerSafety, TypeOK, Call, DropStale, gtk
<1>2. /\ call[t].pc \in Holding \ Starting /\ call'[t].pc = "spawn"
      /\ \A u \in Thread : u # t => call'[u] = call[u]
  BY <1>1 DEF DropStale, TypeOK, Call, Holding, Starting
<1>3. \A x : ~StartingAt(x) /\ ~StartingAt(x)'
  BY <1>2, OneStarts, OneStartsNext DEF Starting
<1> QED BY <1>1, <1>3, KillEnds

LEMMA AbandonEnds ==
  ASSUME WorkerInv, NEW t \in Thread, Abandon(t)
  PROVE  Slot!Next \/ UNCHANGED Slot!vars
<1>1. /\ TypeOK /\ call[t].mine \in Server \cup {None} /\ Kill(call[t].mine)
      /\ UNCHANGED <<slot, condemned, stopping>>
  BY DEF WorkerInv, WorkerSafety, TypeOK, Call, Abandon, gtk
<1>2. /\ call[t].pc \in Starting /\ call[t].pc \in Holding /\ call'[t].pc = "failed"
      /\ \A u \in Thread : u # t => call'[u] = call[u]
  BY <1>1 DEF Abandon, TypeOK, Call, Holding, Starting
<1>3. \A x : (StartingAt(x) <=> x = call[t].mine) /\ ~StartingAt(x)'
  BY <1>2, OneStarts, OneStartsNext DEF Starting
<1>4. call[t].mine \notin live'
  BY <1>1 DEF Kill
<1> QED BY <1>1, <1>3, <1>4, KillEnds

LEMMA CleanupEnds ==
  ASSUME WorkerInv, NEW t \in Thread, Cleanup(t)
  PROVE  Slot!Next \/ UNCHANGED Slot!vars
<1>1. /\ TypeOK /\ slot \in Server \cup {None} /\ Kill(slot) /\ slot' = None
      /\ UNCHANGED <<condemned, stopping>>
  BY DEF WorkerInv, WorkerSafety, TypeOK, Cleanup, gtk
<1>2. /\ call[t].pc \in Holding \ Starting /\ call'[t].pc = "idle"
      /\ \A u \in Thread : u # t => call'[u] = call[u]
  BY <1>1 DEF Cleanup, TypeOK, Call, Holding, Starting, Idle
<1>3. \A x : ~StartingAt(x) /\ ~StartingAt(x)'
  BY <1>2, OneStarts, OneStartsNext DEF Starting
<1>4. \A x \in live' : x # slot /\ x # slot'
  BY <1>1, WorkerAssumption DEF Kill, TypeOK
<1> QED BY <1>1, <1>3, <1>4, KillEnds

LEMMA WorkerDiesEnds ==
  ASSUME WorkerInv, WorkerDies
  PROVE  Slot!Next
<1>1. PICK s \in live : Kill(s)
  BY DEF WorkerDies
<1>2. TypeOK /\ UNCHANGED <<slot, call, condemned, stopping>>
  BY DEF WorkerInv, WorkerSafety, WorkerDies, gtk
<1>3. \A x : StartingAt(x)' <=> StartingAt(x)
  BY <1>2 DEF StartingAt
<1> QED BY <1>1, <1>2, <1>3, Ends DEF Kill

(* A worker taken from the slot is on its way out.                         *)
LEMMA TakenLeaves ==
  ASSUME TypeOK, slot' = None, UNCHANGED <<live, condemned>>,
         (stopping # "no")' = (stopping # "no"),
         \A x \in live : ~StartingAt(x)' /\ ~StartingAt(x)
  PROVE  Slot!Next \/ UNCHANGED Slot!vars
<1>1. ASSUME NEW x \in Server, x # slot
      PROVE  RoleOf(x)' = RoleOf(x)
  BY <1>1, Roles, RolesNext, WorkerAssumption
<1>2. ASSUME NEW s \in live, s = slot
      PROVE  Slot!Next
  <2>1. s \in Server /\ RoleOf(s) = "warm" /\ RoleOf(s)' = "leaving"
    BY <1>2, Roles, RolesNext, WorkerAssumption DEF TypeOK
  <2>2. [x \in Server |-> RoleOf(x)]' = [[x \in Server |-> RoleOf(x)] EXCEPT ![s] = "leaving"]
    BY <1>1, <1>2, <2>1, OneRoleMoves
  <2>3. Slot!Withdraw(s)
    BY <2>1, <2>2 DEF Slot!Withdraw
  <2> QED BY <2>1, <2>3 DEF Slot!Next
<1>3. CASE slot \notin live
  <2>1. \A x \in Server : RoleOf(x)' = RoleOf(x)
    BY <1>1, <1>3, Roles, RolesNext
  <2> QED BY <2>1, NoRoleMoves
<1> QED BY <1>2, <1>3

(* It takes the warm process to talk to it, or out of the slot.            *)
LEMMA ConnectionTakes ==
  ASSUME WorkerInv, NEW t \in Thread, Connection(t)
  PROVE  Slot!Next \/ UNCHANGED Slot!vars
<1>1. TypeOK /\ UNCHANGED <<live, condemned, stopping>>
  BY DEF WorkerInv, WorkerSafety, Connection, processes, gtk
<1>2. /\ call[t].pc \in Holding \ Starting /\ call'[t].pc \in {"write", "stale"}
      /\ \A u \in Thread : u # t => call'[u] = call[u]
  BY <1>1 DEF Connection, TypeOK, Call, Holding, Starting
<1>3. \A x : ~StartingAt(x) /\ ~StartingAt(x)'
  BY <1>2, OneStarts, OneStartsNext DEF Starting
<1>4. CASE Reusable(t)
  <2>1. slot' = slot
    BY <1>4 DEF Connection
  <2> QED BY <1>1, <1>3, <2>1, OthersStay, NoRoleMoves
<1>5. CASE ~Reusable(t)
  <2>1. slot' = None
    BY <1>5 DEF Connection
  <2> QED BY <1>1, <1>3, <2>1, TakenLeaves
<1> QED BY <1>4, <1>5

LEMMA ShutdownTakes ==
  ASSUME WorkerInv, ShutdownTake
  PROVE  Slot!Next \/ UNCHANGED Slot!vars
<1>1. /\ TypeOK /\ slot' = None /\ UNCHANGED <<live, call, condemned>>
      /\ stopping # "no" /\ stopping' # "no"
  BY DEF WorkerInv, WorkerSafety, ShutdownTake, processes
<1>2. CASE slot \in live
  <2>1. \A t \in Thread : call[t].pc \notin Starting
    BY <1>2, WorkerAssumption DEF WorkerInv, WorkerSafety, TypeOK, SlotEmptied
  <2>2. \A x : ~StartingAt(x) /\ ~StartingAt(x)'
    BY <1>1, <2>1 DEF StartingAt
  <2> QED BY <1>1, <2>2, TakenLeaves
<1>3. CASE slot \notin live
  <2>1. \A x : StartingAt(x)' <=> StartingAt(x)
    BY <1>1 DEF StartingAt
  <2>2. \A x \in Server : RoleOf(x)' = RoleOf(x)
    BY <1>1, <1>3, <2>1, Roles, RolesNext, WorkerAssumption
  <2> QED BY <1>1, <2>2, NoRoleMoves
<1> QED BY <1>2, <1>3

(* A process is launched when none is on its way in.                       *)
LEMMA SpawnLaunches ==
  ASSUME WorkerInv, NEW t \in Thread, Spawn(t)
  PROVE  Slot!Next
<1>1. TypeOK /\ UNCHANGED <<slot, stopping>>
  BY DEF WorkerInv, WorkerSafety, Spawn, gtk
<1>2. PICK s \in Free :
        /\ live' = live \cup {s} /\ condemned' = condemned \ {s}
        /\ call' = [call EXCEPT ![t].pc = "handshake", ![t].mine = s]
  BY DEF Spawn
<1>3. s \in Server /\ s \notin live /\ s # slot
  BY DEF Free
<1>4. /\ call[t].pc \in Holding \ Starting /\ call'[t].pc = "handshake" /\ call'[t].mine = s
      /\ \A u \in Thread : u # t => call'[u] = call[u]
  BY <1>1, <1>2 DEF Spawn, TypeOK, Call, Holding, Starting
<1>5. \A x : ~StartingAt(x) /\ (StartingAt(x)' <=> x = s)
  BY <1>4, OneStarts, OneStartsNext DEF Starting
<1>6. RoleOf(s) = "none" /\ RoleOf(s)' = "starting"
  BY <1>1, <1>2, <1>3, <1>5, Roles, RolesNext
<1>7. \A x \in Server : x # s => RoleOf(x)' = RoleOf(x)
  BY <1>1, <1>2, <1>5, OthersStay
<1>8. \A x \in Server : RoleOf(x) # "starting"
  BY <1>5, Roles
<1>9. Slot!Launch(s)
  <2>1. [x \in Server |-> RoleOf(x)]' = [[x \in Server |-> RoleOf(x)] EXCEPT ![s] = "starting"]
    BY <1>3, <1>6, <1>7, OneRoleMoves
  <2> QED BY <1>1, <1>2, <1>3, <1>6, <1>8, <2>1 DEF Slot!Launch, Slot!Nobody
<1> QED BY <1>3, <1>9 DEF Slot!Next

(* And is warm when its thread has published it: no other is, and no       *)
(* shutdown that is over knew it.  One that died meanwhile is not.         *)
LEMMA PublishWarms ==
  ASSUME WorkerInv, NEW t \in Thread, Publish(t)
  PROVE  Slot!Next \/ UNCHANGED Slot!vars
<1> DEFINE s == call[t].mine
<1>1. TypeOK /\ UNCHANGED <<live, condemned, stopping>>
  BY DEF WorkerInv, WorkerSafety, Publish, processes, gtk
<1>2. s \in Server /\ slot = None /\ slot' = s /\ s \notin condemned
  BY DEF WorkerInv, SlotEmptied, MineIsOwn, CondemnedPast, Publish, Current, Starting
<1>3. /\ call[t].pc = "publish" /\ call[t].pc \in Holding /\ call'[t].pc = "write"
      /\ \A u \in Thread : u # t => call'[u] = call[u]
  BY <1>1 DEF Publish, Goto, TypeOK, Call, Holding
<1>4. \A x : (StartingAt(x) <=> x = s) /\ ~StartingAt(x)'
  BY <1>3, OneStarts, OneStartsNext DEF Starting
<1> HIDE DEF s
<1>5. \A x \in Server : x # s => RoleOf(x)' = RoleOf(x)
  BY <1>1, <1>2, <1>4, Roles, RolesNext, WorkerAssumption
<1>6. \A x \in Server : RoleOf(x) # "warm"
  BY <1>2, <1>4, Roles, WorkerAssumption
<1>7. CASE s \in live
  <2>1. RoleOf(s) = "starting"
    BY <1>2, <1>4, <1>7, Roles, WorkerAssumption
  <2>2. [x \in Server |-> RoleOf(x)]' = [[x \in Server |-> RoleOf(x)] EXCEPT ![s] = "warm"]
    <3>1. \A y \in Server : y = slot' /\ y \in live' => RoleOf(y)' = "warm"
      BY RolesNext
    <3> QED BY <1>1, <1>2, <1>5, <1>7, <3>1
  <2>3. Slot!Publish(s)
    BY <1>1, <1>2, <1>6, <2>1, <2>2 DEF Slot!Publish, Slot!Nobody
  <2> QED BY <1>2, <2>3 DEF Slot!Next
<1>8. CASE s \notin live
  <2>1. \A x \in Server : RoleOf(x)' = RoleOf(x)
    BY <1>1, <1>5, <1>8, Roles, RolesNext
  <2> QED BY <1>1, <2>1, NoRoleMoves
<1> QED BY <1>7, <1>8

(* A shutdown begins and notes the processes there are.                    *)
LEMMA BumpBegins ==
  ASSUME WorkerInv, ShutdownBump
  PROVE  Slot!Next
<1>1. /\ TypeOK /\ UNCHANGED <<live, slot, call>> /\ condemned' = live
      /\ stopping = "no" /\ stopping' # "no"
  BY DEF WorkerInv, WorkerSafety, ShutdownBump, processes
<1>2. \A x : StartingAt(x)' <=> StartingAt(x)
  BY <1>1 DEF StartingAt
<1>3. \A x \in Server : RoleOf(x)' = RoleOf(x)
  BY <1>1, <1>2, OthersStay
<1>4. condemned' = {x \in Server : RoleOf(x) # "none"}
  BY <1>1, Roles DEF TypeOK
<1>5. Slot!ShutdownBegins
  BY <1>1, <1>3, <1>4 DEF Slot!ShutdownBegins
<1> QED BY <1>5 DEF Slot!Next

(* It ends when it has killed what it took: nothing it knew is warm.       *)
LEMMA DropEnds ==
  ASSUME WorkerInv, ShutdownDrop
  PROVE  Slot!Next
<1> DEFINE dead == {victim} \cap live
<1>1. /\ TypeOK /\ UNCHANGED <<slot, call, condemned>> /\ live' = live \ {victim}
      /\ stopping = "drop" /\ stopping' = "no"
  BY DEF WorkerInv, WorkerSafety, ShutdownDrop, Kill
<1>2. \A x : StartingAt(x)' <=> StartingAt(x)
  BY <1>1 DEF StartingAt
<1>3. \A x \in dead : x \in Server /\ x # slot /\ ~StartingAt(x)
  BY <1>1, WorkerAssumption DEF WorkerInv, TypeOK, VictimTaken, MineIsOwn, StartingAt
<1>4. \A x \in dead : RoleOf(x) = "leaving" /\ RoleOf(x)' = "none"
  BY <1>1, <1>3, Roles, RolesNext
<1>5. \A x \in Server \ dead : RoleOf(x)' = RoleOf(x)
  BY <1>1, <1>2, OthersStay, Roles, RolesNext
<1>6. \A x \in condemned : RoleOf(x) # "warm"
  BY <1>1, Roles DEF WorkerInv, CondemnedPast, TypeOK
<1> HIDE DEF dead
<1>7. dead \in SUBSET {x \in Server : RoleOf(x) = "leaving"}
  BY <1>3, <1>4
<1>8. [x \in Server |-> RoleOf(x)]' = [x \in Server |-> IF x \in dead THEN "none" ELSE RoleOf(x)]
  BY <1>4, <1>5
<1>9. Slot!ShutdownEnds
  <2>1. \A x \in condemned : x \in Server
    BY <1>1 DEF TypeOK
  <2>2. [x \in Server |-> RoleOf(x)]' =
          [x \in Server |-> IF x \in dead THEN "none" ELSE [y \in Server |-> RoleOf(y)][x]]
    BY <1>8
  <2>3. dead \in SUBSET {x \in Server : [y \in Server |-> RoleOf(y)][x] = "leaving"}
    BY <1>7
  <2>4. \A x \in condemned : [y \in Server |-> RoleOf(y)][x] # "warm"
    BY <1>6, <2>1
  <2> QED BY <1>1, <2>2, <2>3, <2>4 DEF Slot!ShutdownEnds
<1> QED BY <1>9 DEF Slot!Next

(* Before the first call no process is anything for the slot.              *)
LEMMA InitMaps == Init => Slot!Init
<1> SUFFICES ASSUME Init PROVE Slot!Init
  OBVIOUS
<1>1. \A x \in Server : RoleOf(x) = "none"
  BY Roles DEF Init
<1> QED BY <1>1 DEF Init, Slot!Init

(* Every step of the worker is a step of the slot or none.                 *)
LEMMA StepMaps ==
  ASSUME WorkerInv, [Next]_vars
  PROVE  [Slot!Next]_(Slot!vars)
<1>1. ASSUME NEW t \in Thread, Work(t)
      PROVE  Slot!Next \/ UNCHANGED Slot!vars
  BY <1>1, QuietSteps, FailEnds, ConnectionTakes, DropStaleEnds, SpawnLaunches,
     AbandonEnds, PublishWarms, CleanupEnds DEF Work
<1>2. ASSUME NEW t \in Thread, NEW m \in Model, Transcribe(t, m)
      PROVE  UNCHANGED Slot!vars
  BY <1>2, QuietSteps
<1>3. CASE ShutdownBump \/ Shutdown \/ WorkerDies
  BY <1>3, BumpBegins, ShutdownTakes, DropEnds, WorkerDiesEnds DEF Shutdown
<1>4. CASE UNCHANGED vars
  <2>1. \A x : StartingAt(x)' <=> StartingAt(x)
    BY <1>4 DEF vars, StartingAt
  <2>2. \A x \in Server : RoleOf(x)' = RoleOf(x)
    BY <1>4, <2>1, OthersStay DEF vars, processes
  <2> QED BY <1>4, <2>2, NoRoleMoves DEF vars, gtk
<1> QED BY <1>1, <1>2, <1>3, <1>4 DEF Next

(* The worker keeps what a warm slot promises, but for its progress: one   *)
(* process warm at a time, and none that existed when a shutdown began     *)
(* once it has ended.                                                      *)
THEOREM WorkerImplementsWarmSlot == Spec => Slot!SafeSpec
<1>1. Spec => []WorkerInv
  BY WorkerInvAlways
<1>2. WorkerInv /\ [Next]_vars => [Slot!Next]_(Slot!vars)
  BY StepMaps
<1> QED BY <1>1, <1>2, InitMaps, PTL DEF Spec, Slot!SafeSpec

------------------------------------------------------------------------------
(* The global shortcuts.                                                   *)

(* The earlier comes first.                                                *)
Increasing(s) == \A i, j \in DOMAIN s : i < j => s[i] < s[j]

(* What a concatenation holds; one that increases is of two that share     *)
(* nothing.                                                                *)
LEMMA ConcatFacts ==
  ASSUME NEW s \in Seq(Nat), NEW t \in Seq(Nat)
  PROVE  /\ s \o t \in Seq(Nat) /\ ToSet(s \o t) = ToSet(s) \cup ToSet(t)
         /\ Increasing(s \o t) => Increasing(s) /\ ToSet(s) \cap ToSet(t) = {}
<1> DEFINE c == s \o t
           m == Len(s)
           n == Len(t)
<1>1. /\ m \in Nat /\ n \in Nat /\ DOMAIN s = 1..m /\ DOMAIN t = 1..n
      /\ \A i \in 1..m : s[i] \in Nat
      /\ \A i \in 1..n : t[i] \in Nat
  BY LenProperties, ElementOfSeq
<1>2. /\ c \in Seq(Nat) /\ Len(c) = m + n
      /\ \A i \in 1..(m + n) : c[i] = IF i <= m THEN s[i] ELSE t[i - m]
  BY ConcatProperties
<1>3. DOMAIN c = 1..(m + n)
  BY <1>2, LenProperties
<1> HIDE DEF c, m, n
<1>4. \A i \in 1..m : i \in 1..(m + n) /\ c[i] = s[i]
  BY <1>1, <1>2
<1>5. \A i \in 1..n : m + i \in 1..(m + n) /\ m < m + i /\ c[m + i] = t[i]
  <2> TAKE i \in 1..n
  <2>1. m + i \in 1..(m + n) /\ ~(m + i <= m) /\ (m + i) - m = i /\ m < m + i
    BY <1>1
  <2> QED BY <1>2, <2>1
<1>6. \A i \in 1..(m + n) : i \in 1..m \/ \E k \in 1..n : i = m + k
  <2> SUFFICES ASSUME NEW i \in 1..(m + n), i \notin 1..m
               PROVE  \E k \in 1..n : i = m + k
    OBVIOUS
  <2>1. i - m \in 1..n /\ i = m + (i - m)
    BY <1>1
  <2> QED BY <2>1
<1>7. ToSet(c) = ToSet(s) \cup ToSet(t)
  <2>1. ASSUME NEW e \in ToSet(c) PROVE e \in ToSet(s) \cup ToSet(t)
    <3>1. PICK i \in 1..(m + n) : e = c[i]
      BY <1>3, <2>1 DEF ToSet
    <3>2. CASE i \in 1..m
      BY <1>1, <1>4, <3>1, <3>2 DEF ToSet
    <3>3. CASE \E k \in 1..n : i = m + k
      <4>1. PICK k \in 1..n : i = m + k
        BY <3>3
      <4>2. e = t[k] /\ k \in DOMAIN t
        BY <1>1, <1>5, <3>1, <4>1
      <4> QED BY <4>2 DEF ToSet
    <3> QED BY <1>6, <3>2, <3>3
  <2>2. ToSet(s) \subseteq ToSet(c)
    BY <1>1, <1>3, <1>4 DEF ToSet
  <2>3. ASSUME NEW e \in ToSet(t) PROVE e \in ToSet(c)
    <3>1. PICK k \in 1..n : e = t[k]
      BY <1>1, <2>3 DEF ToSet
    <3>2. m + k \in DOMAIN c /\ c[m + k] = e
      BY <1>3, <1>5, <3>1
    <3> QED BY <3>2 DEF ToSet
  <2> QED BY <2>1, <2>2, <2>3
<1>8. ASSUME Increasing(c) PROVE Increasing(s)
  <2> SUFFICES ASSUME NEW i \in 1..m, NEW j \in 1..m, i < j
               PROVE  s[i] < s[j]
    BY <1>1 DEF Increasing
  <2>1. i \in DOMAIN c /\ j \in DOMAIN c /\ c[i] = s[i] /\ c[j] = s[j]
    BY <1>3, <1>4
  <2>2. c[i] < c[j]
    BY <1>8, <2>1 DEF Increasing
  <2> QED BY <2>1, <2>2
<1>9. ASSUME Increasing(c), NEW e \in ToSet(s), e \in ToSet(t) PROVE FALSE
  <2>1. PICK i \in 1..m : e = s[i]
    BY <1>1 DEF ToSet
  <2>2. PICK k \in 1..n : e = t[k]
    BY <1>1, <1>9 DEF ToSet
  <2>3. i \in 1..(m + n) /\ m + k \in 1..(m + n) /\ i < m + k /\ c[i] = e /\ c[m + k] = e
    <3>1. i \in 1..(m + n) /\ c[i] = e
      BY <1>4, <2>1
    <3>2. m + k \in 1..(m + n) /\ c[m + k] = e /\ m < m + k
      BY <1>5, <2>2
    <3>3. i < m + k
      BY ONLY <1>1, <3>2, i \in 1..m, k \in 1..n
    <3> QED BY <3>1, <3>2, <3>3
  <2>4. c[i] < c[m + k]
    BY <1>3, <1>9, <2>3 DEF Increasing
  <2>5. e \in Nat
    BY <1>1, <2>1
  <2> QED BY <2>3, <2>4, <2>5
<1> QED BY <1>2, <1>7, <1>8, <1>9 DEF c

(* A queue is its first element and the others.                            *)
LEMMA HeadFirst ==
  ASSUME NEW S, NEW s \in Seq(S), s # <<>>
  PROVE  /\ Head(s) \in S /\ Tail(s) \in Seq(S) /\ <<Head(s)>> \in Seq(S)
         /\ s = <<Head(s)>> \o Tail(s)
<1> DEFINE h == <<Head(s)>>
           t == Tail(s)
<1>1. /\ Head(s) \in S /\ t \in Seq(S) /\ Len(t) = Len(s) - 1 /\ Len(s) \in Nat
      /\ \A i \in 1..Len(t) : t[i] = s[i + 1]
      /\ Head(s) = s[1]
  BY HeadTailProperties, LenProperties
<1>2. h \in Seq(S) /\ Len(h) = 1 /\ h[1] = s[1]
  BY <1>1
<1> HIDE DEF h, t
<1>3. /\ h \o t \in Seq(S) /\ Len(h \o t) = Len(h) + Len(t)
      /\ \A i \in 1..Len(h) + Len(t) : (h \o t)[i] = IF i <= Len(h) THEN h[i] ELSE t[i - Len(h)]
  <2>1. h \in Seq(S) /\ t \in Seq(S)
    BY <1>1, <1>2
  <2> QED BY ONLY <2>1, ConcatProperties
<1>4. Len(h \o t) = Len(s)
  BY <1>1, <1>2, <1>3
<1>5. ASSUME NEW i \in 1..Len(s) PROVE s[i] = (h \o t)[i]
  <2>1. CASE i = 1
    BY <1>1, <1>2, <1>3, <2>1
  <2>2. CASE i # 1
    <3>1. i - 1 \in 1..Len(t) /\ (i - 1) + 1 = i /\ i \in 1..(1 + Len(t)) /\ ~(i <= 1)
      BY <1>1, <2>2
    <3>2. (h \o t)[i] = t[i - 1]
      BY <1>2, <1>3, <3>1
    <3>3. t[i - 1] = s[i]
      BY ONLY <1>1, <3>1
    <3> QED BY <3>2, <3>3
  <2> QED BY <2>1, <2>2
<1>6. s = h \o t
  BY <1>3, <1>4, <1>5, SeqEqual
<1> QED BY <1>1, <1>2, <1>6 DEF h, t

(* Keys are numbers; what is in hand is a key or a request.                *)
KeyTypes ==
  /\ acted \in Seq(Nat) /\ queue \in Seq(Nat) /\ arriving \in Seq(Nat)
  /\ task = "sending" => inHand \in Nat
  /\ task = "configuring" => inHand \in Request

(* Activations are subscribed to before the shortcuts are bound.           *)
SubscribedFirst == task \in Working \ {"starting"} => subscribed

(* The invariant behind ShortcutsSafety.                                   *)
ShortcutsInv == ShortcutsSafety /\ KeyTypes /\ SubscribedFirst

(* The key that waits for room in the queue.                               *)
Hand == IF task = "sending" THEN <<inHand>> ELSE <<>>

(* The keys acted on, queued, in hand and arriving, in this order.         *)
LEMMA FlowFacts ==
  ASSUME ShortcutsInv
  PROVE  /\ Flow = ((acted \o queue) \o Hand) \o arriving
         /\ Hand \in Seq(Nat) /\ acted \o queue \in Seq(Nat) /\ Flow \in Seq(Nat)
         /\ (acted \o queue) \o Hand \in Seq(Nat)
         /\ Increasing(Flow) /\ ToSet(Flow) = 1..pressed \ lost
<1>1. KeyTypes /\ NoKeyDropped
  BY DEF ShortcutsInv, ShortcutsSafety
<1>2. /\ Hand \in Seq(Nat) /\ acted \in Seq(Nat) /\ queue \in Seq(Nat) /\ arriving \in Seq(Nat)
  BY <1>1 DEF KeyTypes, Hand
<1>3. Flow = ((acted \o queue) \o Hand) \o arriving
  BY DEF Flow, Hand
<1>4. acted \o queue \in Seq(Nat)
  BY <1>2, ConcatFacts
<1>5. (acted \o queue) \o Hand \in Seq(Nat)
  BY <1>2, <1>4, ConcatFacts
<1>6. Flow \in Seq(Nat)
  BY <1>2, <1>3, <1>5, ConcatFacts
<1>7. Increasing(Flow) /\ ToSet(Flow) = 1..pressed \ lost
  BY <1>1 DEF NoKeyDropped, Increasing
<1> QED BY <1>2, <1>3, <1>4, <1>5, <1>6, <1>7

(* What the session holds when it ends goes with it, and nothing else.     *)
LEMMA DroppedKeeps ==
  ASSUME NEW p \in Seq(Nat), NEW t \in Seq(Nat), Increasing(p \o t)
  PROVE  Increasing(p) /\ ToSet(p) = ToSet(p \o t) \ ToSet(t) /\ ToSet(t) \subseteq ToSet(p \o t)
<1>1. /\ ToSet(p \o t) = ToSet(p) \cup ToSet(t) /\ Increasing(p) /\ ToSet(p) \cap ToSet(t) = {}
  BY ConcatFacts
<1> QED BY <1>1

(* Concatenation of keys is associative.                                   *)
LEMMA Associative ==
  ASSUME NEW s \in Seq(Nat), NEW t \in Seq(Nat), NEW u \in Seq(Nat)
  PROVE  (s \o t) \o u = s \o (t \o u)
BY ConcatAssociative

(* The lesser of two numbers.                                              *)
LEMMA MinOfTwo ==
  ASSUME NEW m \in Nat, NEW n \in Nat
  PROVE  Min({m, n}) = IF m <= n THEN m ELSE n
<1> DEFINE least == IF m <= n THEN m ELSE n
<1>1. least \in {m, n} /\ \A k \in {m, n} : least <= k
  OBVIOUS
<1>2. \A k \in {m, n} : (\A j \in {m, n} : k <= j) => k = least
  OBVIOUS
<1> HIDE DEF least
<1>3. Min({m, n}) \in {m, n} /\ \A j \in {m, n} : Min({m, n}) <= j
  BY <1>1 DEF Min
<1> QED BY <1>2, <1>3 DEF least

(* The wait is one of the shortest at least, the longest at most.          *)
LEMMA WaitFacts ==
  ASSUME delay \in 1..MaxDelay
  PROVE  LET now == IF lived THEN 1 ELSE delay
         IN  now \in 0..MaxDelay /\ Min({2 * now, MaxDelay}) \in 1..MaxDelay
<1> DEFINE now == IF lived THEN 1 ELSE delay
<1>1. MaxDelay \in Nat /\ MaxDelay # 0
  BY ShortcutsAssumption
<1>2. now \in 1..MaxDelay /\ now \in 0..MaxDelay
  BY <1>1
<1> HIDE DEF now
<1>3. 2 * now \in Nat /\ 1 <= 2 * now
  BY <1>1, <1>2
<1>4. Min({2 * now, MaxDelay}) = IF 2 * now <= MaxDelay THEN 2 * now ELSE MaxDelay
  BY <1>1, <1>3, MinOfTwo
<1>5. Min({2 * now, MaxDelay}) \in 1..MaxDelay
  BY <1>1, <1>3, <1>4
<1> QED BY <1>2, <1>5 DEF now

(* A key that is pressed while the shortcuts are bound arrives last: the   *)
(* session had subscribed before it bound them.                            *)
LEMMA PressPreserves ==
  ASSUME ShortcutsInv, Press
  PROVE  ShortcutsInv'
<1>1. /\ ShortcutsTypeOK /\ KeyTypes /\ SubscribedFirst
      /\ bound /\ pressed < MaxKeys /\ pressed' = pressed + 1 /\ MaxKeys \in Nat /\ pressed \in Nat
      /\ pressed' \in 0..MaxKeys /\ pressed' \in Nat
      /\ UNCHANGED <<task, subscribed, bound, lost, inHand, lived, delay, left, commands, asked, queue, acted>>
  BY ShortcutsAssumption
     DEF ShortcutsInv, ShortcutsSafety, Press, ShortcutsTypeOK, backoff, clicks
<1>2. subscribed /\ arriving' = Append(arriving, pressed')
  BY <1>1 DEF Press, ShortcutsTypeOK, SubscribedFirst
<1> DEFINE e == <<pressed'>>
           p == (acted \o queue) \o Hand
<1>3. /\ arriving \in Seq(Nat) /\ e \in Seq(Nat) /\ arriving' = arriving \o e /\ arriving' \in Seq(Nat)
  BY <1>1, <1>2, AppendIsConcat, AppendProperties DEF KeyTypes
<1>4. /\ p \in Seq(Nat) /\ Flow = p \o arriving /\ Flow \in Seq(Nat) /\ Increasing(Flow)
      /\ ToSet(Flow) = 1..pressed \ lost
  BY FlowFacts
<1>5. Flow' = p \o arriving'
  BY <1>1 DEF Flow, Hand
<1> HIDE DEF p
<1>6. Flow' = Flow \o e
  <2> HIDE DEF e
  <2>1. (p \o arriving) \o e = p \o (arriving \o e)
    <3>1. p \in Seq(Nat) /\ arriving \in Seq(Nat) /\ e \in Seq(Nat)
      BY <1>3, <1>4
    <3>2. \A s, t, u \in Seq(Nat) : (s \o t) \o u = s \o (t \o u)
      BY Associative
    <3> QED BY ONLY <3>1, <3>2
  <2> QED BY <1>3, <1>4, <1>5, <2>1
<1>7. Flow' = Append(Flow, pressed')
  BY <1>1, <1>4, <1>6, AppendIsConcat
<1>8. /\ Flow' \in Seq(Nat) /\ Len(Flow') = Len(Flow) + 1 /\ Flow'[Len(Flow) + 1] = pressed'
      /\ \A i \in 1..Len(Flow) : Flow'[i] = Flow[i]
      /\ Len(Flow) \in Nat /\ DOMAIN Flow = 1..Len(Flow) /\ DOMAIN Flow' = 1..(Len(Flow) + 1)
  BY <1>1, <1>4, <1>7, AppendProperties, LenProperties
<1>9. /\ e \in Seq(Nat) /\ ToSet(e) = {pressed'} /\ ToSet(Flow') = ToSet(Flow) \cup {pressed'}
  <2>1. e \in Seq(Nat) /\ ToSet(e) = {pressed'}
    BY <1>1 DEF ToSet
  <2> HIDE DEF e
  <2> QED BY <1>4, <1>6, <2>1, ConcatFacts
<1>10. pressed' \notin lost /\ \A i \in 1..Len(Flow) : Flow[i] < pressed' /\ Flow[i] \in Nat
  <2>1. pressed' \notin lost
    BY <1>1 DEF ShortcutsTypeOK
  <2>2. ASSUME NEW i \in 1..Len(Flow) PROVE Flow[i] < pressed' /\ Flow[i] \in Nat
    <3>1. Flow[i] \in ToSet(Flow)
      BY <1>8 DEF ToSet
    <3> QED BY <1>1, <1>4, <3>1
  <2> QED BY <2>1, <2>2
<1>11. NoKeyDropped'
  <2>1. ToSet(Flow') = 1..pressed' \ lost'
    BY <1>1, <1>4, <1>9, <1>10
  <2>2. ASSUME NEW i \in 1..(Len(Flow) + 1), NEW j \in 1..(Len(Flow) + 1), i < j
        PROVE  Flow'[i] < Flow'[j]
    <3>1. i \in 1..Len(Flow)
      BY <1>8, <2>2
    <3>2. CASE j = Len(Flow) + 1
      BY <1>8, <1>10, <3>1, <3>2
    <3>3. CASE j # Len(Flow) + 1
      <4>1. j \in 1..Len(Flow)
        BY <1>8, <3>3
      <4>2. Flow[i] < Flow[j]
        BY <1>4, <1>8, <2>2, <3>1, <4>1 DEF Increasing
      <4> QED BY <1>8, <3>1, <4>1, <4>2
    <3> QED BY <3>2, <3>3
  <2> QED BY <1>8, <2>1, <2>2 DEF NoKeyDropped
<1>12. lost' \subseteq 1..pressed'
  BY <1>1 DEF ShortcutsTypeOK
<1>13. ShortcutsTypeOK'
  BY <1>1, <1>12 DEF ShortcutsTypeOK
<1>14. KeyTypes' /\ SubscribedFirst'
  BY <1>1, <1>3 DEF KeyTypes, SubscribedFirst
<1> QED BY <1>11, <1>13, <1>14 DEF ShortcutsInv, ShortcutsSafety

(* A session that ends loses what had arrived, and nothing it had          *)
(* received.                                                               *)
LEMMA SessionPreserves ==
  ASSUME ShortcutsInv, SessionFails \/ StreamEnds
  PROVE  ShortcutsInv'
<1>1. /\ ShortcutsTypeOK /\ KeyTypes /\ task \in {"starting", "binding", "listening"}
      /\ task' = "waiting" /\ inHand' = inHand /\ lived' = FALSE
      /\ lost' = lost \cup ToSet(arriving) /\ subscribed' = FALSE /\ bound' = FALSE /\ arriving' = <<>>
      /\ UNCHANGED <<commands, asked, queue, acted, pressed>>
  BY DEF ShortcutsInv, ShortcutsSafety, SessionFails, StreamEnds, Waits, Dropped, clicks, keys
<1>2. delay' \in 1..MaxDelay /\ left' \in 0..MaxDelay
  BY <1>1, WaitFacts DEF SessionFails, StreamEnds, Waits, ShortcutsTypeOK
<1>3. Hand = <<>> /\ Hand' = <<>> /\ acted \o queue \in Seq(Nat) /\ arriving \in Seq(Nat) /\ pressed \in Nat
  BY <1>1, FlowFacts DEF Hand, KeyTypes, ShortcutsTypeOK
<1> DEFINE p == acted \o queue
<1>4. (p \o <<>>) = p
  BY <1>3, ConcatEmptySeq
<1>5. Flow = p \o arriving /\ Flow' = p
  <2>1. Flow = (p \o Hand) \o arriving
    BY FlowFacts
  <2>2. Flow' = (p \o Hand') \o <<>>
    BY <1>1 DEF Flow, Hand
  <2> HIDE DEF p
  <2> QED BY <1>3, <1>4, <2>1, <2>2
<1>6. Increasing(p) /\ ToSet(p) = 1..pressed \ lost'
  <2>1. Increasing(p \o arriving) /\ ToSet(p \o arriving) = 1..pressed \ lost
    BY <1>5, FlowFacts
  <2>2. p \in Seq(Nat) /\ arriving \in Seq(Nat)
    BY <1>3
  <2> HIDE DEF p
  <2>3. Increasing(p) /\ ToSet(p) = ToSet(p \o arriving) \ ToSet(arriving)
    BY ONLY <2>1, <2>2, DroppedKeeps
  <2> QED BY <1>1, <2>1, <2>3
<1>7. NoKeyDropped'
  <2> HIDE DEF p
  <2> QED BY <1>1, <1>5, <1>6 DEF NoKeyDropped, Increasing
<1>8. lost' \subseteq 1..pressed'
  <2>1. ToSet(arriving) \subseteq 1..pressed
    BY <1>3, <1>5, ConcatFacts, FlowFacts
  <2> QED BY <1>1, <2>1 DEF ShortcutsTypeOK
<1>9. ShortcutsTypeOK'
  <2>1. inHand' = Nobody
    BY <1>1 DEF ShortcutsTypeOK
  <2>2. (task' \in {"sending", "configuring"}) = (inHand' # Nobody)
    BY <1>1, <2>1
  <2>3. /\ commands' \in Seq(Request) /\ Len(commands') <= CommandCap
        /\ asked' \in [Request -> {"none", "open", "error"}]
        /\ Len(queue') <= KeyCap /\ pressed' \in 0..MaxKeys
    BY <1>1 DEF ShortcutsTypeOK
  <2> QED BY <1>1, <1>2, <1>8, <2>2, <2>3 DEF ShortcutsTypeOK
<1>10. KeyTypes' /\ SubscribedFirst'
  BY <1>1 DEF KeyTypes, SubscribedFirst, Working
<1> QED BY <1>7, <1>9, <1>10 DEF ShortcutsInv, ShortcutsSafety

(* The task ends with what it holds.                                       *)
LEMMA TaskEndsPreserves ==
  ASSUME ShortcutsInv, TaskEnds
  PROVE  ShortcutsInv'
<1>1. /\ ShortcutsTypeOK /\ KeyTypes
      /\ task' = "ended" /\ inHand' = Nobody
      /\ lost' = lost \cup ToSet(arriving) \cup (IF task = "sending" THEN {inHand} ELSE {})
      /\ subscribed' = FALSE /\ bound' = FALSE /\ arriving' = <<>>
      /\ UNCHANGED <<lived, delay, left, commands, asked, queue, acted, pressed>>
  BY DEF ShortcutsInv, ShortcutsSafety, TaskEnds, backoff, clicks, keys
<1> DEFINE p == acted \o queue
<1>2. /\ Hand \in Seq(Nat) /\ p \in Seq(Nat) /\ p \o Hand \in Seq(Nat) /\ arriving \in Seq(Nat) /\ pressed \in Nat
      /\ Flow = (p \o Hand) \o arriving /\ Increasing(Flow) /\ ToSet(Flow) = 1..pressed \ lost
  <2>1. arriving \in Seq(Nat) /\ pressed \in Nat
    BY <1>1 DEF KeyTypes, ShortcutsTypeOK
  <2> QED BY <2>1, FlowFacts
<1>3. ToSet(Hand) = IF task = "sending" THEN {inHand} ELSE {}
  BY DEF Hand, ToSet
<1>4. Flow' = p
  <2>1. p \o <<>> = p
    BY <1>2, ConcatEmptySeq
  <2>2. Flow' = (p \o <<>>) \o <<>>
    BY <1>1 DEF Flow
  <2> HIDE DEF p
  <2> QED BY <2>1, <2>2
<1> HIDE DEF p
<1>5. /\ Increasing(p \o Hand) /\ ToSet(p \o Hand) = ToSet(Flow) \ ToSet(arriving)
      /\ ToSet(arriving) \subseteq ToSet(Flow)
  <2>1. Increasing((p \o Hand) \o arriving)
    BY <1>2
  <2> QED BY <1>2, <2>1, DroppedKeeps
<1>6. /\ Increasing(p) /\ ToSet(p) = ToSet(p \o Hand) \ ToSet(Hand)
      /\ ToSet(Hand) \subseteq ToSet(p \o Hand)
  BY <1>2, <1>5, DroppedKeeps
<1>7. NoKeyDropped'
  <2>1. ToSet(p) = 1..pressed' \ lost'
    BY <1>1, <1>2, <1>3, <1>5, <1>6
  <2> QED BY <1>4, <1>6, <2>1 DEF NoKeyDropped, Increasing
<1>8. lost' \subseteq 1..pressed'
  <2>1. ToSet(arriving) \subseteq 1..pressed /\ ToSet(Hand) \subseteq 1..pressed
    BY <1>2, <1>5, <1>6
  <2> QED BY <1>1, <1>3, <2>1 DEF ShortcutsTypeOK
<1>9. ShortcutsTypeOK'
  <2>1. (task' \in {"sending", "configuring"}) = (inHand' # Nobody)
    BY <1>1
  <2>2. /\ commands' \in Seq(Request) /\ Len(commands') <= CommandCap /\ lived' \in BOOLEAN
        /\ delay' \in 1..MaxDelay /\ left' \in 0..MaxDelay
        /\ asked' \in [Request -> {"none", "open", "error"}]
        /\ Len(queue') <= KeyCap /\ pressed' \in 0..MaxKeys
    BY <1>1 DEF ShortcutsTypeOK
  <2> QED BY <1>1, <1>8, <2>1, <2>2 DEF ShortcutsTypeOK
<1>10. KeyTypes' /\ SubscribedFirst'
  BY <1>1 DEF KeyTypes, SubscribedFirst, Working
<1> QED BY <1>7, <1>9, <1>10 DEF ShortcutsInv, ShortcutsSafety

(* A key that moves on in its channel is still there, in its place.        *)
LEMMA ChannelPreserves ==
  ASSUME ShortcutsInv, Receive \/ Send \/ Act
  PROVE  ShortcutsInv'
<1>1. /\ ShortcutsTypeOK /\ KeyTypes /\ SubscribedFirst /\ KeyCap \in Nat
      /\ UNCHANGED <<subscribed, bound, lost, lived, delay, left, commands, asked, pressed>>
      /\ \A s, t, u \in Seq(Nat) : (s \o t) \o u = s \o (t \o u)
  BY ShortcutsAssumption, Associative
     DEF ShortcutsInv, ShortcutsSafety, Receive, Send, Act, session, backoff, clicks, keys
<1> DEFINE p == acted \o queue
<1>2. /\ acted \in Seq(Nat) /\ queue \in Seq(Nat) /\ arriving \in Seq(Nat) /\ Hand \in Seq(Nat) /\ p \in Seq(Nat)
      /\ Flow = (p \o Hand) \o arriving
      /\ Flow' = ((acted' \o queue') \o Hand') \o arriving'
      /\ Increasing(Flow) /\ ToSet(Flow) = 1..pressed \ lost
      /\ \A s \in Seq(Nat) : s \o <<>> = s /\ <<>> \o s = s
  BY <1>1, FlowFacts, ConcatEmptySeq DEF KeyTypes, Flow, Hand
<1>3. /\ Flow' = Flow /\ acted' \in Seq(Nat) /\ queue' \in Seq(Nat) /\ arriving' \in Seq(Nat)
      /\ task' = "sending" => inHand' \in Nat /\ inHand' # Nobody
      /\ Len(queue') <= KeyCap
  <2>1. CASE Receive
    <3> DEFINE h == <<Head(arriving)>>
               t == Tail(arriving)
    <3>1. /\ task = "listening" /\ arriving # <<>> /\ task' = "sending" /\ inHand' = Head(arriving)
          /\ arriving' = t /\ UNCHANGED <<acted, queue>>
      BY <2>1 DEF Receive, keys
    <3>2. /\ Head(arriving) \in Nat /\ h \in Seq(Nat) /\ t \in Seq(Nat) /\ arriving = h \o t
      BY <1>2, <3>1, HeadFirst
    <3>3. Hand = <<>> /\ Hand' = h
      BY <3>1 DEF Hand
    <3>4. Head(arriving) # Nobody
      <4>1. Head(arriving) \in ToSet(h)
        BY <3>2 DEF ToSet
      <4>2. ToSet(arriving) = ToSet(h) \cup ToSet(t)
        <5> HIDE DEF h, t
        <5> QED BY <3>2, ConcatFacts
      <4>3. ToSet(arriving) \subseteq ToSet(Flow)
        <5> DEFINE q == p \o Hand
        <5>1. q \in Seq(Nat) /\ arriving \in Seq(Nat) /\ Flow = q \o arriving /\ Increasing(q \o arriving)
          BY <1>2, FlowFacts
        <5> HIDE DEF q
        <5>2. ToSet(arriving) \subseteq ToSet(q \o arriving)
          BY ONLY <5>1, DroppedKeeps
        <5> QED BY ONLY <5>1, <5>2
      <4>4. Head(arriving) \in 1..pressed
        BY <1>2, <4>1, <4>2, <4>3
      <4> QED BY <4>4 DEF Nobody
    <3> HIDE DEF h, t, p
    <3>5. p \o Hand = p
      BY <1>2, <3>3
    <3>6. (p \o h) \o t = p \o (h \o t)
      <4>1. p \in Seq(Nat) /\ h \in Seq(Nat) /\ t \in Seq(Nat)
        BY <1>2, <3>2
      <4>2. \A u, v, w \in Seq(Nat) : (u \o v) \o w = u \o (v \o w)
        BY <1>1
      <4> QED BY ONLY <4>1, <4>2
    <3>7. Flow' = (p \o h) \o t
      BY <1>2, <3>1, <3>3 DEF p
    <3> QED BY <1>1, <1>2, <3>1, <3>2, <3>4, <3>5, <3>6, <3>7 DEF ShortcutsTypeOK
  <2>2. CASE Send
    <3> DEFINE h == <<inHand>>
    <3>1. /\ task = "sending" /\ Len(queue) < KeyCap /\ task' = "listening"
          /\ queue' = Append(queue, inHand) /\ UNCHANGED <<acted, arriving>>
      BY <2>2 DEF Send, session
    <3>2. inHand \in Nat /\ Len(queue) \in Nat
      BY <1>1, <1>2, <3>1, LenProperties DEF KeyTypes
    <3>3. /\ h \in Seq(Nat) /\ queue' = queue \o h /\ queue' \in Seq(Nat) /\ Len(queue') = Len(queue) + 1
      BY <1>2, <3>1, <3>2, AppendIsConcat, AppendProperties
    <3>4. Hand = h /\ Hand' = <<>>
      BY <3>1 DEF Hand
    <3> HIDE DEF h
    <3>5. (acted \o queue) \o h = acted \o (queue \o h)
      <4>1. acted \in Seq(Nat) /\ queue \in Seq(Nat) /\ h \in Seq(Nat)
        BY <1>2, <3>3
      <4>2. \A u, v, w \in Seq(Nat) : (u \o v) \o w = u \o (v \o w)
        BY <1>1
      <4> QED BY ONLY <4>1, <4>2
    <3>6. Flow' = ((acted \o (queue \o h)) \o <<>>) \o arriving
      BY <1>2, <3>1, <3>3, <3>4
    <3>7. acted \o (queue \o h) \in Seq(Nat)
      <4>1. queue \o h \in Seq(Nat)
        BY <3>3
      <4> QED BY <1>2, <4>1, ConcatFacts
    <3>8. Flow' = (acted \o (queue \o h)) \o arriving
      BY <1>2, <3>6, <3>7
    <3> QED BY <1>1, <1>2, <3>1, <3>2, <3>3, <3>4, <3>5, <3>8
  <2>3. CASE Act
    <3> DEFINE h == <<Head(queue)>>
               t == Tail(queue)
    <3>1. /\ queue # <<>> /\ acted' = Append(acted, Head(queue)) /\ queue' = t
          /\ UNCHANGED <<task, arriving, inHand>>
      BY <2>3 DEF Act, session
    <3>2. /\ Head(queue) \in Nat /\ h \in Seq(Nat) /\ t \in Seq(Nat) /\ queue = h \o t
          /\ Len(t) = Len(queue) - 1 /\ Len(queue) \in Nat
      BY <1>2, <3>1, HeadFirst, HeadTailProperties, LenProperties
    <3>3. acted' = acted \o h /\ acted' \in Seq(Nat)
      BY <1>2, <3>1, <3>2, AppendIsConcat, AppendProperties
    <3>4. Hand' = Hand /\ (task' = "sending" => inHand' \in Nat /\ inHand' # Nobody)
      BY <1>1, <3>1 DEF Hand, KeyTypes, ShortcutsTypeOK
    <3> HIDE DEF h, t
    <3>5. (acted \o h) \o t = acted \o (h \o t)
      <4>1. acted \in Seq(Nat) /\ h \in Seq(Nat) /\ t \in Seq(Nat)
        BY <1>2, <3>2
      <4>2. \A u, v, w \in Seq(Nat) : (u \o v) \o w = u \o (v \o w)
        BY <1>1
      <4> QED BY ONLY <4>1, <4>2
    <3>6. Flow = ((acted \o (h \o t)) \o Hand) \o arriving
      BY <1>2, <3>2
    <3>7. Flow' = (((acted \o h) \o t) \o Hand) \o arriving
      BY <1>2, <3>1, <3>3, <3>4
    <3>8. Flow' = Flow
      BY ONLY <3>5, <3>6, <3>7
    <3>9. Len(queue') <= KeyCap
      <4>1. Len(queue) <= KeyCap
        BY <1>1 DEF ShortcutsTypeOK
      <4> QED BY <1>1, <3>1, <3>2, <4>1
    <3> QED BY <1>2, <3>1, <3>2, <3>3, <3>4, <3>8, <3>9
  <2> QED BY <2>1, <2>2, <2>3
<1>4. NoKeyDropped'
  BY <1>1, <1>2, <1>3 DEF NoKeyDropped, Increasing
<1>5. /\ task' \in Working \cup {"waiting", "ended"}
      /\ (task' \in {"sending", "configuring"}) = (inHand' # Nobody)
      /\ bound' => task' \in Working \ {"starting"}
      /\ SubscribedFirst'
      /\ task' = "configuring" => inHand' \in Request
  <2>1. CASE Receive
    <3>1. task = "listening" /\ task' = "sending"
      BY <2>1 DEF Receive
    <3>2. inHand' # Nobody
      BY <1>3, <3>1
    <3> QED BY <1>1, <3>1, <3>2 DEF SubscribedFirst, Working
  <2>2. CASE Send
    <3>1. task = "sending" /\ task' = "listening" /\ inHand' = Nobody
      BY <2>2 DEF Send
    <3> QED BY <1>1, <3>1 DEF SubscribedFirst, Working
  <2>3. CASE Act
    <3>1. UNCHANGED <<task, inHand>>
      BY <2>3 DEF Act
    <3> QED BY <1>1, <3>1 DEF SubscribedFirst, ShortcutsTypeOK, KeyTypes
  <2> QED BY <2>1, <2>2, <2>3
<1>6. ShortcutsTypeOK'
  BY <1>1, <1>3, <1>5 DEF ShortcutsTypeOK
<1>7. KeyTypes'
  BY <1>3, <1>5 DEF KeyTypes
<1> QED BY <1>4, <1>5, <1>6, <1>7 DEF ShortcutsInv, ShortcutsSafety

(* The portal, the session's other steps and the clicks move no key.       *)
LEMMA NoKeyMoves ==
  ASSUME ShortcutsInv, UNCHANGED <<arriving, lost, queue, acted, pressed>>,
         task' = "sending" <=> task = "sending",
         task = "sending" => inHand' = inHand
  PROVE  NoKeyDropped'
<1>1. Flow' = Flow
  BY DEF Flow
<1> QED BY <1>1 DEF ShortcutsInv, ShortcutsSafety, NoKeyDropped

(* The portal, the session's steps and the clock move no key.              *)
LEMMA PortalPreserves ==
  ASSUME ShortcutsInv, PortalBinds \/ PortalForgets \/ Subscribe \/ Listening \/ Lasts \/ Tick \/ Retry
  PROVE  ShortcutsInv'
<1>1. /\ ShortcutsTypeOK /\ KeyTypes /\ SubscribedFirst
      /\ UNCHANGED <<arriving, lost, inHand, delay, commands, asked, queue, acted, pressed>>
  BY DEF ShortcutsInv, ShortcutsSafety, PortalBinds, PortalForgets, Subscribe, Listening, Lasts, Tick, Retry,
     session, backoff, clicks, keys
<1>2. /\ task' \in Working \cup {"waiting", "ended"}
      /\ task' \in {"sending", "configuring"} <=> task \in {"sending", "configuring"}
      /\ task' = "sending" <=> task = "sending"
      /\ task' = "configuring" <=> task = "configuring"
      /\ subscribed' \in BOOLEAN /\ bound' \in BOOLEAN /\ lived' \in BOOLEAN /\ left' \in 0..MaxDelay
      /\ bound' => task' \in Working \ {"starting"}
      /\ SubscribedFirst'
  <2>1. CASE PortalBinds \/ PortalForgets
    BY <1>1, <2>1 DEF PortalBinds, PortalForgets, backoff, ShortcutsTypeOK, SubscribedFirst, Working
  <2>2. CASE Subscribe \/ Listening
    BY <1>1, <2>2 DEF Subscribe, Listening, backoff, ShortcutsTypeOK, SubscribedFirst, Working
  <2>3. CASE Lasts
    BY <1>1, <2>3 DEF Lasts, session, ShortcutsTypeOK, SubscribedFirst, Working
  <2>4. CASE Tick
    BY <1>1, <2>4, ShortcutsAssumption DEF Tick, session, ShortcutsTypeOK, SubscribedFirst, Working
  <2>5. CASE Retry
    BY <1>1, <2>5 DEF Retry, session, backoff, ShortcutsTypeOK, SubscribedFirst, Working
  <2> QED BY <2>1, <2>2, <2>3, <2>4, <2>5
<1>3. NoKeyDropped'
  BY <1>1, <1>2, NoKeyMoves
<1>4. ShortcutsTypeOK' /\ KeyTypes'
  BY <1>1, <1>2 DEF ShortcutsTypeOK, KeyTypes
<1> QED BY <1>2, <1>3, <1>4 DEF ShortcutsInv, ShortcutsSafety

(* Nor do the requests to configure.                                       *)
LEMMA ClickPreserves ==
  ASSUME ShortcutsInv,
         (\E r \in Request : Click(r) \/ ClickTimesOut(r)) \/ Serve \/ Configured \/ Refuse
  PROVE  ShortcutsInv'
<1>1. /\ ShortcutsTypeOK /\ KeyTypes /\ SubscribedFirst /\ CommandCap \in Nat /\ Nobody \notin Request
      /\ UNCHANGED <<subscribed, bound, arriving, lost, lived, delay, left, queue, acted, pressed>>
      /\ commands \in Seq(Request) /\ Len(commands) \in Nat /\ Len(commands) <= CommandCap
      /\ asked \in [Request -> {"none", "open", "error"}]
  BY ShortcutsAssumption, LenProperties
     DEF ShortcutsInv, ShortcutsSafety, Click, ClickTimesOut, Serve, Configured, Refuse, session, backoff,
         keys, Nobody, ShortcutsTypeOK
<1>2. commands # <<>> => /\ Head(commands) \in Request /\ Tail(commands) \in Seq(Request)
                         /\ Len(Tail(commands)) <= CommandCap
  BY <1>1, HeadTailProperties
<1>3. /\ commands' \in Seq(Request) /\ Len(commands') <= CommandCap
      /\ asked' \in [Request -> {"none", "open", "error"}]
  <2>1. ASSUME NEW r \in Request, Click(r)
        PROVE  /\ commands' \in Seq(Request) /\ Len(commands') <= CommandCap
               /\ asked' \in [Request -> {"none", "open", "error"}]
    <3>1. CASE Len(commands) < CommandCap /\ task # "ended"
      <4>1. commands' = Append(commands, r) /\ asked' = [asked EXCEPT ![r] = "open"]
        BY <2>1, <3>1 DEF Click
      <4>2. commands' \in Seq(Request) /\ Len(commands') = Len(commands) + 1
        BY <1>1, <2>1, <4>1, AppendProperties
      <4> QED BY <1>1, <3>1, <4>1, <4>2
    <3>2. CASE ~(Len(commands) < CommandCap /\ task # "ended")
      <4>1. commands' = commands /\ asked' = [asked EXCEPT ![r] = "error"]
        BY <2>1, <3>2 DEF Click
      <4> QED BY <1>1, <4>1
    <3> QED BY <3>1, <3>2
  <2>2. ASSUME NEW r \in Request, ClickTimesOut(r)
        PROVE  /\ commands' \in Seq(Request) /\ Len(commands') <= CommandCap
               /\ asked' \in [Request -> {"none", "open", "error"}]
    BY <1>1, <2>2 DEF ClickTimesOut
  <2>3. CASE Serve
    BY <1>1, <1>2, <2>3 DEF Serve
  <2>4. CASE Configured
    BY <1>1, <2>4 DEF Configured, Reply, KeyTypes
  <2>5. CASE Refuse
    BY <1>1, <1>2, <2>5 DEF Refuse, Reply
  <2> QED BY <2>1, <2>2, <2>3, <2>4, <2>5
<1>4. /\ task' \in Working \cup {"waiting", "ended"}
      /\ (task' \in {"sending", "configuring"}) = (inHand' # Nobody)
      /\ task' = "sending" <=> task = "sending"
      /\ task = "sending" => inHand' = inHand
      /\ task' = "configuring" => inHand' \in Request
      /\ bound' => task' \in Working \ {"starting"}
      /\ SubscribedFirst'
  <2>1. CASE UNCHANGED <<task, inHand>>
    BY <1>1, <2>1 DEF ShortcutsTypeOK, KeyTypes, SubscribedFirst
  <2>2. CASE /\ task = "listening" /\ commands # <<>>
             /\ task' = "configuring" /\ inHand' = Head(commands)
    <3>1. inHand' \in Request /\ inHand' # Nobody
      BY <1>1, <1>2, <2>2
    <3> QED BY <1>1, <2>2, <3>1 DEF Working, SubscribedFirst
  <2>3. CASE task = "configuring" /\ task' = "listening" /\ inHand' = Nobody
    BY <1>1, <2>3 DEF Working, SubscribedFirst
  <2> QED BY <2>1, <2>2, <2>3 DEF Click, ClickTimesOut, Serve, Configured, Refuse
<1>5. NoKeyDropped'
  BY <1>1, <1>4, NoKeyMoves
<1>6. ShortcutsTypeOK' /\ KeyTypes'
  BY <1>1, <1>3, <1>4 DEF ShortcutsTypeOK, KeyTypes
<1> QED BY <1>4, <1>5, <1>6 DEF ShortcutsInv, ShortcutsSafety

(* Every key pressed while the shortcuts are bound is acted on, on its way *)
(* in its place, or was lost with the session that held it, for any queue  *)
(* capacities, any longest wait and any number of keys, requests and       *)
(* sessions.                                                               *)
THEOREM ShortcutsSafetyAlways ==
  ShortcutsInit /\ [][ShortcutsNext]_shortcutVars => []ShortcutsSafety
<1>1. ShortcutsInit => ShortcutsInv
  <2> SUFFICES ASSUME ShortcutsInit PROVE ShortcutsInv
    OBVIOUS
  <2>1. ShortcutsTypeOK
    <3>1. /\ 1 \in 1..MaxDelay /\ 0 \in 0..MaxDelay /\ 0 \in 0..MaxKeys
          /\ KeyCap \in Nat /\ CommandCap \in Nat /\ Len(<<>>) = 0
      BY ShortcutsAssumption
    <3>2. (task \in {"sending", "configuring"}) = (inHand # Nobody)
      BY DEF ShortcutsInit
    <3>3. /\ task \in Working /\ subscribed \in BOOLEAN /\ bound = FALSE /\ lived \in BOOLEAN
          /\ delay = 1 /\ left = 0 /\ commands = <<>> /\ queue = <<>> /\ pressed = 0 /\ lost = {}
          /\ asked \in [Request -> {"none", "open", "error"}]
      BY DEF ShortcutsInit, Working
    <3>4. commands \in Seq(Request)
      BY <3>3, EmptySeq
    <3>5. Len(commands) <= CommandCap /\ Len(queue) <= KeyCap
      BY <3>1, <3>3
    <3> QED BY <3>1, <3>2, <3>3, <3>4, <3>5 DEF ShortcutsTypeOK
  <2>2. KeyTypes /\ SubscribedFirst
    BY DEF ShortcutsInit, KeyTypes, SubscribedFirst
  <2>3. Flow = <<>>
    <3>1. <<>> \o <<>> = <<>>
      OBVIOUS
    <3> QED BY <3>1 DEF ShortcutsInit, Flow
  <2>4. NoKeyDropped
    BY <2>3 DEF ShortcutsInit, NoKeyDropped, ToSet
  <2> QED BY <2>1, <2>2, <2>4 DEF ShortcutsInv, ShortcutsSafety
<1>2. ASSUME ShortcutsInv, [ShortcutsNext]_shortcutVars PROVE ShortcutsInv'
  <2>1. CASE UNCHANGED shortcutVars
    BY <1>2, <2>1 DEF shortcutVars, session, backoff, clicks, keys, ShortcutsInv, ShortcutsSafety,
      ShortcutsTypeOK, KeyTypes, SubscribedFirst, NoKeyDropped, Flow
  <2> QED BY <1>2, <2>1, PressPreserves, SessionPreserves, TaskEndsPreserves, ChannelPreserves,
        PortalPreserves, ClickPreserves DEF ShortcutsNext
<1>3. ShortcutsInv => ShortcutsSafety
  BY DEF ShortcutsInv
<1> QED BY <1>1, <1>2, <1>3, PTL
=============================================================================
