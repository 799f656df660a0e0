----------------------- MODULE GlobalDictationInductive -----------------------
(***************************************************************************)
(* The inductive invariant of GlobalDictation: what ties the jobs on their *)
(* way through the worker to the buffer, the retained audio and the takes. *)
(* Its parts are invariants of their own, checked by TLC and proved in     *)
(* GlobalDictation_proofs.                                                 *)
(***************************************************************************)
EXTENDS GlobalDictation

(* A chunk job is live while the take it was cut from still collects       *)
(* chunks: its answer will be committed.                                   *)
Live(j) == j.kind = "chunk" /\ chunked # None /\ j.gen = chunked.gen

(* At most one chunk decode of the recording take is on its way, wherever  *)
(* it is between the channel, the worker and the GTK thread: "at most one  *)
(* chunk decode runs at a time", which is what lets its answer be appended *)
(* and committed without looking at the others.                            *)
OneChunkInFlight ==
  /\ \A i, k \in DOMAIN queue : Live(queue[i]) /\ Live(queue[k]) => i = k
  /\ \A i \in DOMAIN queue :
       Live(queue[i]) => /\ running = None \/ ~Live(running)
                         /\ \A r \in replies : ~Live(r.job)
  /\ running # None /\ Live(running) => \A r \in replies : ~Live(r.job)
  /\ \A r, s \in replies : Live(r.job) /\ Live(s.job) => r = s

(* The live chunk starts where the buffer's committed audio ends and lies  *)
(* within what has been captured, so CommitConsumed never ignores it.      *)
LiveChunkFits ==
  \A j \in Jobs :
    Live(j) => /\ owner = "mini" /\ chunked.gen = gen /\ chunked.pending
               /\ j.take.from = consumed
               /\ consumed < j.take.to /\ j.take.to <= rawLen

(* Nothing on its way is from a generation still to come.                  *)
GensBounded ==
  /\ \A j \in Jobs : j.gen <= gen
  /\ chunked # None => chunked.gen <= gen
  /\ \A g \in aborted : g < gen

(* The take being recorded, and those still to come, have not been stopped. *)
TakesFresh ==
  /\ owner = "mini" => takes > 0 /\ final[takes] = None
  /\ \A t \in 1..MaxTakes : t > takes => final[t] = None

(* A stopped take's chunks and tail tile its audio.                        *)
FinalTiled ==
  \A t \in 1..MaxTakes :
    final[t] # None =>
      /\ final[t].id = t
      /\ Tiles(final[t].chunks, 0, final[t].from)
      /\ final[t].from <= final[t].to

(* Final decodes and the retained audio are those of the stopped take.     *)
IsFinal(take) ==
  take.id \in 1..MaxTakes /\ final[take.id] # None /\ final[take.id] = take

TakesFinal ==
  /\ \A j \in TailJobs : IsFinal(j.take)
  /\ retry # None => IsFinal(retry)

(* Of a retried take at most the newest decode counts: any older one still *)
(* on its way carries an aborted token.                                    *)
OneTailCounts ==
  /\ \A j, k \in TailJobs :
       j.take.id = k.take.id /\ j.gen \notin aborted /\ k.gen \notin aborted
         => j.gen = k.gen
  /\ retry # None =>
       \A j \in TailJobs :
         j.take.id = retry.id => j.gen = gen \/ j.gen \in aborted

(* A cancelled take has no decode that may still be written down.          *)
DiscardedAborted ==
  /\ discarded \subseteq 1..takes
  /\ owner = "mini" => takes \notin discarded
  /\ retry # None => retry.id \notin discarded
  /\ \A j \in TailJobs : j.take.id \in discarded => j.gen \in aborted

SpeechInv ==
  /\ TypeOK
  /\ OneChunkInFlight
  /\ LiveChunkFits
  /\ GensBounded
  /\ TakesFresh
  /\ FinalTiled
  /\ TakesFinal
  /\ ChunksMatchBuffer
  /\ SpeechOnce

CancelInv ==
  /\ OneTailCounts
  /\ DiscardedAborted

(* The newest decode is of the audio retained for Retry, and waits for no  *)
(* recording: what Retry aborts is what it queues again.                   *)
RetryRepeatsNewest ==
  \A j \in TailJobs : j.gen = gen => owner # "mini" /\ (retry # None => j.take = retry)

(* A decode is answered as cancelled only after its token was aborted.     *)
CancelledIsAborted ==
  \A r \in replies : r.result = "cancelled" => r.job.gen \in aborted

(* The decoded speech of a take is in a transcript.                        *)
Saved(t) ==
  \E e \in history :
    /\ e.take = t
    /\ Len(e.parts) >= Len(final[t].chunks)
    /\ SubSeq(e.parts, 1, Len(final[t].chunks)) = final[t].chunks

(* Decoded speech that nobody gave up is in a decode that counts, not only *)
(* in one whose answer will be thrown away, or it is saved.                *)
SpeechCounts ==
  \A t \in 1..MaxTakes :
    final[t] # None /\ t \notin discarded \cup filtered /\ HasText(final[t].chunks) =>
      Saved(t) \/ \E j \in TailJobs : j.take = final[t] /\ j.gen \notin aborted

KeptInv == RetryRepeatsNewest /\ CancelledIsAborted /\ SpeechCounts

(* While a take is recorded and decoded at once, at most one decode can    *)
(* extend its text, and that text is of exactly the audio the buffer has   *)
(* given up.                                                               *)
ChunkSafety ==
  TypeOK /\ OneChunkInFlight /\ ChunksMatchBuffer
=============================================================================
