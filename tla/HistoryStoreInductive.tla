------------------------ MODULE HistoryStoreInductive ------------------------
(* The invariants behind the theorems about the history file and its page, *)
(* for a window opened while no headless write is pending.                 *)
EXTENDS HistoryStore

(* Of the entries in `before', the list `after' has this version or a      *)
(* later one; what it lacks was removed.                                   *)
Keeps(before, after) ==
  \A i \in Id : before[i] # 0 =>
    IF after[i] # 0 THEN before[i] <= after[i]
    ELSE RemovedSince(i, TakeOf(before[i]), removed)

(* The file has one kind of writer at a time: headless threads before the  *)
(* window, nobody while it loads, snapshots of the page afterwards.        *)
OneWriter ==
  /\ window => appends = {} /\ updates = {}
  /\ ~window => ~loaded /\ load = None /\ entries = Empty
  /\ ~loaded => snapshots = {}

(* Nothing is cleared, and nothing is written, while the file is read.     *)
LoadIsCurrent ==
  load # None =>
    /\ ~loaded /\ load.clears = clears
    /\ load.phase = "read" => load.read = file

(* Snapshots are numbered in the order they were taken.                    *)
SnapshotsNumbered ==
  /\ \A s \in snapshots : s.seq <= saveSeq
  /\ \A s, t \in snapshots : s.seq = t.seq => s = t

(* No list holds, and nobody removed, a recording that was not made.       *)
MadeBy(h) == \A i \in Fresh : TakeOf(h[i]) <= recorded[i]

Made ==
  /\ Present(recorded) \subseteq Fresh
  /\ MadeBy(file) /\ MadeBy(entries)
  /\ \A s \in snapshots : MadeBy(s.entries)
  /\ \A t \in appends : t[2] = recorded[t[1]]
  /\ \A r \in removed : r[1] \in Fresh => r[2] <= recorded[r[1]]

(* From the file over the pending snapshots to the page, nothing goes back *)
(* to an earlier version, and nothing is dropped that was not removed.     *)
(* Until the page has loaded, what it holds is newer than the file.        *)
Covered ==
  /\ loaded => Keeps(file, entries)
  /\ ~loaded => \A i \in Id : entries[i] # 0 => TakeOf(file[i]) < TakeOf(entries[i])
  /\ \A s \in snapshots : savedSeq < s.seq => Keeps(file, s.entries)
  /\ \A s \in snapshots : Keeps(s.entries, entries)
  /\ \A s, t \in snapshots : s.seq < t.seq => Keeps(s.entries, t.entries)

HistoryInv ==
  TypeOK /\ OneWriter /\ LoadIsCurrent /\ SnapshotsNumbered /\ Made /\ Covered

(* An entry on its way to the file is not in it, nor was it removed.       *)
AppendsPending ==
  \A t \in appends : t \notin removed /\ TakeOf(file[t[1]]) < t[2]

(* The page shows no recording that was removed, nor does the file until   *)
(* the page has loaded.  A page that holds something will save it.         *)
PageIsNew ==
  /\ \A r \in removed : TakeOf(entries[r[1]]) # r[2]
  /\ ~loaded => /\ \A r \in removed : TakeOf(file[r[1]]) # r[2]
                /\ ~savePending => entries = Empty

(* The newest recording is on the page once that has loaded, and before on *)
(* the page, in the file or with the thread that appends it.               *)
RecordedKept ==
  quit = "no" /\ failures = 0 =>
    \A i \in Present(recorded) :
      LET n == recorded[i] IN
      \/ <<i, n>> \in removed
      \/ n = TakeOf(entries[i])
      \/ ~loaded /\ (n = TakeOf(file[i]) \/ <<i, n>> \in appends)

(* The newest snapshot is of what the page shows, on disk or on its way.   *)
NewestShown ==
  /\ savedSeq <= saveSeq /\ (~loaded => savedSeq = saveSeq)
  /\ loaded /\ failures = 0 /\ quit = "no" =>
       IF savedSeq = saveSeq THEN file = entries
       ELSE \E s \in snapshots : s.seq = saveSeq /\ s.entries = entries

(* After the end nothing runs, and a clean end left nothing unsaved.       *)
EndIsQuiet ==
  quit # "no" => /\ NoThreads /\ load = None
                 /\ quit = "clean" /\ loaded /\ failures = 0 => file = entries

PageInv ==
  /\ AppendsPending /\ PageIsNew /\ RecordedKept /\ NewestShown /\ EndIsQuiet
=============================================================================
