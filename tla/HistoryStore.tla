----------------------------- MODULE HistoryStore -----------------------------
(***************************************************************************)
(* The transcript history: one JSON file, read and rewritten by detached   *)
(* threads under HISTORY_FILE_LOCK, and the HistoryPage of the main        *)
(* window, which once created is the authority for what the file holds.    *)
(*                                                                         *)
(* Without a window an entry is appended to the file directly.  The window *)
(* reads the file in the background; from then on every change is made in  *)
(* memory and the whole list is saved as a numbered snapshot.              *)
(*                                                                         *)
(* A thread holds the lock while it works and the file is replaced         *)
(* atomically, so a thread is one step.  Nothing but the file survives the *)
(* process: a crash is a behaviour that ends, and Init starts from any     *)
(* file a crash may have left.                                             *)
(***************************************************************************)
EXTENDS Integers, FiniteSets

CONSTANTS
  Id,          (* Transcript ids.                                          *)
  Fresh,       (* Those of the takes finished in this run.                 *)
  Old,         (* Those older than any retention the user picks.           *)
  Incomplete,  (* Those whose take the user may retry.                     *)
  MaxTakes,    (* Recordings of one such take.  Bounds the model.          *)
  MaxSaves,    (* Snapshots the page may save.  Bounds the model.          *)
  MaxFailures, (* Reads and writes of the file that may fail.  A bound.    *)
  None         (* No load is running.                                      *)

VARIABLES
  file,        (* What history.json holds.                                 *)
  window,      (* The main window exists.  Closing it only hides it.       *)
  entries,     (* HistoryPage.entries.                                     *)
  loaded,      (* HistoryPage.loaded.                                      *)
  savePending, (* HistoryPage.save_pending.                                *)
  load,        (* The load in flight, or None (HistoryPage.loading).       *)
  clears,      (* HistoryPage.populate_generation.                         *)
  retention,   (* history_retention_days > 0.                              *)
  saveSeq,     (* SAVE_SEQ.                                                *)
  savedSeq,    (* SAVED_SEQ.                                               *)
  snapshots,   (* Snapshot threads that have not written yet.              *)
  appends,     (* Append threads: the id and the recording they append.    *)
  updates,     (* Title and polished-text threads: the id, and a number.   *)
  quit         (* Whether and how the application was left.                *)

(* History variables.                                                      *)
VARIABLES
  recorded,    (* How often each transcript was recorded in this run.      *)
  asked,       (* How often a title or variant came back for it.           *)
  removed,     (* Recordings the user deleted or retention removed.        *)
  failures     (* Reads and writes that failed.                            *)

loading == <<loaded, load>>
saving == <<savePending, saveSeq, snapshots>>
headless == <<appends, updates>>
ghosts == <<recorded, asked, removed, failures>>
vars == <<file, window, entries, loading, saving, clears, retention, savedSeq,
          headless, quit, ghosts>>

-----------------------------------------------------------------------------
(* A list of entries with distinct ids is a version of each: 0 for none,   *)
(* 2n - 1 for what the n-th recording wrote, and 2n for that with the      *)
(* generated title, or the polished text, that arrives after it.           *)
History == [Id -> Nat]

Empty == [i \in Id |-> 0]

Present(h) == {i \in Id : h[i] # 0}

(* The whole entry is written anew, under the id it had.                   *)
AsRecorded(n) == 2 * n - 1

(* The title or the variant is set, the rest of the entry stays.           *)
Updated(v) == IF v % 2 = 1 THEN v + 1 ELSE v

(* The recording an entry is of.                                           *)
TakeOf(v) == (v + 1) \div 2

(* Mutant: what was read replaces what memory holds.                       *)
MergeReplace(current, read) ==
  [i \in Id |-> IF current[i] = 0 THEN read[i] ELSE read[i]]

(* merge_history: what memory holds wins over what was read.               *)
Merge(current, read) ==
  [i \in Id |-> IF current[i] # 0 THEN current[i] ELSE read[i]]

Pruned(h, keepDays) ==
  [i \in Id |-> IF keepDays /\ i \in Old THEN 0 ELSE h[i]]

Snapshot == [seq : Nat, entries : History]

(* A load remembers the populate generation it started in.                 *)
Load == [clears : Nat, phase : {"unread", "read", "error"}, read : History]

NewLoad == [clears |-> clears, phase |-> "unread", read |-> Empty]

ASSUME HistoryAssumption ==
  /\ Fresh \subseteq Id /\ Old \subseteq Id \ Fresh /\ Incomplete \subseteq Fresh
  /\ MaxTakes \in Nat /\ MaxSaves \in Nat /\ MaxFailures \in Nat
  /\ None \notin Load

NoThreads == snapshots = {} /\ appends = {} /\ updates = {}

(* The initial file is the work of earlier runs.                           *)
Init ==
  /\ file \in [Id -> 0..Updated(AsRecorded(1))] /\ Present(file) \cap Fresh = {}
  /\ window = FALSE /\ entries = Empty /\ loaded = FALSE
  /\ savePending = FALSE /\ load = None /\ clears = 0
  /\ retention \in BOOLEAN
  /\ saveSeq = 0 /\ savedSeq = 0
  /\ snapshots = {} /\ appends = {} /\ updates = {}
  /\ quit = "no"
  /\ recorded = Empty /\ asked = Empty /\ removed = {} /\ failures = 0

Fail == failures < MaxFailures /\ failures' = failures + 1

(***************************************************************************)
(* The page.                                                               *)
(***************************************************************************)

(* Mutant: a page that is still loading saves what it has.                 *)
SaveUnloaded(h, isLoaded, pend, keepDays) ==
  /\ saveSeq < MaxSaves /\ isLoaded \in BOOLEAN
  /\ entries' = Pruned(h, keepDays)
  /\ saveSeq' = saveSeq + 1
  /\ snapshots' = snapshots \cup {[seq |-> saveSeq + 1, entries |-> entries']}
  /\ savePending' = pend

(* save_history, with the list h in memory: deferred until the file was    *)
(* read, else pruned, numbered and handed to a thread.                     *)
SaveHistory(h, isLoaded, pend, keepDays) ==
  IF ~isLoaded
    THEN entries' = h /\ savePending' = TRUE /\ UNCHANGED <<saveSeq, snapshots>>
    ELSE /\ saveSeq < MaxSaves
         /\ entries' = Pruned(h, keepDays)
         /\ saveSeq' = saveSeq + 1
         /\ snapshots' = snapshots \cup {[seq |-> saveSeq + 1, entries |-> entries']}
         /\ savePending' = pend

(* The recordings a change of the list took away.                          *)
Lost(before, after) ==
  {<<i, TakeOf(before[i])>> : i \in Present(before) \ Present(after)}

(* present_main_window creates the window; its HistoryPage starts to load. *)
OpenWindow ==
  /\ quit = "no" /\ ~window
  /\ window' = TRUE
  /\ load' = NewLoad
  /\ UNCHANGED <<file, entries, loaded, saving, clears, retention, savedSeq,
                 headless, quit, ghosts>>

(* Retry on the banner a failed load shows.                                *)
Reload ==
  /\ quit = "no" /\ window /\ ~loaded /\ load = None
  /\ load' = NewLoad
  /\ UNCHANGED <<file, window, entries, loaded, saving, clears, retention,
                 savedSeq, headless, quit, ghosts>>

(* A transcript is finished: record_global_history.  A Retry of an         *)
(* incomplete take finishes it again, under its id; upsert_entry replaces  *)
(* the whole entry, or adds one if it is gone.                             *)
AddEntry(id) ==
  /\ quit = "no" /\ id \in Fresh
  /\ recorded[id] = 0 \/ (id \in Incomplete /\ recorded[id] < MaxTakes)
  /\ recorded' = [recorded EXCEPT ![id] = @ + 1]
  /\ IF window
       THEN /\ SaveHistory([entries EXCEPT ![id] = AsRecorded(recorded'[id])],
                           loaded, savePending, retention)
            /\ removed' = removed \cup Lost(entries, entries')
            /\ UNCHANGED appends
       ELSE /\ appends' = appends \cup {<<id, recorded'[id]>>}
            /\ UNCHANGED <<entries, saving, removed>>
  /\ UNCHANGED <<file, window, loading, clears, retention, savedSeq, updates,
                 quit, asked, failures>>

(* The title or polished text a recording asked for comes back later, for  *)
(* whatever the entry is by then; a page without the entry ignores it.     *)
UpdateEntry(id) ==
  /\ quit = "no" /\ asked[id] < recorded[id]
  /\ asked' = [asked EXCEPT ![id] = @ + 1]
  /\ \/ /\ window /\ entries[id] # 0
        /\ SaveHistory([entries EXCEPT ![id] = Updated(@)], loaded,
                       savePending, retention)
        /\ removed' = removed \cup Lost(entries, entries')
        /\ UNCHANGED updates
     \/ /\ window /\ entries[id] = 0
        /\ UNCHANGED <<entries, saving, removed, updates>>
     \/ /\ ~window
        /\ updates' = updates \cup {<<id, asked'[id]>>}
        /\ UNCHANGED <<entries, saving, removed>>
  /\ UNCHANGED <<file, window, loading, clears, retention, savedSeq, appends,
                 quit, recorded, failures>>

(* The delete button of a row.                                             *)
Delete(id) ==
  /\ quit = "no" /\ window /\ entries[id] # 0
  /\ SaveHistory([entries EXCEPT ![id] = 0], loaded, savePending, retention)
  /\ removed' = removed \cup Lost(entries, entries')
  /\ UNCHANGED <<file, window, loading, clears, retention, savedSeq, headless,
                 quit, recorded, asked, failures>>

(* Mutant: the generation counts down.                                     *)
PreviousGeneration == clears - 1

(* Tells a load begun before a clear from one begun after it.              *)
NextGeneration == clears + 1

(* Clear all is refused until the file was read.                           *)
Clear ==
  /\ quit = "no" /\ window /\ loaded
  /\ clears' = NextGeneration
  /\ SaveHistory(Empty, loaded, savePending, retention)
  /\ removed' = removed \cup Lost(entries, entries')
  /\ UNCHANGED <<file, window, loading, retention, savedSeq, headless, quit,
                 recorded, asked, failures>>

(* The retention dialog saves its choice and then the page.                *)
ChooseRetention(keepDays) ==
  /\ quit = "no" /\ window
  /\ retention' = keepDays
  /\ SaveHistory(entries, loaded, savePending, keepDays)
  /\ removed' = removed \cup Lost(entries, entries')
  /\ UNCHANGED <<file, window, loading, clears, savedSeq, headless, quit,
                 recorded, asked, failures>>

(* Mutant: the deferred save is not released.                              *)
AfterLoadForgets(h, pend) ==
  IF pend /\ retention
    THEN SaveHistory(h, TRUE, FALSE, retention)
    ELSE entries' = h /\ UNCHANGED saving

(* finish_load ends with the save deferred meanwhile, or with the pruning  *)
(* a retention asks for.                                                   *)
AfterLoad(h, pend) ==
  IF pend \/ retention
    THEN SaveHistory(h, TRUE, FALSE, retention)
    ELSE entries' = h /\ UNCHANGED saving

(* A clear since the load began cancels the merge.                         *)
FinishLoad ==
  /\ quit = "no" /\ load # None /\ load.phase # "unread"
  /\ load' = None
  /\ IF load.phase = "error"
       THEN UNCHANGED <<loaded, entries, saving, removed>>
       ELSE LET merged == IF clears = load.clears
                            THEN Merge(entries, load.read) ELSE entries
            IN /\ loaded' = TRUE
               /\ AfterLoad(merged, savePending)
               /\ removed' = removed \cup Lost(merged, entries')
  /\ UNCHANGED <<file, window, clears, retention, savedSeq, headless, quit,
                 recorded, asked, failures>>

(***************************************************************************)
(* The threads, each under the file lock.                                  *)
(***************************************************************************)
ReadHistory ==
  /\ load # None /\ load.phase = "unread"
  /\ \/ load' = [load EXCEPT !.phase = "read", !.read = file] /\ UNCHANGED failures
     \/ load' = [load EXCEPT !.phase = "error"] /\ Fail
  /\ UNCHANGED <<file, window, entries, loaded, saving, clears, retention,
                 savedSeq, headless, quit, recorded, asked, removed>>

(* Mutant: snapshots are written in the order the threads get the lock.    *)
NewerAlways(s) == s.seq > 0

(* A newer snapshot is on disk already: this one is dropped.               *)
Newer(s) == savedSeq < s.seq

WriteSnapshot(s) ==
  /\ s \in snapshots
  /\ snapshots' = snapshots \ {s}
  /\ \/ /\ Newer(s)
        /\ file' = s.entries /\ savedSeq' = s.seq
        /\ UNCHANGED failures
     \/ /\ Newer(s)
        /\ Fail /\ UNCHANGED <<file, savedSeq>>
     \/ /\ ~Newer(s)
        /\ UNCHANGED <<file, savedSeq, failures>>
  /\ UNCHANGED <<window, entries, loading, savePending, saveSeq, clears,
                 retention, headless, quit, recorded, asked, removed>>

(* The entry is given up when the file cannot be read, or not written.     *)
AppendToDisk(t) ==
  /\ t \in appends
  /\ appends' = appends \ {t}
  /\ \/ /\ file' = Pruned([file EXCEPT ![t[1]] = AsRecorded(t[2])], retention)
        /\ removed' = removed \cup Lost(file, file')
        /\ UNCHANGED failures
     \/ Fail /\ UNCHANGED <<file, removed>>
  /\ UNCHANGED <<window, entries, loading, saving, clears, retention, savedSeq,
                 updates, quit, recorded, asked>>

(* No-op when the entry is not in the file.                                *)
UpdateOnDisk(u) ==
  /\ u \in updates
  /\ updates' = updates \ {u}
  /\ \/ /\ file' = [file EXCEPT ![u[1]] = Updated(@)]
        /\ UNCHANGED failures
     \/ Fail /\ UNCHANGED file
  /\ UNCHANGED <<window, entries, loading, saving, clears, retention, savedSeq,
                 appends, quit, recorded, asked, removed>>

(* Shutdown waits for the pending writes, or for three seconds; the main   *)
(* loop runs no more.                                                      *)
Quit ==
  /\ quit = "no"
  /\ quit' = IF NoThreads THEN "clean" ELSE "timeout"
  /\ snapshots' = {} /\ appends' = {} /\ updates' = {} /\ load' = None
  /\ UNCHANGED <<file, window, entries, loaded, savePending, saveSeq, clears,
                 retention, savedSeq, ghosts>>

-----------------------------------------------------------------------------
Threads ==
  \/ ReadHistory
  \/ \E s \in snapshots : WriteSnapshot(s)
  \/ \E t \in appends : AppendToDisk(t)
  \/ \E u \in updates : UpdateOnDisk(u)

Calls ==
  \/ Reload \/ Clear \/ Quit
  \/ \E i \in Id : UpdateEntry(i) \/ Delete(i)
  \/ \E keepDays \in BOOLEAN : ChooseRetention(keepDays)

Next == OpenWindow \/ (\E i \in Id : AddEntry(i)) \/ Calls \/ FinishLoad \/ Threads

Spec == Init /\ [][Next]_vars

Appending(id) == \E t \in appends : t[1] = id

(* The window is opened while no write of a headless dictation is pending, *)
(* and a transcript is not recorded again while its first append is: the   *)
(* Retry decodes its audio in between.                                     *)
CalmNext ==
  \/ OpenWindow /\ NoThreads
  \/ \E i \in Id : AddEntry(i) /\ ~Appending(i)
  \/ Calls \/ FinishLoad \/ Threads

CalmSpec == Init /\ [][CalmNext]_vars

(* Threads are scheduled and the main loop takes up the loaded file; users *)
(* owe nothing.                                                            *)
FairCalmSpec == CalmSpec /\ WF_vars(Threads) /\ WF_vars(FinishLoad)

-----------------------------------------------------------------------------
(* The types of the variables.                                             *)
TypeOK ==
  /\ file \in History /\ entries \in History
  /\ window \in BOOLEAN /\ loaded \in BOOLEAN /\ savePending \in BOOLEAN
  /\ load \in Load \cup {None} /\ clears \in Nat
  /\ retention \in BOOLEAN
  /\ saveSeq \in Nat /\ savedSeq \in Nat
  /\ snapshots \in SUBSET Snapshot
  /\ appends \in SUBSET (Fresh \X (Nat \ {0})) /\ updates \in SUBSET (Id \X Nat)
  /\ quit \in {"no", "clean", "timeout"}
  /\ recorded \in [Id -> Nat] /\ asked \in [Id -> Nat]
  /\ removed \in SUBSET (Id \X (Nat \ {0})) /\ failures \in Nat

(* Recording n of i, or a later one, is among those removed.               *)
RemovedSince(i, n, gone) == \E r \in gone : r[1] = i /\ n <= r[2]

(* "writing it now would TRUNCATE the user's entire prior history": a      *)
(* transcript leaves the file only when the user deleted it or retention   *)
(* removed it, whatever fails and whenever the process dies.               *)
NeverTruncated ==
  [][\A i \in Id : file[i] # 0 /\ file'[i] = 0
                   => RemovedSince(i, TakeOf(file[i]), removed')]_vars

(* "an older snapshot must never overwrite a newer one": a recording that  *)
(* was removed returns to the file only ahead of a later snapshot without  *)
(* it, so no clear or delete is ever undone, unless a write failed or a    *)
(* Retry recorded the transcript anew.                                     *)
RemovedStaysRemoved ==
  [][\A r \in removed :
       TakeOf(file[r[1]]) # r[2] /\ TakeOf(file'[r[1]]) = r[2] /\ failures' = 0
         => \E s \in snapshots' : savedSeq' < s.seq /\ TakeOf(s.entries[r[1]]) # r[2]]_vars

(* In the file no entry goes back to an older recording of its transcript, *)
(* nor loses the title or the variant of the recording it holds.           *)
UpdateNeverUndone ==
  [][\A i \in Id : file'[i] # 0 => file[i] <= file'[i]]_vars

(* Wherever the threads are, the newest recording of a transcript is       *)
(* somewhere: on disk, on its way to it, or in a page that will save it.   *)
EntryKept ==
  (quit = "no" /\ failures = 0) =>
    \A i \in Present(recorded) :
      LET n == recorded[i] IN
      \/ <<i, n>> \in removed \cup appends
      \/ n \in {TakeOf(file[i]), TakeOf(entries[i])}

(* Once the page has loaded and every write is done, the file holds what   *)
(* the page shows.                                                         *)
FileMatchesPage ==
  (loaded /\ NoThreads /\ quit # "timeout" /\ failures = 0) => file = entries

(* The newest recording of a finished transcript reaches the file, unless  *)
(* the user removes it or leaves first, or a read or write fails.          *)
EntryReachesFile ==
  \A i \in Fresh :
    (recorded[i] # 0)
      ~> (\/ recorded[i] = TakeOf(file[i]) \/ <<i, recorded[i]>> \in removed
          \/ quit # "no" \/ failures > 0)

(* No transcript is ever nowhere: it is in the file, on the page, or with  *)
(* a thread that will write it; and at rest file and page agree.           *)
PageSafety ==
  TypeOK /\ EntryKept /\ FileMatchesPage

(* A thread that gets the file lock late neither brings back what was      *)
(* removed nor an older recording, title or polished text.                 *)
LateWritesUndoNothing ==
  RemovedStaysRemoved /\ UpdateNeverUndone
=============================================================================
