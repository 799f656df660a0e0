-------------------------- MODULE Settings_proofs --------------------------
(* What the settings keep, proved: the configuration under everything the  *)
(* Model page, the wizard and the window do to it, the models that are     *)
(* downloaded and deleted, the sidecars' files, and the text pages.        *)
EXTENDS WhisperDownloads, SidecarFiles, SettingsPages, SequenceTheorems, TLAPS

(* A start has at most its own save pending.                               *)
LEMMA InitStore == Init => StoreInv
<1> SUFFICES ASSUME Init PROVE StoreInv
  OBVIOUS
<1>1. LoadSaves.seq \in Nat /\ (LoadSaves.seq # 0 => LoadSaves.config = cache)
  BY DEF Init, StoreInit, LoadSaves, Loaded, NoRequest
<1>2. LoadSaves.seq = 0 => disk = cache
  BY DEF Init, StoreInit, LoadSaves, Loaded
<1> QED
  BY <1>1, <1>2 DEF Init, StoreInit, StoreInv, Counts, NewestIsCache, FlushedAtExit,
     PersistedMeansOnDisk, FlushedMeansOnDisk, Status, NoRequest

(* A save sets the cache and hands the snapshot over.                      *)
LEMMA SubmitKeeps ==
  ASSUME StoreInv, life = "running", NEW c, Save(c)
  PROVE  StoreInv'
BY DEF StoreInv, Save, Submit, progress, Counts, NewestIsCache, FlushedAtExit,
   PersistedMeansOnDisk, FlushedMeansOnDisk, Status

(* The writer takes the pending snapshot.                                  *)
LEMMA TakeKeeps ==
  ASSUME StoreInv, Take
  PROVE  StoreInv'
BY DEF StoreInv, Take, NoRequest, Counts, NewestIsCache, FlushedAtExit,
   PersistedMeansOnDisk, FlushedMeansOnDisk, Status

(* The writer writes it, or fails.                                         *)
LEMMA WriteKeeps ==
  ASSUME StoreInv, Write
  PROVE  StoreInv'
<1> USE DEF StoreInv, Write, queue, NoRequest
<1>1. Counts' /\ NewestIsCache'
  BY DEF Counts, NewestIsCache
<1>2. FlushedAtExit' /\ FlushedMeansOnDisk'
  BY DEF FlushedAtExit, FlushedMeansOnDisk
<1>3. PersistedMeansOnDisk'
  BY DEF PersistedMeansOnDisk, Status, Counts, NewestIsCache
<1> QED BY <1>1, <1>2, <1>3

(* Quitting, flushing and crashing write nothing.                          *)
LEMMA ExitKeeps ==
  ASSUME StoreInv, Quit \/ Flush \/ Crash
  PROVE  StoreInv'
<1> USE DEF StoreInv, queue, progress
<1>1. Counts' /\ NewestIsCache'
  BY DEF Quit, Flush, Crash, Counts, NewestIsCache
<1>2. PersistedMeansOnDisk'
  BY DEF Quit, Flush, Crash, PersistedMeansOnDisk, Status
<1>3. FlushedAtExit'
  BY DEF Quit, Flush, Crash, FlushedAtExit
<1>4. FlushedMeansOnDisk'
  BY DEF Quit, Flush, Crash, FlushedMeansOnDisk, PersistedMeansOnDisk, Status
<1> QED BY <1>1, <1>2, <1>3, <1>4

(* A start reads the file again, and saves what it replaced or corrected.  *)
LEMMA StartKeeps ==
  ASSUME Start
  PROVE  StoreInv'
<1> DEFINE m == Present(Loaded, final)
           corrects == m # NoModel /\ m # Loaded.selected
           c == IF corrects THEN [Loaded EXCEPT !.selected = m] ELSE Loaded
           n == LoadSaves.seq + (IF corrects THEN 1 ELSE 0)
<1>1. /\ cache' = c /\ requested' = n
      /\ pending' = IF n = 0 THEN NoRequest ELSE [seq |-> n, config |-> c]
  BY DEF Start
<1>2. /\ life' = "running" /\ flushed' = "no" /\ completed' = 0 /\ failed' = FALSE
      /\ writing' = NoRequest /\ disk' = disk
  BY DEF Start
<1>3. LoadSaves.seq \in {0, 1} /\ (LoadSaves.seq = 0 => Loaded = disk)
  BY DEF LoadSaves, NoRequest, Loaded
<1>4. n \in Nat /\ (n = 0 => c = disk)
  BY <1>3
<1> HIDE DEF c, n
<1> QED
  BY <1>1, <1>2, <1>4 DEF StoreInv, Counts, NewestIsCache, FlushedAtExit,
     PersistedMeansOnDisk, FlushedMeansOnDisk, Status, NoRequest

(* A step that leaves the configuration alone.                             *)
LEMMA SameStore ==
  ASSUME StoreInv, UNCHANGED store
  PROVE  StoreInv'
BY DEF StoreInv, store, queue, progress, Counts, NewestIsCache, FlushedAtExit,
   PersistedMeansOnDisk, FlushedMeansOnDisk, Status

(* What the user, the downloads and the window do to it are saves.         *)
LEMMA UserKeeps ==
  ASSUME StoreInv, User
  PROVE  StoreInv'
<1>1. CASE PressCancel \/ Next1 \/ CloseWizard \/ \E m \in Model : Click(m) \/ WizardClick(m)
  BY <1>1, SameStore DEF PressCancel, Next1, CloseWizard, Click, WizardClick
<1>2. ASSUME NEW m \in Model, Delete(m)
      PROVE  StoreInv'
  BY <1>2, SameStore, SubmitKeeps DEF Delete, Act
<1>3. ASSUME NEW d \in Dir, ChangeDir(d)
      PROVE  StoreInv'
  BY <1>3, SubmitKeeps DEF ChangeDir, Act
<1>4. CASE GetStarted
  BY <1>4, SubmitKeeps DEF GetStarted, Act
<1>5. CASE Start
  BY <1>5, StartKeeps
<1> QED BY <1>1, <1>2, <1>3, <1>4, <1>5 DEF User

(* So every step preserves the invariant of the store.                     *)
LEMMA StepKeeps ==
  ASSUME StoreInv, Next
  PROVE  StoreInv'
<1>1. CASE User
  BY <1>1, UserKeeps
<1>2. CASE Turned
  BY <1>2, SameStore DEF Turned
<1>3. ASSUME NEW r \in Row, Task(r)
      PROVE  StoreInv'
  BY <1>3, SameStore DEF Task, CheckPartial, Ask, Open, Chunk, LastChunk, Cancelled,
     Interrupted, Verify, Publish, NothingElse
<1>4. ASSUME NEW m \in Model, Done(m)
      PROVE  StoreInv'
  BY <1>4, SameStore, SubmitKeeps DEF Done
<1>5. ASSUME NEW w \in Slot, WizardDone(w)
      PROVE  StoreInv'
  BY <1>5, SameStore DEF WizardDone
<1>6. CASE Store
  BY <1>6, TakeKeeps, WriteKeeps, ExitKeeps DEF Store, Writer
<1> QED BY <1>1, <1>2, <1>3, <1>4, <1>5, <1>6 DEF Next, Step

(* And every reachable state has it.                                       *)
LEMMA StoreAlways == Spec => []StoreInv
<1>1. StoreInv /\ [Next]_vars => StoreInv'
  BY StepKeeps, SameStore DEF vars
<1> QED BY <1>1, InitStore, PTL DEF Spec

(* Status "persisted", which hides the banner, is never shown over a file  *)
(* that differs from the cache: whatever is saved, coalesced, fails, or is *)
(* cut short by a crash.                                                   *)
THEOREM PersistedMeansOnDiskAlways == Spec => []PersistedMeansOnDisk
BY StoreAlways, PTL DEF StoreInv

(* A flush at shutdown that reports success has lost no setting.           *)
THEOREM FlushedMeansOnDiskAlways == Spec => []FlushedMeansOnDisk
BY StoreAlways, PTL DEF StoreInv

(* What the program calls saved is on the disk.                            *)
THEOREM SavedMeansOnDiskAlways == Spec => []SavedMeansOnDisk
BY PersistedMeansOnDiskAlways, FlushedMeansOnDiskAlways, PTL DEF SavedMeansOnDisk

(***************************************************************************)
(* The model files, the downloads' rows and the engine.                    *)
(***************************************************************************)

(* The page's rows tell of their downloads, and show a delete button for   *)
(* the models they call downloaded.                                        *)
RowsTell ==
  \A m \in Model : /\ m \in trash <=> label[m] = "Downloaded"
                   /\ job[m].stage # "idle" => label[m] = "Downloading"

(* Until another directory is chosen, a row downloads its model into the   *)
(* one that is configured.                                                 *)
RowsFile ==
  "moved" \notin past =>
    \A m \in Model : job[m].stage # "idle" => job[m].file = <<cache.dir, m>>

(* A download that shares its partial file with no other writes to it, and *)
(* has verified what it publishes.                                         *)
Undisturbed ==
  "shared" \notin past =>
    /\ ~Shared
    /\ \A r \in Row : /\ job[r].stage = "body" => job[r].at = "part"
                      /\ job[r].stage \in {"publish", "adopt"} => part[job[r].file] = "whole"

(* What a row's download has published is there until the page hears of it. *)
OkIsThere ==
  past = {} => \A m \in Model : job[m].stage = "ok" => final[job[m].file] = "whole"

DownloadInv ==
  /\ TypeOK /\ PublishedIsVerified /\ CancelHasDownload /\ EngineIsSelected
  /\ RowsTell /\ RowsFile /\ Undisturbed /\ OkIsThere

(* What the observer notes of a step.                                      *)
LEMMA ObservedFacts ==
  ASSUME TypeOK, Observed
  PROVE  /\ past \subseteq past' /\ past' \subseteq {"shared", "moved"}
         /\ "shared" \notin past' => "shared" \notin past /\ ~Shared'
         /\ "moved" \notin past' => "moved" \notin past /\ cache'.dir = cache.dir
         /\ past' = {} => past = {} /\ cache'.dir = cache.dir
BY DEF Observed, TypeOK

(* A download is idle somewhere.                                           *)
LEMMA IdleType == IdleJob \in Job /\ IdleJob.stage = "idle" /\ IdleJob.at = "gone"
<1>1. <<Default.dir, FirstPick>> \in File
  BY ConfigAssumption, ModelsAssumption DEF File
<1>2. (CHOOSE f \in File : TRUE) \in File
  BY <1>1
<1> QED BY <1>2 DEF IdleJob, Job, Stage

(* A download that begins.                                                 *)
LEMMA BegunType ==
  ASSUME TypeOK, NEW m \in Model
  PROVE  Begun(m) \in Job /\ Begun(m).stage = "check" /\ Begun(m).file = <<cache.dir, m>>
<1>1. <<cache.dir, m>> \in File
  BY ModelsAssumption DEF TypeOK, StoreTypeOK, File
<1> QED BY <1>1 DEF Begun, Job, Stage

(* A record of a download with one field changed.                          *)
LEMMA JobWith ==
  ASSUME NEW j \in Job
  PROVE  /\ \A s \in Stage : LET k == [j EXCEPT !.stage = s] IN
              k \in Job /\ k.stage = s /\ k.file = j.file /\ k.at = j.at
         /\ \A a \in {"part", "final", "gone"} : LET k == [j EXCEPT !.at = a] IN
              k \in Job /\ k.stage = j.stage /\ k.file = j.file /\ k.at = a
         /\ LET k == [j EXCEPT !.cancel = TRUE] IN
              k \in Job /\ k.stage = j.stage /\ k.file = j.file /\ k.at = j.at
BY DEF Job

(* One download goes to another stage.                                     *)
LEMMA JobTo ==
  ASSUME NEW js \in [Row -> Job], NEW r \in Row, NEW s \in Stage, NEW w,
         w = [js EXCEPT ![r].stage = s]
  PROVE  /\ w \in [Row -> Job]
         /\ w[r].stage = s /\ w[r].file = js[r].file /\ w[r].at = js[r].at
         /\ \A q \in Row : q # r => w[q] = js[q]
<1>1. w = [js EXCEPT ![r] = [js[r] EXCEPT !.stage = s]]
  OBVIOUS
<1> DEFINE k == [js[r] EXCEPT !.stage = s]
<1>2. k \in Job /\ k.stage = s /\ k.file = js[r].file /\ k.at = js[r].at
  BY JobWith
<1> HIDE DEF k
<1> QED BY <1>1, <1>2 DEF k

(* A partial file is removed from under the others, or takes the model's   *)
(* name: their stages and files are the same.                              *)
LEMMA OthersKeep ==
  ASSUME NEW js \in [Row -> Job], NEW f \in File, NEW w,
         w = Unlinked(js, f) \/ w = Moved(js, f)
  PROVE  /\ w \in [Row -> Job]
         /\ \A q \in Row : w[q].stage = js[q].stage /\ w[q].file = js[q].file
         /\ \A q \in Row : js[q].file # f => w[q] = js[q]
<1>1. \A q \in Row : \/ w[q] = js[q]
                     \/ /\ js[q].file = f
                        /\ \E a \in {"part", "final", "gone"} : w[q] = [js[q] EXCEPT !.at = a]
  <2>1. ASSUME NEW q \in Row PROVE [js[q] EXCEPT !.at = IF @ = "part" THEN "final" ELSE "gone"]
          \in {[js[q] EXCEPT !.at = a] : a \in {"part", "final", "gone"}}
    <3>1. CASE js[q].at = "part"
      BY <3>1
    <3>2. CASE js[q].at # "part"
      BY <3>2
    <3> QED BY <3>1, <3>2
  <2> QED BY <2>1 DEF Unlinked, Moved
<1>2. \A q \in Row : w[q] \in Job /\ w[q].stage = js[q].stage /\ w[q].file = js[q].file
  <2>1. ASSUME NEW q \in Row PROVE w[q] \in Job /\ w[q].stage = js[q].stage /\ w[q].file = js[q].file
    <3>1. js[q] \in Job
      OBVIOUS
    <3>2. CASE w[q] = js[q]
      BY <3>1, <3>2
    <3>3. CASE \E a \in {"part", "final", "gone"} : w[q] = [js[q] EXCEPT !.at = a]
      <4>1. PICK a \in {"part", "final", "gone"} : w[q] = [js[q] EXCEPT !.at = a]
        BY <3>3
      <4> DEFINE j == js[q]
      <4>2. j \in Job
        BY <3>1
      <4>3. w[q] = [j EXCEPT !.at = a]
        BY <4>1
      <4> HIDE DEF j
      <4>4. w[q] \in Job /\ w[q].stage = j.stage /\ w[q].file = j.file
        BY <4>1, <4>2, <4>3 DEF Job
      <4> QED BY <4>4 DEF j
    <3> QED BY <1>1, <3>2, <3>3
  <2> QED BY <2>1
<1>3. w = [q \in Row |-> w[q]]
  BY DEF Unlinked, Moved
<1> QED BY <1>1, <1>2, <1>3

(* The steps of a download change its own row, its own files and where     *)
(* others write that have the same one open.                               *)
LEMMA TaskShape ==
  ASSUME TypeOK, NEW r \in Row, Task(r)
  PROVE  /\ job' \in [Row -> Job] /\ final' \in [File -> Content] /\ part' \in [File -> Content]
         /\ slips' \in 0..MaxSlips
         /\ job[r].stage \in Live /\ job'[r].stage # "idle"
         /\ \A q \in Row : job'[q].file = job[q].file
         /\ \A q \in Row : q # r => job'[q].stage = job[q].stage
         /\ \A q \in Row : q # r /\ job[q].file # job[r].file => job'[q] = job[q]
         /\ \A f \in File : f # job[r].file => final'[f] = final[f] /\ part'[f] = part[f]
<1> DEFINE f == job[r].file
<1>1. job \in [Row -> Job] /\ final \in [File -> Content] /\ part \in [File -> Content]
      /\ slips \in 0..MaxSlips /\ f \in File /\ MaxSlips \in Nat
  BY ModelsAssumption DEF TypeOK, Job
<1>2. \A s \in Stage \ {"idle"} : To(r, s) =>
        /\ job' \in [Row -> Job] /\ job'[r].stage # "idle"
        /\ \A q \in Row : job'[q].file = job[q].file
        /\ \A q \in Row : q # r => job'[q] = job[q]
  BY <1>1, JobTo DEF To
<1>3. \A s \in Stage \ {"idle"} :
        job' = [Unlinked(job, f) EXCEPT ![r].stage = s] \/ job' = [Moved(job, f) EXCEPT ![r].stage = s] =>
        /\ job' \in [Row -> Job] /\ job'[r].stage # "idle"
        /\ \A q \in Row : job'[q].file = job[q].file
        /\ \A q \in Row : q # r => job'[q].stage = job[q].stage
        /\ \A q \in Row : q # r /\ job[q].file # f => job'[q] = job[q]
  <2> SUFFICES ASSUME NEW s \in Stage \ {"idle"}, NEW w, w = Unlinked(job, f) \/ w = Moved(job, f),
                      job' = [w EXCEPT ![r].stage = s]
               PROVE  /\ job' \in [Row -> Job] /\ job'[r].stage # "idle"
                      /\ \A q \in Row : job'[q].file = job[q].file
                      /\ \A q \in Row : q # r => job'[q].stage = job[q].stage
                      /\ \A q \in Row : q # r /\ job[q].file # f => job'[q] = job[q]
    OBVIOUS
  <2>1. /\ w \in [Row -> Job]
        /\ \A q \in Row : w[q].stage = job[q].stage /\ w[q].file = job[q].file
        /\ \A q \in Row : job[q].file # f => w[q] = job[q]
    BY <1>1, OthersKeep
  <2> HIDE DEF f
  <2>2. /\ job' \in [Row -> Job] /\ job'[r].stage = s /\ job'[r].file = w[r].file
        /\ \A q \in Row : q # r => job'[q] = w[q]
    <3>1. s \in Stage
      OBVIOUS
    <3> QED BY ONLY <2>1, <3>1, JobTo, r \in Row, job' = [w EXCEPT ![r].stage = s]
  <2> QED BY <2>1, <2>2
<1>4. {"check", "adopt", "ask", "open", "body", "verify", "publish", "ok", "failed", "cancelled"}
        \subseteq Stage \ {"idle"}
  BY DEF Stage, Ended
<1>5. CASE CheckPartial(r)
  BY <1>1, <1>2, <1>4, <1>5 DEF CheckPartial, Running, files, Live
<1>6. CASE Ask(r)
  <2>0. PICK b \in BOOLEAN : job' = [job EXCEPT ![r].stage = "open", ![r].resume = b]
    <3> DEFINE b == part[job[r].file] \in {"some", "whole", "bad"}
    <3>1. job' = [job EXCEPT ![r].stage = "open", ![r].resume = b]
      BY <1>6 DEF Ask
    <3>2. b \in BOOLEAN
      OBVIOUS
    <3> HIDE DEF b
    <3> QED BY <3>1, <3>2
  <2>1. job' = [job EXCEPT ![r] = [job[r] EXCEPT !.stage = "open", !.resume = b]]
    BY <1>1, <2>0
  <2> DEFINE k == [job[r] EXCEPT !.stage = "open", !.resume = b]
  <2>2. k \in Job /\ k.stage = "open" /\ k.file = f
    BY <1>1, <2>1 DEF Job, Stage
  <2> HIDE DEF k
  <2>3. job' = [job EXCEPT ![r] = k]
    BY <2>1 DEF k
  <2> QED BY <1>1, <1>6, <2>2, <2>3 DEF Ask, Running, files, Live
<1>7. CASE Open(r)
  <2>1. CASE To(r, "failed") /\ UNCHANGED part
    BY <1>1, <1>2, <1>4, <1>7, <2>1 DEF Open, Running, Live
  <2>2. CASE /\ job' = [job EXCEPT ![r].stage = "body", ![r].at = "part"]
             /\ \/ part' = [part EXCEPT ![f] = "empty"]
                \/ part' = [part EXCEPT ![f] = IF @ = "none" THEN "empty" ELSE @]
    <3> DEFINE k == [job[r] EXCEPT !.stage = "body", !.at = "part"]
    <3>1. k \in Job /\ k.stage = "body" /\ k.file = f
      BY <1>1 DEF Job, Stage
    <3>2. job' = [job EXCEPT ![r] = k]
      BY <1>1, <2>2
    <3> HIDE DEF k
    <3>3. part' \in [File -> Content] /\ \A g \in File : g # f => part'[g] = part[g]
      BY <1>1, <2>2 DEF Content
    <3> QED BY <1>1, <1>7, <3>1, <3>2, <3>3 DEF Open, Running, Live
  <2> QED BY <1>7, <2>1, <2>2 DEF Open
<1>8. ASSUME NEW c \in Content \ {"none", "empty"}, Writes(r, c)
      PROVE  /\ final' \in [File -> Content] /\ part' \in [File -> Content] /\ slips' \in 0..MaxSlips
             /\ \A g \in File : g # f => final'[g] = final[g] /\ part'[g] = part[g]
  BY <1>1, <1>8 DEF Writes, Content
<1>9. CASE Chunk(r)
  <2>1. PICK c \in {"some", "bad"} : Writes(r, c)
    BY <1>9 DEF Chunk
  <2>2. c \in Content \ {"none", "empty"}
    BY <2>1 DEF Content
  <2> QED BY <1>1, <1>8, <1>9, <2>1, <2>2 DEF Chunk, Running, Live
<1>10. CASE LastChunk(r)
  <2>1. PICK c \in {"whole", "bad"} : Writes(r, c)
    BY <1>10 DEF LastChunk
  <2>2. c \in Content \ {"none", "empty"}
    BY <2>1 DEF Content
  <2> QED BY <1>1, <1>2, <1>4, <1>8, <1>10, <2>1, <2>2 DEF LastChunk, Running, Live
<1>11. CASE Cancelled(r)
  BY <1>1, <1>2, <1>4, <1>11 DEF Cancelled, Running, files, Live
<1>12. [part EXCEPT ![f] = "none"] \in [File -> Content]
       /\ \A g \in File : g # f => [part EXCEPT ![f] = "none"][g] = part[g]
  BY <1>1 DEF Content
<1>13. CASE Interrupted(r)
  BY <1>1, <1>2, <1>3, <1>4, <1>12, <1>13 DEF Interrupted, Running, Live
<1>14. CASE Verify(r)
  BY <1>1, <1>2, <1>3, <1>4, <1>12, <1>14 DEF Verify, Running, Live
<1>15. CASE Publish(r)
  <2>1. [final EXCEPT ![f] = part[f]] \in [File -> Content]
        /\ \A g \in File : g # f => [final EXCEPT ![f] = part[f]][g] = final[g]
    BY <1>1
  <2> QED BY <1>1, <1>2, <1>3, <1>4, <1>12, <1>15, <2>1 DEF Publish, Running, Live, files
<1> QED BY <1>5, <1>6, <1>7, <1>9, <1>10, <1>11, <1>13, <1>14, <1>15 DEF Task

(* What a step of a download that shares its file with no other leaves.    *)
LEMMA TaskFiles ==
  ASSUME DownloadInv, NEW r \in Row, Task(r), "shared" \notin past
  PROVE  LET f == job[r].file IN
         /\ job'[r].stage = "body" => job'[r].at = "part"
         /\ job'[r].stage \in {"publish", "adopt"} => part'[f] = "whole"
         /\ final'[f] = IF job'[r].stage = "ok" THEN "whole" ELSE final[f]
<1> DEFINE f == job[r].file
<1>1. job \in [Row -> Job] /\ final \in [File -> Content] /\ part \in [File -> Content] /\ f \in File
  BY DEF DownloadInv, TypeOK, Job
<1>2. /\ job[r].stage = "body" => job[r].at = "part"
      /\ job[r].stage \in {"publish", "adopt"} => part[f] = "whole"
  BY DEF DownloadInv, Undisturbed
<1>3. \A s \in Stage : To(r, s) => job'[r].stage = s /\ job'[r].at = job[r].at
  BY <1>1, JobTo DEF To
<1>4. {"check", "adopt", "ask", "open", "body", "verify", "publish", "ok", "failed", "cancelled"}
        \subseteq Stage
  BY DEF Stage, Ended
<1>5. \A s \in Stage : job' = [Unlinked(job, f) EXCEPT ![r].stage = s]
                       \/ job' = [Moved(job, f) EXCEPT ![r].stage = s] => job'[r].stage = s
  <2> SUFFICES ASSUME NEW s \in Stage, NEW w, w = Unlinked(job, f) \/ w = Moved(job, f),
                      job' = [w EXCEPT ![r].stage = s]
               PROVE  job'[r].stage = s
    OBVIOUS
  <2>1. w \in [Row -> Job]
    BY <1>1, OthersKeep
  <2> QED BY ONLY <2>1, JobTo, r \in Row, s \in Stage, job' = [w EXCEPT ![r].stage = s]
<1>6. CASE CheckPartial(r)
  BY <1>1, <1>3, <1>4, <1>6 DEF CheckPartial, files
<1>7. CASE Ask(r)
  <2>1. job'[r].stage = "open" /\ UNCHANGED files
    BY <1>1, <1>7 DEF Ask, Job
  <2> QED BY <2>1 DEF files
<1>8. CASE Open(r)
  <2>1. CASE To(r, "failed")
    BY <1>3, <1>4, <1>8, <2>1 DEF Open
  <2>2. CASE job' = [job EXCEPT ![r].stage = "body", ![r].at = "part"]
    <3>1. job'[r].stage = "body" /\ job'[r].at = "part"
      BY <1>1, <2>2 DEF Job
    <3> QED BY <1>8, <3>1 DEF Open
  <2> QED BY <1>8, <2>1, <2>2 DEF Open
<1>9. CASE Chunk(r)
  BY <1>1, <1>2, <1>9 DEF Chunk, Running, Writes
<1>10. CASE LastChunk(r)
  BY <1>1, <1>2, <1>3, <1>4, <1>10 DEF LastChunk, Running, Writes
<1>11. CASE Cancelled(r)
  BY <1>3, <1>4, <1>11 DEF Cancelled, files
<1>12. CASE Interrupted(r)
  BY <1>3, <1>4, <1>5, <1>12 DEF Interrupted
<1>13. CASE Verify(r)
  BY <1>3, <1>4, <1>5, <1>13 DEF Verify
<1>14. CASE Publish(r)
  <2>1. part[f] = "whole"
    BY <1>2, <1>14 DEF Publish, Running
  <2> QED BY <1>1, <1>4, <1>5, <1>14, <2>1 DEF Publish
<1> QED BY <1>6, <1>7, <1>8, <1>9, <1>10, <1>11, <1>12, <1>13, <1>14 DEF Task

(* A step of a download.                                                   *)
LEMMA TaskPreserves ==
  ASSUME DownloadInv, NEW r \in Row, Task(r), Observed
  PROVE  DownloadInv'
<1> DEFINE f == job[r].file
<1>1. /\ job' \in [Row -> Job] /\ final' \in [File -> Content] /\ part' \in [File -> Content]
      /\ slips' \in 0..MaxSlips
      /\ job[r].stage \in Live /\ job'[r].stage # "idle"
      /\ \A q \in Row : job'[q].file = job[q].file
      /\ \A q \in Row : q # r => job'[q].stage = job[q].stage
      /\ \A q \in Row : q # r /\ job[q].file # f => job'[q] = job[q]
      /\ \A g \in File : g # f => final'[g] = final[g] /\ part'[g] = part[g]
  BY TaskShape DEF DownloadInv
<1>2. NothingElse
  BY DEF Task, CheckPartial, Ask, Open, Chunk, LastChunk, Cancelled, Interrupted, Verify, Publish
<1>3. UNCHANGED <<cache, disk, requested, completed, pending, writing, failed, life, flushed,
                  label, trash, current, button, wizard, picked, retry, engine, acts>>
  BY <1>2 DEF NothingElse, store, queue, progress, page, welcome
<1>4. /\ past \subseteq past' /\ past' \subseteq {"shared", "moved"}
      /\ "shared" \notin past' => "shared" \notin past /\ ~Shared'
      /\ past' = {} => past = {}
  BY ObservedFacts DEF DownloadInv
<1>5. job \in [Row -> Job] /\ final \in [File -> Content]
      /\ \A q \in Row : job[q].file \in File
  BY DEF DownloadInv, TypeOK, Job
<1>6. TypeOK'
  BY <1>1, <1>3, <1>4 DEF DownloadInv, TypeOK, StoreTypeOK
<1>7. CancelHasDownload' /\ RowsTell'
  <2>1. \A q \in Row : job'[q].stage = "idle" <=> job[q].stage = "idle"
    BY <1>1 DEF Live
  <2>2. Model \subseteq Row
    BY DEF Row
  <2>3. current \in Model \cup {NoModel}
    BY DEF DownloadInv, TypeOK
  <2>4. RowsTell'
    BY <1>3, <2>1, <2>2 DEF DownloadInv, RowsTell
  <2>5. CancelHasDownload'
    BY <1>3, <2>1, <2>2, <2>3 DEF DownloadInv, CancelHasDownload
  <2> QED BY <2>4, <2>5
<1>8. EngineIsSelected'
  BY <1>3, <1>4 DEF DownloadInv, EngineIsSelected
<1>9. RowsFile'
  <2>1. \A m \in Model : m \in Row /\ (job'[m].stage # "idle" => job[m].stage # "idle")
    BY <1>1 DEF Live, Row
  <2> QED BY <1>1, <1>3, <1>4, <2>1 DEF DownloadInv, RowsFile
<1>10. ASSUME "shared" \notin past'
       PROVE  /\ job'[r].stage = "body" => job'[r].at = "part"
              /\ job'[r].stage \in {"publish", "adopt"} => part'[f] = "whole"
              /\ final'[f] = IF job'[r].stage = "ok" THEN "whole" ELSE final[f]
  BY <1>4, <1>10, TaskFiles
<1>11. PublishedIsVerified'
  BY <1>1, <1>4, <1>5, <1>10 DEF DownloadInv, PublishedIsVerified, Published
<1>12. Undisturbed'
  <2> SUFFICES ASSUME "shared" \notin past', NEW q \in Row
               PROVE  /\ job'[q].stage = "body" => job'[q].at = "part"
                      /\ job'[q].stage \in {"publish", "adopt"} => part'[job'[q].file] = "whole"
    BY <1>4 DEF Undisturbed
  <2>1. /\ job[q].stage = "body" => job[q].at = "part"
        /\ job[q].stage \in {"publish", "adopt"} => part[job[q].file] = "whole"
        /\ q # r /\ job[q].stage \in Live => job[q].file # f
    BY <1>1, <1>4 DEF DownloadInv, Undisturbed, Shared
  <2>2. CASE q = r
    BY <1>1, <1>10, <2>2
  <2>3. CASE q # r
    BY <1>1, <1>5, <2>1, <2>3 DEF Live
  <2> QED BY <2>2, <2>3
<1>13. OkIsThere'
  <2> SUFFICES ASSUME past' = {}, NEW m \in Model, job'[m].stage = "ok"
               PROVE  final'[job'[m].file] = "whole"
    BY DEF OkIsThere
  <2>1. m \in Row /\ "shared" \notin past'
    BY DEF Row
  <2>2. CASE m = r
    BY <1>1, <1>10, <2>1, <2>2
  <2>3. CASE m # r
    <3>1. final[job[m].file] = "whole"
      BY <1>1, <1>4, <2>1, <2>3 DEF DownloadInv, OkIsThere
    <3> QED BY <1>1, <1>5, <1>10, <2>1, <3>1
  <2> QED BY <2>2, <2>3
<1> QED BY <1>6, <1>7, <1>8, <1>9, <1>11, <1>12, <1>13 DEF DownloadInv

(* Other steps begin or end downloads, and publish nothing.                *)
LEMMA QuietPreserves ==
  ASSUME DownloadInv, Observed, part' = part,
         \A g \in File : final'[g] \in {final[g], "none"},
         \A q \in Row : job'[q].stage \in {"body", "publish", "adopt"} =>
           /\ job'[q].stage = job[q].stage /\ job'[q].file = job[q].file
           /\ job[q].at = "part" => job'[q].at = "part"
  PROVE  PublishedIsVerified' /\ Undisturbed'
<1>1. "shared" \notin past' => "shared" \notin past /\ ~Shared'
  BY ObservedFacts DEF DownloadInv
<1>2. PublishedIsVerified'
  BY <1>1 DEF DownloadInv, PublishedIsVerified, Published
<1>3. Undisturbed'
  BY <1>1 DEF DownloadInv, Undisturbed
<1> QED BY <1>2, <1>3

(* The store's types, under a save and under the writer.                   *)
LEMMA SaveTypes ==
  ASSUME StoreTypeOK, NEW c \in Config, Save(c)
  PROVE  StoreTypeOK'
BY DEF StoreTypeOK, Save, Submit, progress, Request

LEMMA SameTypes ==
  ASSUME StoreTypeOK, UNCHANGED store
  PROVE  StoreTypeOK'
BY DEF StoreTypeOK, store, queue, progress

LEMMA WriterTypes ==
  ASSUME StoreTypeOK, Writer \/ Quit \/ Flush \/ Crash
  PROVE  StoreTypeOK'
<1>1. NoRequest \in Request
  BY ConfigAssumption DEF NoRequest, Request
<1>2. CASE Take
  BY <1>1, <1>2 DEF StoreTypeOK, Take
<1>3. CASE Write
  BY <1>1, <1>3 DEF StoreTypeOK, Write, queue, Request
<1>4. CASE Quit \/ Flush \/ Crash
  BY <1>4 DEF StoreTypeOK, Quit, Flush, Crash, queue, progress
<1> QED BY <1>2, <1>3, <1>4 DEF Writer

(* A configuration with a field changed.                                   *)
LEMMA ConfigWith ==
  ASSUME NEW c \in Config
  PROVE  /\ c.selected \in Model /\ c.dir \in Dir /\ c.first_run \in BOOLEAN
         /\ \A m \in Model : /\ [c EXCEPT !.selected = m] \in Config
                             /\ [c EXCEPT !.selected = m].selected = m
                             /\ [c EXCEPT !.selected = m].dir = c.dir
         /\ \A m \in Model, b \in BOOLEAN :
              /\ [c EXCEPT !.selected = m, !.first_run = b] \in Config
              /\ [c EXCEPT !.selected = m, !.first_run = b].selected = m
              /\ [c EXCEPT !.selected = m, !.first_run = b].dir = c.dir
              /\ [c EXCEPT !.first_run = b, !.selected = m]
                   = [c EXCEPT !.selected = m, !.first_run = b]
         /\ \A d \in Dir : [c EXCEPT !.dir = d] \in Config /\ [c EXCEPT !.dir = d].dir = d
BY ModelsAssumption

(* A row's download begins.                                                *)
LEMMA ClickPreserves ==
  ASSUME DownloadInv, NEW m \in Model, Click(m), Observed
  PROVE  DownloadInv'
<1>1. /\ TypeOK /\ StoreTypeOK /\ job \in [Row -> Job] /\ m \in Row /\ Model \subseteq Row
      /\ label \in [Model -> {"Download", "Downloading", "Downloaded", "Retry"}]
      /\ MaxActs \in Nat /\ acts \in 0..MaxActs
  BY ModelsAssumption DEF DownloadInv, TypeOK, Row
<1>2. /\ Begun(m) \in Job /\ Begun(m).stage = "check" /\ Begun(m).file = <<cache.dir, m>>
  BY <1>1, BegunType
<1>3. /\ job' = [job EXCEPT ![m] = Begun(m)] /\ label' = [label EXCEPT ![m] = "Downloading"]
      /\ label[m] \in {"Download", "Retry"} /\ current' = m /\ button' = "ready"
      /\ acts' \in 0..MaxActs
      /\ UNCHANGED <<store, cache, final, part, trash, wizard, picked, retry, engine, slips>>
  BY <1>1 DEF Click, Act, store, files, welcome
<1>4. /\ past \subseteq past' /\ past' \subseteq {"shared", "moved"}
  BY <1>1, ObservedFacts
<1>5. job' \in [Row -> Job] /\ job'[m] = Begun(m) /\ \A q \in Row : q # m => job'[q] = job[q]
  BY <1>1, <1>2, <1>3
<1>6. StoreTypeOK'
  BY <1>1, <1>3, SameTypes
<1>7. TypeOK'
  BY <1>1, <1>3, <1>4, <1>5, <1>6 DEF TypeOK
<1>8. CancelHasDownload'
  BY <1>2, <1>3, <1>5, ModelsAssumption DEF CancelHasDownload
<1>9. EngineIsSelected'
  BY <1>3, <1>4 DEF DownloadInv, EngineIsSelected
<1>10. RowsTell'
  BY <1>1, <1>3, <1>5 DEF DownloadInv, RowsTell
<1>11. RowsFile'
  BY <1>1, <1>2, <1>3, <1>4, <1>5 DEF DownloadInv, RowsFile
<1>12. OkIsThere'
  BY <1>1, <1>2, <1>3, <1>4, <1>5 DEF DownloadInv, OkIsThere
<1>13. PublishedIsVerified' /\ Undisturbed'
  BY <1>2, <1>3, <1>5, QuietPreserves
<1> QED BY <1>7, <1>8, <1>9, <1>10, <1>11, <1>12, <1>13 DEF DownloadInv

(* The Cancel button sets the flag of the row it stands for.               *)
LEMMA CancelPreserves ==
  ASSUME DownloadInv, PressCancel, Observed
  PROVE  DownloadInv'
<1>1. /\ TypeOK /\ StoreTypeOK /\ job \in [Row -> Job] /\ Model \subseteq Row
      /\ MaxActs \in Nat /\ acts \in 0..MaxActs /\ current \in Model
  BY ModelsAssumption DEF DownloadInv, TypeOK, Row, CancelHasDownload, PressCancel
<1>2. /\ job' = [job EXCEPT ![current].cancel = TRUE] /\ button' = "pressed"
      /\ acts' \in 0..MaxActs
      /\ UNCHANGED <<store, cache, final, part, label, trash, current, wizard, picked, retry,
                     engine, slips>>
  BY <1>1, ModelsAssumption DEF PressCancel, Act, store, files, welcome
<1>3. /\ job' \in [Row -> Job]
      /\ \A q \in Row : job'[q].stage = job[q].stage /\ job'[q].file = job[q].file
                        /\ job'[q].at = job[q].at
  <2> DEFINE k == [job[current] EXCEPT !.cancel = TRUE]
  <2>1. k \in Job /\ k.stage = job[current].stage /\ k.file = job[current].file
        /\ k.at = job[current].at
    BY <1>1, JobWith
  <2>2. job' = [job EXCEPT ![current] = k]
    BY <1>2
  <2> HIDE DEF k
  <2> QED BY <1>1, <2>1, <2>2
<1>4. /\ past \subseteq past' /\ past' \subseteq {"shared", "moved"}
  BY <1>1, ObservedFacts
<1>5. StoreTypeOK'
  BY <1>1, <1>2, SameTypes
<1>6. TypeOK'
  BY <1>1, <1>2, <1>3, <1>4, <1>5 DEF TypeOK
<1>7. CancelHasDownload' /\ EngineIsSelected'
  BY <1>2, <1>4 DEF DownloadInv, CancelHasDownload, EngineIsSelected
<1>8. RowsTell' /\ RowsFile' /\ OkIsThere'
  BY <1>1, <1>2, <1>3, <1>4 DEF DownloadInv, RowsTell, RowsFile, OkIsThere
<1>9. PublishedIsVerified' /\ Undisturbed'
  BY <1>2, <1>3, QuietPreserves
<1> QED BY <1>6, <1>7, <1>8, <1>9 DEF DownloadInv

(* A row's download is over: its model becomes the selected one.           *)
LEMMA DonePreserves ==
  ASSUME DownloadInv, NEW m \in Model, Done(m), Observed
  PROVE  DownloadInv'
<1>1. /\ TypeOK /\ StoreTypeOK /\ job \in [Row -> Job] /\ m \in Row /\ Model \subseteq Row
      /\ label \in [Model -> {"Download", "Downloading", "Downloaded", "Retry"}]
      /\ cache \in Config /\ trash \subseteq Model
  BY DEF DownloadInv, TypeOK, StoreTypeOK, Row
<1>2. /\ job' = [job EXCEPT ![m] = IdleJob] /\ current' = NoModel /\ button' = "hidden"
      /\ job[m].stage \in Ended
      /\ UNCHANGED <<final, part, wizard, picked, retry, acts, slips>>
  BY DEF Done, files, welcome
<1>3. job' \in [Row -> Job] /\ job'[m].stage = "idle" /\ \A q \in Row : q # m => job'[q] = job[q]
  BY <1>1, <1>2, IdleType
<1>4. /\ past \subseteq past' /\ past' \subseteq {"shared", "moved"}
      /\ past' = {} => past = {} /\ cache'.dir = cache.dir
      /\ "moved" \notin past' => "moved" \notin past /\ cache'.dir = cache.dir
  BY <1>1, ObservedFacts
<1>5. label[m] = "Downloading" /\ m \notin trash
  BY <1>2 DEF DownloadInv, RowsTell, Ended
<1>6. CancelHasDownload'
  BY <1>2 DEF CancelHasDownload
<1>7. RowsFile' /\ OkIsThere'
  BY <1>1, <1>2, <1>3, <1>4 DEF DownloadInv, RowsFile, OkIsThere
<1>8. PublishedIsVerified' /\ Undisturbed'
  BY <1>2, <1>3, QuietPreserves
<1>9. /\ StoreTypeOK' /\ EngineIsSelected' /\ RowsTell' /\ engine' \in Model \cup {NoModel}
      /\ label' \in [Model -> {"Download", "Downloading", "Downloaded", "Retry"}]
      /\ trash' \subseteq Model
  <2>1. CASE job[m].stage = "ok"
    <3>1. /\ label' = [label EXCEPT ![m] = "Downloaded"] /\ trash' = trash \cup {m}
          /\ Save([cache EXCEPT !.selected = m, !.first_run = FALSE])
          /\ engine' = IF Downloaded(cache, m, final) THEN m ELSE engine
      BY <2>1 DEF Done, Loads
    <3>2. StoreTypeOK'
      BY <1>1, <3>1, SaveTypes, ConfigWith
    <3>3. cache'.selected = m
      BY <1>1, <3>1, ConfigWith DEF Save
    <3>4. past = {} => Downloaded(cache, m, final)
      <4>1. past = {} => final[<<cache.dir, m>>] = "whole"
        BY <2>1 DEF DownloadInv, RowsFile, OkIsThere
      <4> QED BY <4>1 DEF Downloaded
    <3>5. EngineIsSelected'
      BY <1>4, <3>1, <3>3, <3>4 DEF EngineIsSelected
    <3>6. RowsTell'
      BY <1>1, <1>3, <1>5, <3>1 DEF DownloadInv, RowsTell
    <3> QED BY <1>1, <3>1, <3>2, <3>5, <3>6 DEF TypeOK
  <2>2. CASE job[m].stage # "ok"
    <3>1. /\ label' = [label EXCEPT ![m] = IF job[m].stage = "cancelled" THEN "Download" ELSE "Retry"]
          /\ UNCHANGED <<store, trash, engine>>
      BY <2>2 DEF Done
    <3>2. PICK t \in {"Download", "Retry"} : label' = [label EXCEPT ![m] = t]
      BY <3>1
    <3>3. StoreTypeOK'
      BY <1>1, <3>1, SameTypes
    <3>4. EngineIsSelected'
      BY <1>4, <3>1 DEF DownloadInv, EngineIsSelected, store
    <3>5. RowsTell'
      BY <1>1, <1>3, <1>5, <3>1, <3>2 DEF DownloadInv, RowsTell
    <3> QED BY <1>1, <3>1, <3>2, <3>3, <3>4, <3>5 DEF TypeOK
  <2> QED BY <2>1, <2>2
<1>10. TypeOK'
  BY <1>1, <1>2, <1>3, <1>4, <1>9 DEF TypeOK
<1> QED BY <1>6, <1>7, <1>8, <1>9, <1>10 DEF DownloadInv

(* A model's file is deleted, and another takes its place as the selected. *)
LEMMA DeletePreserves ==
  ASSUME DownloadInv, NEW m \in Model, Delete(m), Observed
  PROVE  DownloadInv'
<1> DEFINE f == <<cache.dir, m>>
<1>1. /\ TypeOK /\ StoreTypeOK /\ job \in [Row -> Job] /\ Model \subseteq Row
      /\ label \in [Model -> {"Download", "Downloading", "Downloaded", "Retry"}]
      /\ cache \in Config /\ trash \subseteq Model /\ final \in [File -> Content]
      /\ MaxActs \in Nat /\ acts \in 0..MaxActs
  BY ModelsAssumption DEF DownloadInv, TypeOK, StoreTypeOK, Row
<1>2. /\ final' = [final EXCEPT ![f] = "none"]
      /\ job' = [r \in Row |-> IF job[r].file = f /\ job[r].at = "final"
                               THEN [job[r] EXCEPT !.at = "gone"] ELSE job[r]]
      /\ label' = [label EXCEPT ![m] = "Download"] /\ trash' = trash \ {m} /\ m \in trash
      /\ acts' \in 0..MaxActs
      /\ UNCHANGED <<part, current, button, wizard, picked, retry, slips>>
  BY <1>1 DEF Delete, Act, welcome
<1> HIDE DEF f
<1>3. /\ final' \in [File -> Content] /\ \A g \in File : final'[g] \in {final[g], "none"}
      /\ \A g \in File : g # f => final'[g] = final[g]
  BY <1>1, <1>2 DEF Content
<1>4. /\ job' \in [Row -> Job]
      /\ \A q \in Row : job'[q].stage = job[q].stage /\ job'[q].file = job[q].file
      /\ \A q \in Row : job[q].at = "part" => job'[q].at = "part"
  <2>1. \A q \in Row : job'[q] \in {job[q], [job[q] EXCEPT !.at = "gone"]}
                       /\ (job[q].at = "part" => job'[q] = job[q])
    BY <1>2
  <2>2. \A q \in Row : LET k == [job[q] EXCEPT !.at = "gone"] IN
          k \in Job /\ k.stage = job[q].stage /\ k.file = job[q].file
    BY <1>1 DEF Job
  <2>3. \A q \in Row : job'[q] \in Job /\ job'[q].stage = job[q].stage /\ job'[q].file = job[q].file
    BY <1>1, <2>1, <2>2
  <2>4. job' = [q \in Row |-> job'[q]]
    BY <1>2
  <2>5. job' \in [Row -> Job]
    BY <2>3, <2>4
  <2> QED BY <2>1, <2>3, <2>5
<1>5. /\ past \subseteq past' /\ past' \subseteq {"shared", "moved"}
      /\ past' = {} => past = {} /\ cache'.dir = cache.dir
      /\ "moved" \notin past' => "moved" \notin past /\ cache'.dir = cache.dir
  BY <1>1, ObservedFacts
<1>6. CancelHasDownload'
  BY <1>1, <1>2, <1>4, ModelsAssumption DEF DownloadInv, CancelHasDownload, TypeOK
<1>7. RowsTell'
  BY <1>1, <1>2, <1>4 DEF DownloadInv, RowsTell
<1>8. RowsFile'
  BY <1>1, <1>4, <1>5 DEF DownloadInv, RowsFile
<1>9. OkIsThere'
  <2> SUFFICES ASSUME past' = {}, NEW n \in Model, job'[n].stage = "ok"
               PROVE  final'[job'[n].file] = "whole"
    BY DEF OkIsThere
  <2>1. job[n].stage = "ok" /\ n \in Row /\ job[n].file = <<cache.dir, n>> /\ n # m
        /\ final[job[n].file] = "whole"
    BY <1>1, <1>2, <1>4, <1>5 DEF DownloadInv, RowsTell, RowsFile, OkIsThere
  <2>2. job[n].file \in File
    BY <1>1, <2>1 DEF Job
  <2>3. job[n].file # f
    BY <2>1 DEF f
  <2> QED BY <1>3, <1>4, <2>1, <2>2, <2>3
<1>10. PublishedIsVerified' /\ Undisturbed'
  BY <1>2, <1>3, <1>4, QuietPreserves
<1>11. StoreTypeOK' /\ EngineIsSelected' /\ engine' \in Model \cup {NoModel}
  <2>1. \/ UNCHANGED <<store, engine>>
        \/ engine' = NoModel /\ UNCHANGED store
        \/ \E n \in Model : engine' = n /\ Save([cache EXCEPT !.selected = n])
    BY DEF Delete
  <2>2. CASE UNCHANGED <<store, engine>>
    BY <1>1, <1>5, <2>2, SameTypes DEF DownloadInv, EngineIsSelected, TypeOK, store
  <2>3. CASE engine' = NoModel /\ UNCHANGED store
    BY <1>1, <2>3, SameTypes DEF EngineIsSelected
  <2>4. ASSUME NEW n \in Model, engine' = n, Save([cache EXCEPT !.selected = n])
        PROVE  StoreTypeOK' /\ EngineIsSelected' /\ engine' \in Model \cup {NoModel}
    <3>1. StoreTypeOK'
      BY <1>1, <2>4, SaveTypes, ConfigWith
    <3>2. cache' = [cache EXCEPT !.selected = n] /\ n \in Model
      BY <2>4 DEF Save
    <3>3. cache'.selected = n
      BY <1>1, <3>2, ModelsAssumption
    <3> QED BY <2>4, <3>1, <3>3 DEF EngineIsSelected
  <2> QED BY <2>1, <2>2, <2>3, <2>4
<1>12. TypeOK'
  BY <1>1, <1>2, <1>3, <1>4, <1>5, <1>11 DEF TypeOK
<1> QED BY <1>6, <1>7, <1>8, <1>9, <1>10, <1>11, <1>12 DEF DownloadInv

(* Steps of the wizard and the writer, which leave the page, the model     *)
(* files and what is selected alone; the wizard's downloads begin and end. *)
LEMMA ElsewherePreserves ==
  ASSUME DownloadInv, Observed, StoreTypeOK', cache' = cache,
         UNCHANGED <<final, part, label, trash, current, button, engine, slips>>,
         job' \in [Row -> Job], \A m \in Model : job'[m] = job[m],
         \A w \in Slot : job'[w] = job[w] \/ job'[w].stage \in {"idle", "check"},
         wizard' \in {"closed", "welcome", "turning", "open"},
         picked' \in Model \cup {NoModel}, retry' \in BOOLEAN, acts' \in 0..MaxActs
  PROVE  DownloadInv'
<1>1. /\ past \subseteq past' /\ past' \subseteq {"shared", "moved"}
      /\ past' = {} => past = {}
      /\ "moved" \notin past' => "moved" \notin past
  BY ObservedFacts DEF DownloadInv
<1>2. TypeOK'
  BY <1>1 DEF DownloadInv, TypeOK
<1>3. CancelHasDownload'
  BY ModelsAssumption DEF DownloadInv, CancelHasDownload, TypeOK
<1>4. EngineIsSelected'
  BY <1>1 DEF DownloadInv, EngineIsSelected
<1>5. RowsTell' /\ RowsFile' /\ OkIsThere'
  BY <1>1 DEF DownloadInv, RowsTell, RowsFile, OkIsThere
<1>6. \A q \in Row : job'[q] = job[q] \/ job'[q].stage \in {"idle", "check"}
  BY DEF Row
<1>7. PublishedIsVerified' /\ Undisturbed'
  BY <1>6, QuietPreserves
<1> QED BY <1>2, <1>3, <1>4, <1>5, <1>7 DEF DownloadInv

(* The wizard's downloads and pages.                                       *)
LEMMA WizardPreserves ==
  ASSUME DownloadInv, Observed,
         \/ Next1 \/ Turned \/ CloseWizard
         \/ \E m \in Model : WizardClick(m)
         \/ \E w \in Slot : WizardDone(w)
  PROVE  DownloadInv'
<1>1. /\ TypeOK /\ StoreTypeOK /\ job \in [Row -> Job] /\ MaxActs \in Nat /\ acts \in 0..MaxActs
      /\ picked \in Model \cup {NoModel} /\ retry \in BOOLEAN
      /\ wizard \in {"closed", "welcome", "turning", "open"} /\ FirstPick \in Model
      /\ Model \cap Slot = {} /\ Slot \subseteq Row /\ Model \subseteq Row
  BY ModelsAssumption DEF DownloadInv, TypeOK, Row
<1>2. UNCHANGED <<store, cache, final, part, label, trash, current, button, engine, slips>>
  BY DEF Next1, Turned, CloseWizard, WizardClick, WizardDone, store, files, page
<1>3. StoreTypeOK'
  BY <1>1, <1>2, SameTypes
<1>4. acts' \in 0..MaxActs
  BY <1>1 DEF Next1, Turned, CloseWizard, WizardClick, WizardDone, Act
<1>5. ASSUME NEW w \in Slot, NEW k \in Job, job' = [job EXCEPT ![w] = k],
             k.stage \in {"idle", "check"}
      PROVE  /\ job' \in [Row -> Job] /\ \A m \in Model : job'[m] = job[m]
             /\ \A v \in Slot : job'[v] = job[v] \/ job'[v].stage \in {"idle", "check"}
  BY <1>1, <1>5
<1>6. ASSUME NEW m \in Model, WizardDownload(m)
      PROVE  /\ job' \in [Row -> Job] /\ \A n \in Model : job'[n] = job[n]
             /\ \A v \in Slot : job'[v] = job[v] \/ job'[v].stage \in {"idle", "check"}
             /\ picked' \in Model \cup {NoModel} /\ retry' \in BOOLEAN
  <2>1. Begun(m) \in Job /\ Begun(m).stage = "check"
    BY <1>1, BegunType
  <2>2. CASE Downloaded(cache, m, final)
    BY <1>1, <1>6, <2>2 DEF WizardDownload, Completes
  <2>3. CASE ~Downloaded(cache, m, final)
    <3>1. retry' = FALSE /\ picked' = picked
      BY <1>6, <2>3 DEF WizardDownload
    <3>2. PICK w \in Slot : job' = [job EXCEPT ![w] = Begun(m)]
      BY <1>6, <2>3 DEF WizardDownload
    <3> QED BY <1>1, <1>5, <2>1, <3>1, <3>2
  <2> QED BY <2>2, <2>3
<1>7. CASE Next1
  <2>1. wizard' \in {"open", "turning"}
    BY <1>7 DEF Next1
  <2>2. WizardDownload(FirstPick)
    BY <1>7 DEF Next1
  <2> QED BY <1>1, <1>2, <1>3, <1>4, <1>6, <2>1, <2>2, ElsewherePreserves
<1>8. ASSUME NEW m \in Model, WizardClick(m) PROVE DownloadInv'
  <2>1. wizard' = "open" /\ WizardDownload(m)
    BY <1>8 DEF WizardClick
  <2> QED BY <1>1, <1>2, <1>3, <1>4, <1>6, <2>1, ElsewherePreserves
<1>9. CASE Turned \/ CloseWizard
  <2>1. wizard' \in {"open", "closed"} /\ UNCHANGED <<job, picked, retry>>
    BY <1>9 DEF Turned, CloseWizard
  <2> QED BY <1>1, <1>2, <1>3, <1>4, <2>1, ElsewherePreserves
<1>10. ASSUME NEW w \in Slot, WizardDone(w) PROVE DownloadInv'
  <2>1. job' = [job EXCEPT ![w] = IdleJob]
    BY <1>10 DEF WizardDone
  <2>2. /\ job' \in [Row -> Job] /\ \A m \in Model : job'[m] = job[m]
        /\ \A v \in Slot : job'[v] = job[v] \/ job'[v].stage \in {"idle", "check"}
    BY <1>5, <2>1, IdleType
  <2>3. job[w].file[2] \in Model
    BY <1>1 DEF Job, File
  <2>4. /\ wizard' \in {wizard, "open"} /\ picked' \in {picked, job[w].file[2]}
        /\ retry' \in {retry, TRUE, FALSE}
    BY <1>10 DEF WizardDone, Completes, welcome
  <2>5. /\ wizard' \in {"closed", "welcome", "turning", "open"}
        /\ picked' \in Model \cup {NoModel}
    BY <1>1, <2>3, <2>4
  <2>6. retry' \in BOOLEAN
    BY <1>1, <2>4, Zenon
  <2> QED BY <1>1, <1>2, <1>3, <1>4, <2>2, <2>5, <2>6, ElsewherePreserves
<1> QED BY <1>7, <1>8, <1>9, <1>10

(* The writer, the flush and a crash.                                      *)
LEMMA StorePreserves ==
  ASSUME DownloadInv, Store, Observed
  PROVE  DownloadInv'
<1>1. /\ TypeOK /\ StoreTypeOK /\ job \in [Row -> Job] /\ acts \in 0..MaxActs
      /\ picked \in Model \cup {NoModel} /\ retry \in BOOLEAN
      /\ wizard \in {"closed", "welcome", "turning", "open"}
  BY DEF DownloadInv, TypeOK
<1>2. StoreTypeOK'
  BY <1>1, WriterTypes DEF Store
<1>3. UNCHANGED <<cache, final, part, label, trash, current, button, engine, slips, job, acts,
                  wizard, picked, retry>>
  BY DEF Store, files, page, welcome, Writer, Take, Write, Quit, Flush, Crash
<1> QED BY <1>1, <1>2, <1>3, ElsewherePreserves

(* Another directory: no row is looked at again, which the past tells.     *)
LEMMA DirPreserves ==
  ASSUME DownloadInv, NEW d \in Dir, ChangeDir(d), Observed
  PROVE  DownloadInv'
<1>1. /\ TypeOK /\ StoreTypeOK /\ MaxActs \in Nat /\ acts \in 0..MaxActs /\ cache \in Config
  BY ModelsAssumption DEF DownloadInv, TypeOK, StoreTypeOK
<1>2. /\ UNCHANGED <<final, part, job, label, trash, current, button, wizard, picked, retry,
                     engine, slips>>
      /\ acts' \in 0..MaxActs /\ d # cache.dir
      /\ Save([cache EXCEPT !.dir = d])
  BY <1>1 DEF ChangeDir, Act, files, page, welcome
<1>3. StoreTypeOK' /\ cache'.dir = d
  BY <1>1, <1>2, SaveTypes, ConfigWith DEF Save
<1>4. past' \subseteq {"shared", "moved"} /\ "moved" \in past'
  BY <1>1, <1>2, <1>3, ObservedFacts
<1>5. TypeOK'
  BY <1>1, <1>2, <1>3, <1>4 DEF TypeOK
<1>6. CancelHasDownload' /\ RowsTell'
  BY <1>2 DEF DownloadInv, CancelHasDownload, RowsTell
<1>7. EngineIsSelected' /\ RowsFile' /\ OkIsThere'
  BY <1>4 DEF EngineIsSelected, RowsFile, OkIsThere
<1>8. PublishedIsVerified' /\ Undisturbed'
  BY <1>2, QuietPreserves
<1> QED BY <1>5, <1>6, <1>7, <1>8 DEF DownloadInv

(* The wizard selects what it has downloaded.                              *)
LEMMA StartedPreserves ==
  ASSUME DownloadInv, GetStarted, Observed
  PROVE  DownloadInv'
<1>1. /\ TypeOK /\ StoreTypeOK /\ MaxActs \in Nat /\ acts \in 0..MaxActs /\ cache \in Config
      /\ picked \in Model
  BY ModelsAssumption DEF DownloadInv, TypeOK, StoreTypeOK, GetStarted
<1>2. /\ UNCHANGED <<final, part, job, label, trash, current, button, picked, retry, slips>>
      /\ acts' \in 0..MaxActs /\ engine' = picked /\ wizard' = "closed"
      /\ Save([cache EXCEPT !.first_run = FALSE, !.selected = picked])
  BY <1>1 DEF GetStarted, Act, files, page
<1>3. StoreTypeOK' /\ cache'.selected = picked
  <2> DEFINE c == [cache EXCEPT !.first_run = FALSE, !.selected = picked]
  <2>1. c \in Config /\ c.selected = picked
    BY <1>1, ModelsAssumption
  <2>2. Save(c)
    BY <1>2
  <2> HIDE DEF c
  <2> QED BY <1>1, <2>1, <2>2, SaveTypes DEF Save
<1>4. /\ past \subseteq past' /\ past' \subseteq {"shared", "moved"}
      /\ past' = {} => past = {} /\ cache'.dir = cache.dir
      /\ "moved" \notin past' => "moved" \notin past /\ cache'.dir = cache.dir
  BY <1>1, ObservedFacts
<1>5. TypeOK'
  BY <1>1, <1>2, <1>3, <1>4 DEF TypeOK
<1>6. CancelHasDownload' /\ RowsTell' /\ EngineIsSelected'
  BY <1>2, <1>3 DEF DownloadInv, CancelHasDownload, RowsTell, EngineIsSelected
<1>7. RowsFile' /\ OkIsThere'
  BY <1>2, <1>4 DEF DownloadInv, RowsFile, OkIsThere
<1>8. PublishedIsVerified' /\ Undisturbed'
  BY <1>2, QuietPreserves
<1> QED BY <1>5, <1>6, <1>7, <1>8 DEF DownloadInv

(* What a start loads.                                                     *)
LEMMA LoadedType ==
  ASSUME TypeOK
  PROVE  Loaded \in Config /\ Present(Loaded, final) \in Model \cup {NoModel}
<1>1. Loaded \in Config
  BY ConfigAssumption DEF Loaded, TypeOK, StoreTypeOK
<1>2. Loaded.selected \in Model /\ Sibling[Loaded.selected] \in Model
  BY <1>1, ModelsAssumption
<1> QED BY <1>1, <1>2 DEF Present

(* A start shows the model files as they are, without any download.        *)
LEMMA StartPreserves ==
  ASSUME DownloadInv, Start, Observed
  PROVE  DownloadInv'
<1> DEFINE m == Present(Loaded, final)
           corrects == m # NoModel /\ m # Loaded.selected
           c == IF corrects THEN [Loaded EXCEPT !.selected = m] ELSE Loaded
           n == LoadSaves.seq + (IF corrects THEN 1 ELSE 0)
<1>1. /\ TypeOK /\ StoreTypeOK /\ MaxActs \in Nat /\ acts \in 0..MaxActs
      /\ disk \in Config \cup {NoFile} /\ Default \in Config
  BY ModelsAssumption, ConfigAssumption DEF DownloadInv, TypeOK, StoreTypeOK
<1>2. /\ cache' = c /\ engine' = m /\ requested' = n
      /\ pending' = IF n = 0 THEN NoRequest ELSE [seq |-> n, config |-> c]
      /\ Shown(c, final)
  BY DEF Start
<1>3. /\ life' = "running" /\ flushed' = "no" /\ completed' = 0 /\ failed' = FALSE
      /\ writing' = NoRequest /\ acts' \in 0..MaxActs
      /\ job' = [r \in Row |-> IdleJob]
      /\ UNCHANGED <<disk, final, part, slips>>
  BY <1>1 DEF Start, files
<1>4. Loaded \in Config /\ m \in Model \cup {NoModel}
  BY <1>1, LoadedType
<1>5. LoadSaves.seq \in {0, 1}
  BY DEF LoadSaves, NoRequest
<1>6. n \in Nat
  BY <1>5
<1>7. c \in Config /\ (m # NoModel => c.selected = m)
  <2> HIDE DEF m
  <2>1. CASE corrects
    <3>1. m \in Model /\ c = [Loaded EXCEPT !.selected = m]
      BY <1>4, <2>1
    <3> QED BY <1>4, <3>1, ModelsAssumption
  <2>2. CASE ~corrects
    BY <1>4, <2>2
  <2> QED BY <2>1, <2>2
<1> HIDE DEF m, c, n
<1>8. NoRequest \in Request /\ (IF n = 0 THEN NoRequest ELSE [seq |-> n, config |-> c]) \in Request
  BY <1>1, <1>6, <1>7 DEF NoRequest, Request
<1>9. StoreTypeOK'
  BY <1>1, <1>2, <1>3, <1>6, <1>7, <1>8 DEF StoreTypeOK
<1>10. /\ job' \in [Row -> Job] /\ \A q \in Row : job'[q].stage = "idle"
  BY <1>3, IdleType
<1>11. past' \subseteq {"shared", "moved"}
  BY <1>1, ObservedFacts
<1>12. /\ label' = [k \in Model |-> IF Downloaded(c, k, final) THEN "Downloaded" ELSE "Download"]
       /\ trash' = {k \in Model : Downloaded(c, k, final)}
       /\ current' = NoModel /\ button' = "hidden"
       /\ wizard' = (IF c.first_run THEN "welcome" ELSE "closed")
       /\ picked' = NoModel /\ retry' = TRUE
  BY <1>2 DEF Shown
<1>13. TypeOK'
  <2>1. label' \in [Model -> {"Download", "Downloading", "Downloaded", "Retry"}]
        /\ trash' \subseteq Model
    BY <1>12
  <2>2. final' \in [File -> Content] /\ part' \in [File -> Content] /\ slips' \in 0..MaxSlips
    BY <1>1, <1>3 DEF TypeOK
  <2> QED BY <1>2, <1>3, <1>4, <1>9, <1>10, <1>11, <1>12, <2>1, <2>2 DEF TypeOK
<1>14. CancelHasDownload' /\ EngineIsSelected'
  BY <1>2, <1>7, <1>12 DEF CancelHasDownload, EngineIsSelected
<1>15. \A k \in Model : job'[k].stage = "idle"
  BY <1>10 DEF Row
<1>16. RowsTell' /\ RowsFile' /\ OkIsThere'
  BY <1>12, <1>15 DEF RowsTell, RowsFile, OkIsThere
<1>17. PublishedIsVerified' /\ Undisturbed'
  BY <1>3, <1>10, QuietPreserves
<1> QED BY <1>13, <1>14, <1>16, <1>17 DEF DownloadInv

(* The first start: no configuration or no models.                         *)
LEMMA InitDownloads == Init => DownloadInv
<1> SUFFICES ASSUME Init PROVE DownloadInv
  OBVIOUS
<1>1. Default \in Config /\ [Default EXCEPT !.first_run = FALSE] \in Config
  BY ConfigAssumption, ModelsAssumption
<1>2. disk \in Config \cup {NoFile} /\ Loaded \in Config
  BY <1>1 DEF Init, Loaded
<1>3. NoRequest \in Request /\ LoadSaves \in Request /\ LoadSaves.seq \in Nat
  BY <1>1 DEF NoRequest, LoadSaves, Request
<1>4. StoreTypeOK
  BY <1>2, <1>3 DEF Init, StoreInit, StoreTypeOK
<1>5. job \in [Row -> Job] /\ \A q \in Row : job[q].stage = "idle"
  BY IdleType DEF Init
<1>6. TypeOK
  BY <1>4, <1>5, ModelsAssumption DEF Init, TypeOK, Content
<1>7. ~Shared
  BY <1>5 DEF Shared, Live
<1>8. Undisturbed /\ PublishedIsVerified
  BY <1>5, <1>7 DEF Init, Undisturbed, PublishedIsVerified, Published
<1>9. \A m \in Model : job[m].stage = "idle"
  BY <1>5 DEF Row
<1>10. CancelHasDownload /\ EngineIsSelected /\ RowsTell /\ RowsFile /\ OkIsThere
  BY <1>9 DEF Init, CancelHasDownload, EngineIsSelected, RowsTell, RowsFile, OkIsThere
<1> QED BY <1>6, <1>8, <1>10 DEF DownloadInv

(* So every step preserves the invariant.                                  *)
LEMMA StepPreserves == DownloadInv /\ [Next]_vars => DownloadInv'
<1>1. ASSUME DownloadInv, Step, Observed PROVE DownloadInv'
  BY <1>1, ClickPreserves, CancelPreserves, DeletePreserves, DirPreserves, StartedPreserves,
     StartPreserves, WizardPreserves, TaskPreserves, DonePreserves, StorePreserves
     DEF Step, User
<1>2. ASSUME DownloadInv, UNCHANGED vars PROVE DownloadInv'
  <2> USE DEF vars, store, queue, progress, files, page, welcome
  <2>1. TypeOK'
    BY <1>2 DEF DownloadInv, TypeOK, StoreTypeOK
  <2>2. PublishedIsVerified' /\ CancelHasDownload' /\ EngineIsSelected' /\ RowsTell' /\ RowsFile'
    BY <1>2 DEF DownloadInv, PublishedIsVerified, Published, CancelHasDownload, EngineIsSelected,
       RowsTell, RowsFile
  <2>3. Undisturbed' /\ OkIsThere'
    BY <1>2 DEF DownloadInv, Undisturbed, Shared, OkIsThere
  <2> QED BY <2>1, <2>2, <2>3 DEF DownloadInv
<1> QED BY <1>1, <1>2 DEF Next

(* Whatever is cut, resumed, cancelled, deleted or restarted: only         *)
(* verified files take a model's name while no two downloads share a       *)
(* partial file; a Cancel button that can be pressed has a download to     *)
(* stop; and the window runs the model that is selected while the          *)
(* directory stays.                                                        *)
THEOREM DownloadSafetyAlways == Spec => []DownloadSafety
<1>1. DownloadInv => DownloadSafety
  BY DEF DownloadInv, DownloadSafety
<1> QED BY <1>1, InitDownloads, StepPreserves, PTL DEF Spec

------------------------------------------------------------------------------
(* What the sidecars need on the disk.                                     *)

(* A model and a runtime have phases of their own.                         *)
PhaseFits ==
  \A k \in Kind :
    /\ phase[<<k, "model">>] \in
         {"idle", "begin", "weights", "verify", "tables", "sentinel", "ok", "failed"}
    /\ phase[<<k, "runtime">>] \in {"idle", "fetch", "replace", "install", "ok", "failed"}

(* A row is at work exactly while its thing is.                            *)
RowsWork == \A t \in Thing : phase[t] # "idle" <=> row[t] = "Downloading"

(* How far a model's download is says what its directory holds; the        *)
(* sentinel is away all the while.                                         *)
ModelWork ==
  \A k \in Kind :
    /\ phase[<<k, "model">>] \in {"weights", "verify", "tables", "sentinel"} => k \notin sentinel
    /\ phase[<<k, "model">>] \in {"tables", "sentinel"} => held[k]["weights"] = "whole"
    /\ phase[<<k, "model">>] = "sentinel" => held[k]["tables"] # "none"
    /\ phase[<<k, "model">>] = "ok" => \A f \in ModelFile : held[k][f] # "none"

(* A runtime that was installed is whole when the page hears of it.        *)
RuntimeWork == \A k \in Kind : phase[<<k, "runtime">>] = "ok" => tree[k] = Piece

(* No file of Parakeet takes its name unverified.                          *)
ParakeetVerified == \A f \in ModelFile : held["parakeet"][f] # "bad"

(* Qwen's runtime, in place or put aside, is whole or gone, and its        *)
(* sentinel stands over both files, unless a deletion stopped half-way:    *)
(* Qwen looks at one file only.                                            *)
QwenWhole ==
  /\ <<"qwen", "runtime">> \notin torn => tree["qwen"] \in {{}, Piece} /\ aside \in {{}, Piece}
  /\ <<"qwen", "model">> \notin torn /\ "qwen" \in sentinel =>
       \A f \in ModelFile : held["qwen"][f] # "none"

(* The invariant behind FilesSafety.                                       *)
FilesInv ==
  /\ FilesSafety /\ PhaseFits /\ RowsWork /\ ModelWork /\ RuntimeWork
  /\ ParakeetVerified /\ QwenWhole

(* Nothing is there at first.                                              *)
LEMMA FilesInitHolds == FilesInit => FilesInv
<1> SUFFICES ASSUME FilesInit PROVE FilesInv
  OBVIOUS
<1>1. \A t \in Thing : ~Ready(t)
  BY DEF FilesInit, Ready, Installed, ModelDownloaded, Thing, Kind
<1>2. FilesTypeOK
  BY <1>1, SidecarFilesAssumption DEF FilesInit, FilesTypeOK, Rows, Phase
<1>3. SentinelMeansVerified /\ DownloadedIsComplete
  BY <1>1 DEF FilesInit, Rows, SentinelMeansVerified, DownloadedIsComplete, ModelDownloaded
<1>4. PhaseFits /\ RowsWork /\ ModelWork /\ RuntimeWork /\ ParakeetVerified /\ QwenWhole
  BY <1>1 DEF FilesInit, Rows, PhaseFits, RowsWork, ModelWork, RuntimeWork, ParakeetVerified,
    QwenWhole, Thing, Kind, ModelFile
<1> QED BY <1>2, <1>3, <1>4 DEF FilesInv, FilesSafety


(* Things are told apart by their kind and by their half.                  *)
LEMMA ThingFacts ==
  /\ \A k \in Kind : <<k, "model">> \in Thing /\ <<k, "runtime">> \in Thing
  /\ \A j, k \in Kind : <<j, "model">> # <<k, "runtime">>
  /\ \A j, k \in Kind, h \in {"model", "runtime"} : <<j, h>> = <<k, h>> => j = k
  /\ \A t \in Thing : /\ t[1] \in Kind /\ t[2] \in {"runtime", "model"}
                      /\ t = <<t[1], t[2]>>
BY DEF Thing, Kind

(* A step of a download changes the phase of its thing, from one at work   *)
(* to another, and no row.                                                 *)
LEMMA TaskStep ==
  ASSUME FilesTypeOK, RowsWork, NEW t \in Thing, NEW p \in Phase \ {"idle"},
         phase[t] # "idle", Goes(t, p), Alone
  PROVE  /\ phase' \in [Thing -> Phase] /\ phase'[t] = p
         /\ \A s \in Thing : s # t => phase'[s] = phase[s]
         /\ RowsWork' /\ UNCHANGED <<row, torn, fileActs, ends>>
         /\ row[t] = "Downloading" /\ row' \in [Thing -> {"Download", "Downloading", "Downloaded", "Retry"}]
         /\ torn' \subseteq Thing /\ fileActs' \in 0..MaxFileActs /\ ends' \in 0..MaxEnds
BY DEF FilesTypeOK, RowsWork, Goes, Alone

(* What a step of a model's download leaves to show: the runtimes, the     *)
(* other model and the rows are as they were.                              *)
LEMMA ModelStep ==
  ASSUME FilesInv, NEW k \in Kind,
         NEW p \in {"weights", "verify", "tables", "sentinel", "ok", "failed"},
         phase[<<k, "model">>] # "idle", Goes(<<k, "model">>, p), Alone,
         UNCHANGED <<tree, aside>>,
         held' \in [Kind -> [ModelFile -> {"none", "whole", "bad"}]],
         \A j \in Kind \ {k} : held'[j] = held[j] /\ (j \in sentinel' <=> j \in sentinel),
         sentinel' \subseteq Kind,
         p \in {"weights", "verify", "tables", "sentinel"} => k \notin sentinel',
         p \in {"tables", "sentinel"} => held'[k]["weights"] = "whole",
         p = "sentinel" => held'[k]["tables"] # "none",
         p = "ok" => \A f \in ModelFile : held'[k][f] # "none",
         k = "parakeet" => \A f \in ModelFile : held'[k][f] # "bad",
         k \in sentinel' => /\ held'[k]["weights"] # "bad"
                            /\ k = "qwen" => <<k, "model">> \in torn
                                  \/ \A f \in ModelFile : held'[k][f] # "none"
  PROVE  FilesInv'
<1> DEFINE t == <<k, "model">>
<1>1. /\ t \in Thing /\ p \in Phase \ {"idle"} /\ FilesTypeOK /\ RowsWork /\ PhaseFits /\ ModelWork
      /\ RuntimeWork /\ ParakeetVerified /\ QwenWhole /\ SentinelMeansVerified /\ DownloadedIsComplete
  BY ThingFacts DEF FilesInv, FilesSafety, Phase
<1>2. /\ phase' \in [Thing -> Phase] /\ phase'[t] = p
      /\ \A s \in Thing : s # t => phase'[s] = phase[s]
      /\ RowsWork' /\ UNCHANGED <<row, torn, fileActs, ends>>
      /\ row[t] = "Downloading" /\ row' \in [Thing -> {"Download", "Downloading", "Downloaded", "Retry"}]
      /\ torn' \subseteq Thing /\ fileActs' \in 0..MaxFileActs /\ ends' \in 0..MaxEnds
  <2> HIDE DEF t
  <2> QED BY <1>1, TaskStep DEF t
<1>3. /\ \A j \in Kind : phase'[<<j, "runtime">>] = phase[<<j, "runtime">>]
      /\ \A j \in Kind \ {k} : phase'[<<j, "model">>] = phase[<<j, "model">>]
  BY <1>2, ThingFacts
<1>4. FilesTypeOK'
  BY <1>1, <1>2, <1>3 DEF FilesTypeOK, Kind
<1>5. PhaseFits' /\ RuntimeWork'
  <2>1. \A j \in Kind : phase'[<<j, "model">>] \in
         {"idle", "begin", "weights", "verify", "tables", "sentinel", "ok", "failed"}
    BY <1>1, <1>2, <1>3 DEF PhaseFits
  <2> QED BY <1>1, <1>3, <2>1 DEF PhaseFits, RuntimeWork
<1>6. ModelWork'
  <2>1. ASSUME NEW j \in Kind, j # k PROVE
          /\ phase'[<<j, "model">>] \in {"weights", "verify", "tables", "sentinel"} => j \notin sentinel'
          /\ phase'[<<j, "model">>] \in {"tables", "sentinel"} => held'[j]["weights"] = "whole"
          /\ phase'[<<j, "model">>] = "sentinel" => held'[j]["tables"] # "none"
          /\ phase'[<<j, "model">>] = "ok" => \A f \in ModelFile : held'[j][f] # "none"
    BY <1>1, <1>3, <2>1 DEF ModelWork
  <2> QED BY <1>2, <2>1 DEF ModelWork
<1>7. ParakeetVerified' /\ SentinelMeansVerified' /\ QwenWhole'
  <2>1. ParakeetVerified'
    BY <1>1 DEF ParakeetVerified, Kind
  <2>2. SentinelMeansVerified'
    BY <1>1, <2>1 DEF SentinelMeansVerified, ParakeetVerified, ModelFile
  <2>3. QwenWhole'
    BY <1>1, <1>2 DEF QwenWhole, Kind
  <2> QED BY <2>1, <2>2, <2>3
<1>8. DownloadedIsComplete'
  <2>1. ASSUME NEW s \in Thing \ torn', row'[s] = "Downloaded", phase'[s] = "idle"
        PROVE  IF s[2] = "runtime" THEN tree'[s[1]] = Piece
               ELSE \A f \in ModelFile : held'[s[1]][f] # "none"
    <3>1. s \in Thing \ torn /\ s # t /\ row[s] = "Downloaded" /\ phase[s] = "idle"
      BY <1>2, <2>1
    <3>2. IF s[2] = "runtime" THEN tree[s[1]] = Piece
          ELSE \A f \in ModelFile : held[s[1]][f] # "none"
      BY <1>1, <3>1 DEF DownloadedIsComplete
    <3>3. s[2] = "runtime" \/ s[1] \in Kind \ {k}
      BY <3>1, ThingFacts
    <3> QED BY <3>2, <3>3
  <2>2. ModelDownloaded("parakeet")' => \A f \in ModelFile : held'["parakeet"][f] = "whole"
    BY <1>7 DEF ModelDownloaded, ParakeetVerified, Kind
  <2> QED BY <2>1, <2>2 DEF DownloadedIsComplete
<1> QED BY <1>2, <1>4, <1>5, <1>6, <1>7, <1>8 DEF FilesInv, FilesSafety

(* The sentinel goes first.                                                *)
LEMMA BeginModelPreserves ==
  ASSUME FilesInv, NEW k \in Kind, BeginModel(k)
  PROVE  FilesInv'
<1>1. PICK p \in {"weights", "failed"} : Goes(<<k, "model">>, p)
  BY DEF BeginModel
<1>2. /\ phase[<<k, "model">>] # "idle" /\ Alone /\ sentinel' = sentinel \ {k}
      /\ UNCHANGED <<held, tree, aside>>
      /\ FilesTypeOK /\ ParakeetVerified
  BY DEF FilesInv, FilesSafety, BeginModel
<1> QED
  BY ONLY <1>1, <1>2, FilesInv, k \in Kind, ModelStep DEF FilesTypeOK, ParakeetVerified

(* A file of Parakeet is kept, refused, or replaced by a verified one.     *)
LEMMA VerifiedFilePreserves ==
  ASSUME FilesInv, NEW f \in ModelFile, VerifiedFile("parakeet", f)
  PROVE  FilesInv'
<1> DEFINE k == "parakeet"
<1>1. /\ k \in Kind /\ f \in {"weights", "tables"} /\ phase[<<k, "model">>] = f
      /\ After(f) \in {"tables", "sentinel"} /\ After(f) = IF f = "weights" THEN "tables" ELSE "sentinel"
      /\ FilesTypeOK /\ ParakeetVerified /\ ModelWork
      /\ Alone /\ UNCHANGED <<sentinel, tree, aside>>
  BY DEF FilesInv, FilesSafety, VerifiedFile, Kind, ModelFile, After
<1>2. /\ phase[<<k, "model">>] # "idle" /\ k \notin sentinel
      /\ sentinel' \subseteq Kind /\ k \notin sentinel'
      /\ \A j \in Kind \ {k} : j \in sentinel' <=> j \in sentinel
      /\ f = "tables" => held[k]["weights"] = "whole"
  BY <1>1 DEF ModelWork, FilesTypeOK
<1>3. CASE Goes(<<k, "model">>, "failed") /\ held' = held
  <2>1. "failed" \in {"weights", "verify", "tables", "sentinel", "ok", "failed"}
    OBVIOUS
  <2> QED
    BY ONLY <1>1, <1>2, <1>3, <2>1, FilesInv, ModelStep DEF FilesTypeOK, ParakeetVerified
<1>4. CASE /\ Goes(<<k, "model">>, After(f))
           /\ (held' = held /\ held[k][f] = "whole") \/ Puts(k, f, "whole")
  <2>1. /\ held' \in [Kind -> [ModelFile -> {"none", "whole", "bad"}]]
        /\ held'[k][f] = "whole" /\ \A g \in ModelFile \ {f} : held'[k][g] = held[k][g]
        /\ \A j \in Kind \ {k} : held'[j] = held[j]
    BY <1>1, <1>4 DEF FilesTypeOK, Puts
  <2>2. \A g \in ModelFile : held'[k][g] # "bad"
    BY <1>1, <2>1 DEF ParakeetVerified
  <2>3. /\ After(f) \in {"tables", "sentinel"} => held'[k]["weights"] = "whole"
        /\ After(f) = "sentinel" => held'[k]["tables"] # "none"
    BY <1>1, <1>2, <2>1 DEF ModelFile
  <2> QED
    BY ONLY <1>1, <1>2, <1>4, <2>1, <2>2, <2>3, FilesInv, ModelStep
<1> QED BY <1>1, <1>3, <1>4 DEF VerifiedFile

(* The three steps that fetch and verify Qwen's files.                     *)
LEMMA QwenFilePreserves ==
  ASSUME FilesInv, FetchWeights \/ VerifyWeights \/ FetchTables
  PROVE  FilesInv'
<1> DEFINE k == "qwen"
<1>1. /\ k \in Kind /\ phase[<<k, "model">>] \in {"weights", "verify", "tables"}
      /\ FilesTypeOK /\ ModelWork /\ Alone /\ UNCHANGED <<sentinel, tree, aside>>
  BY DEF FilesInv, FilesSafety, FetchWeights, VerifyWeights, FetchTables, Kind
<1>2. /\ phase[<<k, "model">>] # "idle" /\ k \notin sentinel
      /\ sentinel' \subseteq Kind /\ k \notin sentinel'
      /\ \A j \in Kind \ {k} : j \in sentinel' <=> j \in sentinel
      /\ phase[<<k, "model">>] = "tables" => held[k]["weights"] = "whole"
  BY <1>1 DEF ModelWork, FilesTypeOK
<1>3. PICK p \in {"verify", "tables", "sentinel", "failed"} :
        /\ Goes(<<k, "model">>, p)
        /\ p \in {"tables", "sentinel"} => held'[k]["weights"] = "whole"
        /\ p = "sentinel" => held'[k]["tables"] # "none"
  <2>1. CASE FetchWeights
    BY <1>1, <2>1 DEF FetchWeights, FilesTypeOK, Puts
  <2>2. CASE VerifyWeights
    BY <1>1, <2>2 DEF VerifyWeights, FilesTypeOK, Puts
  <2>3. CASE FetchTables
    <3>1. \/ /\ held'[k]["weights"] = held[k]["weights"]
             /\ held'[k]["tables"] # "none" /\ Goes(<<k, "model">>, "sentinel")
          \/ Goes(<<k, "model">>, "failed")
      BY <1>1, <2>3 DEF FetchTables, FilesTypeOK, Puts, ModelFile
    <3>2. held[k]["weights"] = "whole"
      BY <1>2, <2>3 DEF FetchTables
    <3> QED BY <3>1, <3>2
  <2> QED BY <2>1, <2>2, <2>3
<1>4. /\ held' \in [Kind -> [ModelFile -> {"none", "whole", "bad"}]]
      /\ \A j \in Kind \ {k} : held'[j] = held[j]
  <2>1. CASE UNCHANGED held
    BY <1>1, <2>1 DEF FilesTypeOK
  <2>2. CASE \E f \in ModelFile, c \in {"none", "whole", "bad"} : Puts(k, f, c)
    BY <1>1, <2>2 DEF FilesTypeOK, Puts
  <2> QED BY <2>1, <2>2 DEF FetchWeights, VerifyWeights, FetchTables, ModelFile
<1> QED
  BY ONLY <1>1, <1>2, <1>3, <1>4, FilesInv, ModelStep

(* The sentinel comes last.                                                *)
LEMMA EndModelPreserves ==
  ASSUME FilesInv, NEW k \in Kind, EndModel(k)
  PROVE  FilesInv'
<1>1. /\ FilesTypeOK /\ ModelWork /\ ParakeetVerified /\ phase[<<k, "model">>] = "sentinel"
      /\ Alone /\ UNCHANGED <<held, tree, aside>>
  BY DEF FilesInv, FilesSafety, EndModel
<1>2. /\ k \notin sentinel /\ held[k]["weights"] = "whole" /\ held[k]["tables"] # "none"
      /\ \A f \in ModelFile : held[k][f] # "none"
  BY <1>1 DEF ModelWork, ModelFile
<1>3. PICK p \in {"ok", "failed"} :
        /\ Goes(<<k, "model">>, p) /\ sentinel' = IF p = "ok" THEN sentinel \cup {k} ELSE sentinel
  BY DEF EndModel
<1>4. /\ held' \in [Kind -> [ModelFile -> {"none", "whole", "bad"}]] /\ sentinel' \subseteq Kind
      /\ \A j \in Kind \ {k} : held'[j] = held[j] /\ (j \in sentinel' <=> j \in sentinel)
      /\ k = "parakeet" => \A f \in ModelFile : held'[k][f] # "bad"
      /\ phase[<<k, "model">>] # "idle"
      /\ held'[k]["weights"] # "bad" /\ \A f \in ModelFile : held'[k][f] # "none"
  BY <1>1, <1>2, <1>3 DEF FilesTypeOK, ParakeetVerified
<1>5. p \in {"weights", "verify", "tables", "sentinel", "ok", "failed"} /\ p \in {"ok", "failed"}
  OBVIOUS
<1> QED
  BY ONLY <1>1, <1>3, <1>4, <1>5, k \in Kind, FilesInv, ModelStep

(* A step of a runtime's download: the models are as they were.            *)
LEMMA RuntimeStep ==
  ASSUME FilesInv, NEW k \in Kind, NEW p \in {"replace", "install", "ok", "failed"},
         phase[<<k, "runtime">>] # "idle", Goes(<<k, "runtime">>, p), Alone,
         UNCHANGED <<held, sentinel>>,
         tree' \in [Kind -> SUBSET Piece], aside' \subseteq Piece,
         \A j \in Kind \ {k} : tree'[j] = tree[j],
         k = "parakeet" => UNCHANGED aside,
         k = "qwen" => /\ aside' # {} => p = "install"
                       /\ <<k, "runtime">> \notin torn =>
                            tree'[k] \in {{}, Piece} /\ aside' \in {{}, Piece},
         p = "ok" => tree'[k] = Piece
  PROVE  FilesInv'
<1> DEFINE t == <<k, "runtime">>
<1>1. /\ t \in Thing /\ p \in Phase \ {"idle"} /\ FilesTypeOK /\ RowsWork /\ PhaseFits /\ ModelWork
      /\ RuntimeWork /\ ParakeetVerified /\ QwenWhole /\ SentinelMeansVerified /\ DownloadedIsComplete
  BY ThingFacts DEF FilesInv, FilesSafety, Phase
<1>2. /\ phase' \in [Thing -> Phase] /\ phase'[t] = p
      /\ \A s \in Thing : s # t => phase'[s] = phase[s]
      /\ RowsWork' /\ UNCHANGED <<row, torn, fileActs, ends>>
      /\ row[t] = "Downloading" /\ row' \in [Thing -> {"Download", "Downloading", "Downloaded", "Retry"}]
      /\ torn' \subseteq Thing /\ fileActs' \in 0..MaxFileActs /\ ends' \in 0..MaxEnds
  <2> HIDE DEF t
  <2> QED BY <1>1, TaskStep DEF t
<1>3. /\ \A j \in Kind : phase'[<<j, "model">>] = phase[<<j, "model">>]
      /\ \A j \in Kind \ {k} : phase'[<<j, "runtime">>] = phase[<<j, "runtime">>]
  BY <1>2, ThingFacts
<1>4. FilesTypeOK'
  <2>1. aside' # {} => phase'[<<"qwen", "runtime">>] = "install"
    BY <1>1, <1>2, <1>3 DEF FilesTypeOK, Kind
  <2> QED BY <1>1, <1>2, <2>1 DEF FilesTypeOK
<1>5. PhaseFits' /\ RuntimeWork' /\ ModelWork'
  <2>1. \A j \in Kind : phase'[<<j, "runtime">>] \in
          {"idle", "fetch", "replace", "install", "ok", "failed"}
    BY <1>1, <1>2, <1>3 DEF PhaseFits
  <2>2. \A j \in Kind : phase'[<<j, "runtime">>] = "ok" => tree'[j] = Piece
    BY <1>1, <1>2, <1>3 DEF RuntimeWork
  <2> QED BY <1>1, <1>3, <2>1, <2>2 DEF PhaseFits, RuntimeWork, ModelWork
<1>6. ParakeetVerified' /\ SentinelMeansVerified' /\ QwenWhole'
  BY <1>1, <1>2 DEF ParakeetVerified, SentinelMeansVerified, QwenWhole, Kind
<1>7. DownloadedIsComplete'
  <2>1. ASSUME NEW s \in Thing \ torn', row'[s] = "Downloaded", phase'[s] = "idle"
        PROVE  IF s[2] = "runtime" THEN tree'[s[1]] = Piece
               ELSE \A f \in ModelFile : held'[s[1]][f] # "none"
    <3>1. s \in Thing \ torn /\ s # t /\ row[s] = "Downloaded" /\ phase[s] = "idle"
      BY <1>2, <2>1
    <3>2. IF s[2] = "runtime" THEN tree[s[1]] = Piece
          ELSE \A f \in ModelFile : held[s[1]][f] # "none"
      BY <1>1, <3>1 DEF DownloadedIsComplete
    <3>3. s[2] = "runtime" => s[1] \in Kind \ {k}
      BY <3>1, ThingFacts
    <3> QED BY <3>2, <3>3
  <2> QED BY <1>1, <2>1 DEF DownloadedIsComplete, ModelDownloaded
<1> QED BY <1>2, <1>4, <1>5, <1>6, <1>7 DEF FilesInv, FilesSafety

(* A runtime is fetched, and takes the place of the old one.               *)
LEMMA RuntimePreserves ==
  ASSUME FilesInv, NEW k \in Kind,
         \/ FetchRuntime(k) \/ Install(k)
         \/ k = "parakeet" /\ RemoveOld
         \/ k = "qwen" /\ SetAside
  PROVE  FilesInv'
<1>1. /\ FilesTypeOK /\ QwenWhole /\ PhaseFits
  BY DEF FilesInv, FilesSafety
<1>2. /\ phase[<<k, "runtime">>] \in {"fetch", "replace", "install"}
      /\ Alone /\ UNCHANGED <<held, sentinel>>
  BY DEF FetchRuntime, Install, RemoveOld, SetAside, onDisk
<1>3. phase[<<k, "runtime">>] # "idle"
  BY <1>2
<1>4. CASE FetchRuntime(k)
  <2>1. PICK p \in {"replace", "failed"} : Goes(<<k, "runtime">>, p)
    BY <1>4 DEF FetchRuntime
  <2>2. /\ UNCHANGED <<tree, aside>> /\ phase[<<k, "runtime">>] = "fetch"
        /\ tree' \in [Kind -> SUBSET Piece] /\ aside' \subseteq Piece
        /\ \A j \in Kind \ {k} : tree'[j] = tree[j]
    BY <1>1, <1>4 DEF FetchRuntime, onDisk, FilesTypeOK
  <2>3. k = "qwen" => /\ aside' # {} => p = "install"
                      /\ <<k, "runtime">> \notin torn =>
                            tree'[k] \in {{}, Piece} /\ aside' \in {{}, Piece}
    BY <1>1, <2>2 DEF FilesTypeOK, QwenWhole
  <2>4. p \in {"replace", "install", "ok", "failed"} /\ p # "ok"
    OBVIOUS
  <2> QED
    BY ONLY <1>2, <1>3, <2>1, <2>2, <2>3, <2>4, k \in Kind, FilesInv, RuntimeStep
<1>5. CASE Install(k)
  <2>1. PICK p \in {"ok", "failed"} :
          /\ Goes(<<k, "runtime">>, p)
          /\ \/ tree' = [tree EXCEPT ![k] = Piece]
             \/ p # "ok" /\ tree' = [tree EXCEPT ![k] = IF k = "qwen" THEN aside ELSE @]
    BY <1>5 DEF Install
  <2>2. /\ aside' = (IF k = "qwen" THEN {} ELSE aside) /\ aside' \subseteq Piece
        /\ tree' \in [Kind -> SUBSET Piece]
        /\ \A j \in Kind \ {k} : tree'[j] = tree[j]
        /\ p = "ok" => tree'[k] = Piece
    BY <1>1, <1>5, <2>1 DEF Install, FilesTypeOK
  <2>3. k = "qwen" => /\ aside' # {} => p = "install"
                      /\ <<k, "runtime">> \notin torn =>
                            tree'[k] \in {{}, Piece} /\ aside' \in {{}, Piece}
    BY <1>1, <2>1, <2>2 DEF FilesTypeOK, QwenWhole
  <2>4. /\ p \in {"replace", "install", "ok", "failed"}
        /\ k = "parakeet" => UNCHANGED aside
    BY <2>2
  <2> QED
    BY ONLY <1>2, <1>3, <2>1, <2>2, <2>3, <2>4, k \in Kind, FilesInv, RuntimeStep
<1>6. CASE k = "parakeet" /\ RemoveOld
  <2>1. PICK p \in {"install", "failed"} : Goes(<<k, "runtime">>, p)
    BY <1>6 DEF RemoveOld
  <2>2. /\ UNCHANGED aside /\ aside' \subseteq Piece /\ tree' \in [Kind -> SUBSET Piece]
        /\ \A j \in Kind \ {k} : tree'[j] = tree[j]
    <3>1. \E left \in SUBSET tree["parakeet"] : tree' = [tree EXCEPT !["parakeet"] = left]
      BY <1>6 DEF RemoveOld
    <3> QED BY <1>1, <1>6, <3>1 DEF RemoveOld, FilesTypeOK
  <2>3. p \in {"replace", "install", "ok", "failed"} /\ p # "ok" /\ k # "qwen"
    BY <1>6
  <2> QED
    BY ONLY <1>2, <1>3, <2>1, <2>2, <2>3, k \in Kind, FilesInv, RuntimeStep
<1>7. CASE k = "qwen" /\ SetAside
  <2>1. PICK p \in {"install", "failed"} :
          /\ Goes(<<k, "runtime">>, p)
          /\ \/ p = "install" /\ aside' = tree[k] /\ tree' = [tree EXCEPT ![k] = {}]
             \/ UNCHANGED <<tree, aside>>
    BY <1>7 DEF SetAside
  <2>2. phase[<<k, "runtime">>] = "replace"
    BY <1>7 DEF SetAside
  <2>3. /\ aside' \subseteq Piece /\ tree' \in [Kind -> SUBSET Piece]
        /\ \A j \in Kind \ {k} : tree'[j] = tree[j]
        /\ aside' # {} => p = "install"
        /\ <<k, "runtime">> \notin torn => tree'[k] \in {{}, Piece} /\ aside' \in {{}, Piece}
    BY <1>1, <1>7, <2>1, <2>2 DEF FilesTypeOK, QwenWhole
  <2>4. p \in {"replace", "install", "ok", "failed"} /\ p # "ok" /\ k # "parakeet"
    BY <1>7
  <2> QED
    BY ONLY <1>2, <1>3, <2>1, <2>3, <2>4, k \in Kind, FilesInv, RuntimeStep
<1> QED BY <1>4, <1>5, <1>6, <1>7

(* A click begins a download.                                              *)
LEMMA ClickDownloadPreserves ==
  ASSUME FilesInv, NEW t \in Thing, ClickDownload(t)
  PROVE  FilesInv'
<1>1. /\ FilesTypeOK /\ RowsWork /\ PhaseFits /\ ModelWork /\ RuntimeWork /\ ParakeetVerified
      /\ QwenWhole /\ SentinelMeansVerified /\ DownloadedIsComplete
      /\ MaxFileActs \in Nat
  BY SidecarFilesAssumption DEF FilesInv, FilesSafety
<1> DEFINE p == IF t[2] = "runtime" THEN "fetch" ELSE "begin"
<1>2. /\ phase' = [phase EXCEPT ![t] = p] /\ row' = [row EXCEPT ![t] = "Downloading"]
      /\ row[t] \in {"Download", "Retry"} /\ fileActs' \in 0..MaxFileActs
      /\ UNCHANGED <<held, sentinel, tree, aside, torn, ends>>
  BY <1>1 DEF ClickDownload, FileAct, Goes, onDisk, FilesTypeOK
<1>3. /\ phase[t] = "idle" /\ p \in Phase \ {"idle"}
      /\ phase' \in [Thing -> Phase] /\ phase'[t] = p
      /\ row' \in [Thing -> {"Download", "Downloading", "Downloaded", "Retry"}]
      /\ \A s \in Thing \ {t} : phase'[s] = phase[s] /\ row'[s] = row[s]
      /\ row'[t] = "Downloading"
  BY <1>1, <1>2 DEF FilesTypeOK, RowsWork, Phase
<1>4. \A k \in Kind, h \in {"runtime", "model"} :
        \/ phase'[<<k, h>>] = phase[<<k, h>>]
        \/ phase'[<<k, h>>] = (IF h = "runtime" THEN "fetch" ELSE "begin")
  <2> SUFFICES ASSUME NEW k \in Kind, NEW h \in {"runtime", "model"}, t = <<k, h>>
               PROVE  phase'[<<k, h>>] = (IF h = "runtime" THEN "fetch" ELSE "begin")
    BY <1>3, ThingFacts
  <2> QED BY <1>3
<1>5. FilesTypeOK'
  <2>1. aside' # {} => phase'[<<"qwen", "runtime">>] = "install"
    BY <1>1, <1>2, <1>3, ThingFacts DEF FilesTypeOK, Kind
  <2> QED BY <1>1, <1>2, <1>3, <2>1 DEF FilesTypeOK
<1>6. RowsWork'
  BY <1>1, <1>3 DEF RowsWork
<1>7. PhaseFits' /\ ModelWork' /\ RuntimeWork'
  <2>1. \A k \in Kind : /\ phase'[<<k, "model">>] \in {phase[<<k, "model">>], "begin"}
                       /\ phase'[<<k, "runtime">>] \in {phase[<<k, "runtime">>], "fetch"}
    BY <1>4
  <2> HIDE DEF p
  <2> QED BY <1>1, <1>2, <2>1 DEF PhaseFits, ModelWork, RuntimeWork
<1>8. ParakeetVerified' /\ SentinelMeansVerified' /\ QwenWhole'
  BY <1>1, <1>2 DEF ParakeetVerified, SentinelMeansVerified, QwenWhole
<1>9. DownloadedIsComplete'
  BY <1>1, <1>2, <1>3 DEF DownloadedIsComplete, ModelDownloaded
<1> QED BY <1>5, <1>6, <1>7, <1>8, <1>9 DEF FilesInv, FilesSafety

(* An answer ends one, and is what the thing is like then.                 *)
LEMMA AnsweredPreserves ==
  ASSUME FilesInv, NEW t \in Thing, Answered(t)
  PROVE  FilesInv'
<1>1. /\ FilesTypeOK /\ RowsWork /\ PhaseFits /\ ModelWork /\ RuntimeWork /\ ParakeetVerified
      /\ QwenWhole /\ SentinelMeansVerified /\ DownloadedIsComplete
  BY DEF FilesInv, FilesSafety
<1>2. /\ phase[t] \in {"ok", "failed"} /\ phase' = [phase EXCEPT ![t] = "idle"]
      /\ row' = [row EXCEPT ![t] = IF phase[t] = "ok" THEN "Downloaded" ELSE "Retry"]
      /\ torn' = IF phase[t] = "ok" THEN torn \ {t} ELSE torn
      /\ UNCHANGED <<held, sentinel, tree, aside, fileActs, ends>>
  BY DEF Answered, Goes, onDisk
<1>3. /\ phase' \in [Thing -> Phase] /\ phase'[t] = "idle"
      /\ row' \in [Thing -> {"Download", "Downloading", "Downloaded", "Retry"}]
      /\ \A s \in Thing \ {t} : phase'[s] = phase[s] /\ row'[s] = row[s]
      /\ row'[t] = (IF phase[t] = "ok" THEN "Downloaded" ELSE "Retry")
      /\ torn' \subseteq Thing
  BY <1>1, <1>2 DEF FilesTypeOK, Phase
<1>4. \A s \in Thing : phase'[s] = phase[s] \/ phase'[s] = "idle"
  BY <1>3
<1>5. FilesTypeOK'
  <2>1. aside' # {} => phase'[<<"qwen", "runtime">>] = "install"
    BY <1>1, <1>2, <1>3, ThingFacts DEF FilesTypeOK, Kind
  <2> QED BY <1>1, <1>2, <1>3, <2>1 DEF FilesTypeOK
<1>6. RowsWork'
  BY <1>1, <1>2, <1>3 DEF RowsWork
<1>7. PhaseFits' /\ ModelWork' /\ RuntimeWork'
  BY <1>1, <1>2, <1>4, ThingFacts DEF PhaseFits, ModelWork, RuntimeWork
<1>8. phase[t] = "ok" => IF t[2] = "runtime" THEN tree[t[1]] = Piece
                         ELSE \A f \in ModelFile : held[t[1]][f] # "none"
  BY <1>1, ThingFacts DEF RuntimeWork, ModelWork
<1>9. ParakeetVerified' /\ SentinelMeansVerified'
  BY <1>1, <1>2 DEF ParakeetVerified, SentinelMeansVerified
<1>10. QwenWhole'
  <2>1. ASSUME <<"qwen", "runtime">> \notin torn'
        PROVE  tree["qwen"] \in {{}, Piece} /\ aside \in {{}, Piece}
    <3>1. CASE t = <<"qwen", "runtime">> /\ phase[t] = "ok"
      <4>1. tree["qwen"] = Piece /\ aside = {}
        BY <1>1, <1>8, <3>1 DEF FilesTypeOK
      <4> QED BY <4>1
    <3>2. CASE ~(t = <<"qwen", "runtime">> /\ phase[t] = "ok")
      BY <1>1, <1>2, <2>1, <3>2 DEF QwenWhole
    <3> QED BY <3>1, <3>2
  <2>2. ASSUME <<"qwen", "model">> \notin torn', "qwen" \in sentinel
        PROVE  \A f \in ModelFile : held["qwen"][f] # "none"
    <3>1. CASE t = <<"qwen", "model">> /\ phase[t] = "ok"
      BY <1>8, <3>1
    <3>2. CASE ~(t = <<"qwen", "model">> /\ phase[t] = "ok")
      BY <1>1, <1>2, <2>2, <3>2 DEF QwenWhole
    <3> QED BY <3>1, <3>2
  <2> QED BY <1>2, <2>1, <2>2 DEF QwenWhole
<1>11. DownloadedIsComplete'
  <2>1. ASSUME NEW s \in Thing \ torn', row'[s] = "Downloaded", phase'[s] = "idle"
        PROVE  IF s[2] = "runtime" THEN tree[s[1]] = Piece
               ELSE \A f \in ModelFile : held[s[1]][f] # "none"
    <3>1. CASE s = t
      BY <1>3, <1>8, <2>1, <3>1
    <3>2. CASE s # t
      <4>1. s \in Thing \ torn /\ row[s] = "Downloaded" /\ phase[s] = "idle"
        BY <1>2, <1>3, <2>1, <3>2
      <4> QED BY <1>1, <4>1 DEF DownloadedIsComplete
    <3> QED BY <3>1, <3>2
  <2> QED BY <1>1, <1>2, <2>1 DEF DownloadedIsComplete, ModelDownloaded
<1> QED BY <1>5, <1>6, <1>7, <1>9, <1>10, <1>11 DEF FilesInv, FilesSafety

(* A deletion, whole or torn, only takes files away.                       *)
LEMMA DeletionPreserves ==
  ASSUME FilesInv, NEW t \in Thing, DeleteThing(t) \/ TearThing(t)
  PROVE  FilesInv'
<1>1. /\ FilesTypeOK /\ RowsWork /\ PhaseFits /\ ModelWork /\ RuntimeWork /\ ParakeetVerified
      /\ QwenWhole /\ SentinelMeansVerified /\ DownloadedIsComplete
      /\ MaxFileActs \in Nat
  BY SidecarFilesAssumption DEF FilesInv, FilesSafety
<1>2. /\ row[t] = "Downloaded" /\ fileActs' \in 0..MaxFileActs
      /\ UNCHANGED <<aside, phase, ends>>
  BY <1>1 DEF DeleteThing, TearThing, FileAct, FilesTypeOK
<1>3. phase[t] = "idle"
  BY <1>1, <1>2 DEF RowsWork
<1>4. /\ held' \in [Kind -> [ModelFile -> {"none", "whole", "bad"}]]
      /\ \A k \in Kind, f \in ModelFile : held'[k][f] \in {held[k][f], "none"}
      /\ \A k \in Kind, f \in ModelFile : <<k, "model">> # t => held'[k][f] = held[k][f]
      /\ sentinel' \subseteq sentinel
      /\ \A k \in Kind : <<k, "model">> # t => (k \in sentinel' <=> k \in sentinel)
  <2>1. CASE t[2] = "runtime"
    <3>1. UNCHANGED <<held, sentinel>>
      BY <2>1 DEF DeleteThing, TearThing, Emptied
    <3> QED BY <1>1, <3>1 DEF FilesTypeOK
  <2>2. CASE t[2] # "runtime"
    <3>1. PICK gone \in SUBSET ModelFile :
             held' = [held EXCEPT ![t[1]] = [f \in ModelFile |-> IF f \in gone THEN "none" ELSE @[f]]]
      <4>1. CASE DeleteThing(t)
        <5>1. held' = [held EXCEPT ![t[1]] = [f \in ModelFile |-> IF f \in ModelFile THEN "none" ELSE @[f]]]
          BY <2>2, <4>1 DEF DeleteThing, Emptied
        <5> QED BY <5>1
      <4>2. CASE TearThing(t)
        BY <2>2, <4>2 DEF TearThing
      <4> QED BY <4>1, <4>2
    <3>2. sentinel' \in {sentinel, sentinel \ {t[1]}}
      BY <2>2 DEF DeleteThing, TearThing, Emptied
    <3>3. t = <<t[1], "model">> /\ t[1] \in Kind
      BY <2>2, ThingFacts
    <3> HIDE <2>2
    <3> QED BY <1>1, <3>1, <3>2, <3>3, ThingFacts DEF FilesTypeOK
  <2> QED BY <2>1, <2>2
<1>5. /\ tree' \in [Kind -> SUBSET Piece]
      /\ \A k \in Kind : <<k, "runtime">> # t => tree'[k] = tree[k]
      /\ DeleteThing(t) => \A k \in Kind : tree'[k] \in {tree[k], {}}
  <2>1. CASE t[2] = "runtime"
    <3>1. PICK left \in SUBSET tree[t[1]] : /\ tree' = [tree EXCEPT ![t[1]] = left]
                                            /\ DeleteThing(t) => left = {}
      BY <2>1 DEF DeleteThing, TearThing, Emptied
    <3>2. t = <<t[1], "runtime">> /\ t[1] \in Kind
      BY <2>1, ThingFacts
    <3> QED BY <1>1, <3>1, <3>2, ThingFacts DEF FilesTypeOK
  <2>2. CASE t[2] # "runtime"
    <3>1. UNCHANGED tree
      BY <2>2 DEF DeleteThing, TearThing, Emptied
    <3> QED BY <1>1, <3>1 DEF FilesTypeOK
  <2> QED BY <2>1, <2>2
<1>6. /\ torn' \subseteq Thing
      /\ \A s \in Thing : s # t => row'[s] = row[s] /\ (s \in torn' <=> s \in torn)
      /\ row' \in [Thing -> {"Download", "Downloading", "Downloaded", "Retry"}]
      /\ DeleteThing(t) => row'[t] = "Download"
      /\ TearThing(t) => t \in torn' /\ row'[t] = row[t]
      /\ row'[t] # "Downloading"
  BY <1>1, <1>2 DEF DeleteThing, TearThing, FilesTypeOK
<1>7. FilesTypeOK'
  BY <1>1, <1>2, <1>4, <1>5, <1>6 DEF FilesTypeOK
<1>8. RowsWork' /\ PhaseFits'
  BY <1>1, <1>2, <1>3, <1>6 DEF RowsWork, PhaseFits
<1>9. ModelWork' /\ RuntimeWork'
  <2>1. \A k \in Kind : phase[<<k, "model">>] # "idle" => <<k, "model">> # t
    BY <1>3
  <2>2. \A k \in Kind : phase[<<k, "runtime">>] # "idle" => <<k, "runtime">> # t
    BY <1>3
  <2>3. RuntimeWork'
    BY <1>1, <1>2, <1>5, <2>2 DEF RuntimeWork
  <2>4. ASSUME NEW k \in Kind, phase[<<k, "model">>] # "idle"
        PROVE  /\ \A f \in ModelFile : held'[k][f] = held[k][f]
               /\ held'[k]["weights"] = held[k]["weights"]
               /\ held'[k]["tables"] = held[k]["tables"]
               /\ k \in sentinel' <=> k \in sentinel
    BY <1>4, <2>1, <2>4 DEF ModelFile
  <2>5. ASSUME NEW k \in Kind
        PROVE  /\ phase'[<<k, "model">>] \in {"weights", "verify", "tables", "sentinel"} =>
                    k \notin sentinel'
               /\ phase'[<<k, "model">>] \in {"tables", "sentinel"} =>
                    held'[k]["weights"] = "whole"
               /\ phase'[<<k, "model">>] = "sentinel" => held'[k]["tables"] # "none"
               /\ phase'[<<k, "model">>] = "ok" => \A f \in ModelFile : held'[k][f] # "none"
    <3>1. /\ phase[<<k, "model">>] \in {"weights", "verify", "tables", "sentinel"} => k \notin sentinel
          /\ phase[<<k, "model">>] \in {"tables", "sentinel"} => held[k]["weights"] = "whole"
          /\ phase[<<k, "model">>] = "sentinel" => held[k]["tables"] # "none"
          /\ phase[<<k, "model">>] = "ok" => \A f \in ModelFile : held[k][f] # "none"
      BY <1>1 DEF ModelWork
    <3>2. phase' = phase
      BY <1>2
    <3>3. CASE phase[<<k, "model">>] = "idle"
      BY <3>2, <3>3
    <3>4. CASE phase[<<k, "model">>] # "idle"
      BY <2>4, <3>1, <3>2, <3>4
    <3> QED BY <3>3, <3>4
  <2>6. ModelWork'
    BY <2>5 DEF ModelWork
  <2> QED BY <2>3, <2>6
<1>10. ParakeetVerified' /\ SentinelMeansVerified'
  <2>1. "parakeet" \in Kind /\ "weights" \in ModelFile /\ "tables" \in ModelFile
        /\ sentinel \subseteq Kind
    BY <1>1 DEF Kind, ModelFile, FilesTypeOK
  <2> QED BY <1>1, <1>4, <2>1 DEF ParakeetVerified, SentinelMeansVerified
<1>11. QwenWhole'
  <2>1. "qwen" \in Kind /\ <<"qwen", "runtime">> \in Thing /\ <<"qwen", "model">> \in Thing
    BY ThingFacts DEF Kind
  <2>2. ASSUME <<"qwen", "runtime">> \notin torn'
        PROVE  tree'["qwen"] \in {{}, Piece} /\ aside' \in {{}, Piece}
    <3>1. CASE t # <<"qwen", "runtime">>
      BY <1>1, <1>2, <1>5, <1>6, <2>1, <2>2, <3>1 DEF QwenWhole
    <3>2. CASE t = <<"qwen", "runtime">>
      <4>1. DeleteThing(t) /\ tree'["qwen"] \in {tree["qwen"], {}} /\ tree'["qwen"] = {}
        BY <1>1, <1>5, <1>6, <2>1, <2>2, <3>2 DEF DeleteThing, Emptied, FilesTypeOK
      <4>2. aside = {}
        BY <1>1, <1>3, <3>2 DEF FilesTypeOK
      <4> QED BY <1>2, <4>1, <4>2
    <3> QED BY <3>1, <3>2
  <2>3. ASSUME <<"qwen", "model">> \notin torn', "qwen" \in sentinel'
        PROVE  \A f \in ModelFile : held'["qwen"][f] # "none"
    <3>1. CASE t # <<"qwen", "model">>
      BY <1>1, <1>4, <1>6, <2>1, <2>3, <3>1 DEF QwenWhole
    <3>2. CASE t = <<"qwen", "model">>
      <4>1. DeleteThing(t)
        BY <1>6, <2>3, <3>2
      <4>2. sentinel' = sentinel \ {"qwen"}
        BY <3>2, <4>1 DEF DeleteThing, Emptied
      <4> QED BY <2>3, <4>2
    <3> QED BY <3>1, <3>2
  <2> QED BY <2>2, <2>3 DEF QwenWhole
<1>12. DownloadedIsComplete'
  <2>1. ASSUME NEW s \in Thing \ torn', row'[s] = "Downloaded", phase'[s] = "idle"
        PROVE  IF s[2] = "runtime" THEN tree'[s[1]] = Piece
               ELSE \A f \in ModelFile : held'[s[1]][f] # "none"
    <3>1. s # t
      BY <1>6, <2>1
    <3>2. s \in Thing \ torn /\ row[s] = "Downloaded" /\ phase[s] = "idle"
      BY <1>2, <1>6, <2>1, <3>1
    <3>3. IF s[2] = "runtime" THEN tree[s[1]] = Piece
               ELSE \A f \in ModelFile : held[s[1]][f] # "none"
      BY <1>1, <3>2 DEF DownloadedIsComplete
    <3>4. s[1] \in Kind /\ (s[2] = "runtime" \/ s[2] = "model") /\ s = <<s[1], s[2]>>
      BY ThingFacts
    <3>5. CASE s[2] = "runtime"
      <4>1. s = <<s[1], "runtime">>
        BY <3>4, <3>5
      <4> QED BY <1>5, <3>1, <3>3, <3>4, <3>5, <4>1
    <3>6. CASE s[2] = "model"
      <4>1. s = <<s[1], "model">>
        BY <3>4, <3>6
      <4> QED BY <1>4, <3>1, <3>3, <3>4, <3>6, <4>1
    <3> QED BY <3>4, <3>5, <3>6
  <2>2. ModelDownloaded("parakeet")' => \A f \in ModelFile : held'["parakeet"][f] = "whole"
    BY <1>7, <1>10 DEF ModelDownloaded, ParakeetVerified, FilesTypeOK, Kind
  <2> QED BY <2>1, <2>2 DEF DownloadedIsComplete
<1> QED BY <1>7, <1>8, <1>9, <1>10, <1>11, <1>12 DEF FilesInv, FilesSafety

(* A new process shows what it finds.                                      *)
LEMMA ReopenPreserves ==
  ASSUME FilesInv, Reopen
  PROVE  FilesInv'
<1>1. /\ FilesTypeOK /\ ParakeetVerified /\ QwenWhole /\ SentinelMeansVerified
      /\ DownloadedIsComplete /\ MaxEnds \in Nat
  BY SidecarFilesAssumption DEF FilesInv, FilesSafety
<1>2. /\ phase' = [t \in Thing |-> "idle"] /\ row' = Rows /\ aside' = {} /\ ends' \in 0..MaxEnds
      /\ UNCHANGED <<held, sentinel, tree, torn, fileActs>>
  BY <1>1 DEF Reopen, FilesTypeOK
<1>3. /\ row' \in [Thing -> {"Download", "Downloaded"}] /\ phase' \in [Thing -> Phase]
      /\ \A t \in Thing : phase'[t] = "idle" /\ row'[t] \in {"Download", "Downloaded"}
      /\ \A t \in Thing : row'[t] = "Downloaded" => Ready(t)
  BY <1>2 DEF Rows, Phase
<1>4. FilesTypeOK'
  BY <1>1, <1>2, <1>3 DEF FilesTypeOK
<1>5. \A k \in Kind : phase'[<<k, "model">>] = "idle" /\ phase'[<<k, "runtime">>] = "idle"
  BY <1>3, ThingFacts
<1>6. RowsWork' /\ PhaseFits' /\ ModelWork' /\ RuntimeWork'
  <2>1. RowsWork'
    BY <1>3 DEF RowsWork
  <2> QED BY <1>5, <2>1 DEF PhaseFits, ModelWork, RuntimeWork
<1>7. ParakeetVerified' /\ QwenWhole' /\ SentinelMeansVerified'
  BY <1>1, <1>2 DEF ParakeetVerified, QwenWhole, SentinelMeansVerified
<1>8. DownloadedIsComplete'
  <2>1. ASSUME NEW k \in Kind, <<k, "runtime">> \notin torn, Installed(k)
        PROVE  tree[k] = Piece
    <3>1. CASE k = "qwen"
      BY <1>1, <2>1, <3>1 DEF QwenWhole, Installed
    <3>2. CASE k = "parakeet"
      BY <1>1, <2>1, <3>2 DEF FilesTypeOK, Installed, Piece
    <3> QED BY <3>1, <3>2 DEF Kind
  <2>2. ASSUME NEW k \in Kind, <<k, "model">> \notin torn, ModelDownloaded(k)
        PROVE  \A f \in ModelFile : held[k][f] # "none"
    BY <1>1, <2>2 DEF QwenWhole, ModelDownloaded, Kind
  <2>3. ASSUME NEW t \in Thing \ torn', row'[t] = "Downloaded"
        PROVE  IF t[2] = "runtime" THEN tree[t[1]] = Piece
               ELSE \A f \in ModelFile : held[t[1]][f] # "none"
    <3>1. Ready(t) /\ t[1] \in Kind /\ t = <<t[1], t[2]>> /\ t \notin torn
          /\ t[2] \in {"runtime", "model"}
      BY <1>2, <1>3, <2>3, ThingFacts
    <3>2. CASE t[2] = "runtime"
      BY <2>1, <3>1, <3>2 DEF Ready
    <3>3. CASE t[2] = "model"
      BY <2>2, <3>1, <3>3 DEF Ready
    <3> QED BY <3>1, <3>2, <3>3
  <2> QED BY <1>1, <1>2, <2>3 DEF DownloadedIsComplete, ModelDownloaded
<1> QED BY <1>4, <1>6, <1>7, <1>8 DEF FilesInv, FilesSafety

(* A sentinel never vouches for unverified weights, and a row that says    *)
(* Downloaded has all its files unless a deletion stopped half-way, for    *)
(* any number of downloads and deletions, each cut off anywhere by the end *)
(* of the process.                                                         *)
THEOREM FilesSafetyAlways ==
  FilesInit /\ [][FilesNext]_fileVars => []FilesSafety
<1>1. FilesInit => FilesInv
  BY FilesInitHolds
<1>2. ASSUME FilesInv, [FilesNext]_fileVars PROVE FilesInv'
  <2>1. ASSUME NEW k \in Kind, TaskOf(k) PROVE FilesInv'
    BY <1>2, <2>1, BeginModelPreserves, EndModelPreserves, RuntimePreserves,
      VerifiedFilePreserves, QwenFilePreserves DEF TaskOf
  <2>2. ASSUME NEW t \in Thing, ClickDownload(t) \/ Answered(t) \/ DeleteThing(t) \/ TearThing(t)
        PROVE  FilesInv'
    BY <1>2, <2>2, ClickDownloadPreserves, AnsweredPreserves, DeletionPreserves
  <2>3. CASE Reopen
    BY <1>2, <2>3, ReopenPreserves
  <2>4. CASE UNCHANGED fileVars
    BY <1>2, <2>4 DEF fileVars, FilesInv, FilesSafety, FilesTypeOK, SentinelMeansVerified,
      DownloadedIsComplete, ModelDownloaded, PhaseFits, RowsWork, ModelWork, RuntimeWork,
      ParakeetVerified, QwenWhole
  <2> QED BY <1>2, <2>1, <2>2, <2>3, <2>4 DEF FilesNext
<1>3. FilesInv => FilesSafety
  BY DEF FilesInv
<1> QED BY <1>1, <1>2, <1>3, PTL

------------------------------------------------------------------------------
(* The text pages.                                                         *)

(* An appended element comes last.                                         *)
LEMMA AppendFacts ==
  ASSUME NEW S, NEW s \in Seq(S), NEW e \in S
  PROVE  /\ Append(s, e) \in Seq(S) /\ Len(Append(s, e)) = Len(s) + 1
         /\ Append(s, e) # <<>> /\ DOMAIN Append(s, e) = 1..(Len(s) + 1)
         /\ Append(s, e)[Len(s) + 1] = e
         /\ \A j \in DOMAIN s : j \in DOMAIN Append(s, e) /\ Append(s, e)[j] = s[j]
BY AppendProperties, LenProperties

(* Whatever is in a sequence after a removal was in it before.             *)
LEMMA RemoveAtFacts ==
  ASSUME NEW S, NEW s \in Seq(S), NEW i \in DOMAIN s
  PROVE  /\ RemoveAt(s, i) \in Seq(S) /\ Len(RemoveAt(s, i)) = Len(s) - 1
         /\ DOMAIN RemoveAt(s, i) = 1..(Len(s) - 1)
         /\ \A j \in DOMAIN RemoveAt(s, i) : \E k \in DOMAIN s : RemoveAt(s, i)[j] = s[k]
<1> DEFINE a == SubSeq(s, 1, i - 1)
           b == SubSeq(s, i + 1, Len(s))
<1>1. /\ Len(s) \in Nat /\ DOMAIN s = 1..Len(s) /\ i \in 1..Len(s)
      /\ \A k \in 1..Len(s) : s[k] \in S
  BY LenProperties
<1>2. /\ a \in Seq(S) /\ Len(a) = i - 1 /\ \A k \in 1..(i - 1) : a[k] = s[k]
  <2>1. 1 \in Int /\ i - 1 \in Int /\ \A k \in 1..(i - 1) : s[k] \in S
    BY <1>1
  <2>2. /\ a \in Seq(S) /\ Len(a) = (IF 1 <= i - 1 THEN (i - 1) - 1 + 1 ELSE 0)
        /\ \A k \in 1..((i - 1) - 1 + 1) : a[k] = s[1 + k - 1]
    BY ONLY <2>1, SubSeqProperties
  <2> HIDE DEF a
  <2> QED BY <1>1, <2>2
<1>3. /\ b \in Seq(S) /\ Len(b) = Len(s) - i /\ \A k \in 1..(Len(s) - i) : b[k] = s[i + k]
  <2>1. i + 1 \in Int /\ Len(s) \in Int /\ \A k \in (i + 1)..Len(s) : s[k] \in S
    BY <1>1
  <2>2. /\ b \in Seq(S) /\ Len(b) = (IF i + 1 <= Len(s) THEN Len(s) - (i + 1) + 1 ELSE 0)
        /\ \A k \in 1..(Len(s) - (i + 1) + 1) : b[k] = s[(i + 1) + k - 1]
    BY ONLY <2>1, SubSeqProperties
  <2>3. /\ Len(s) - (i + 1) + 1 = Len(s) - i
        /\ IF i + 1 <= Len(s) THEN TRUE ELSE Len(s) - i = 0
    BY <1>1
  <2>4. \A k \in 1..(Len(s) - i) : (i + 1) + k - 1 = i + k
    BY <1>1
  <2> HIDE DEF b
  <2>5. Len(b) = Len(s) - i
    BY ONLY <2>2, <2>3
  <2>6. \A k \in 1..(Len(s) - i) : b[k] = s[i + k]
    BY ONLY <2>2, <2>3, <2>4
  <2> QED BY <2>2, <2>5, <2>6
<1>4. RemoveAt(s, i) = a \o b
  BY DEF RemoveAt
<1> HIDE DEF a, b
<1>5. /\ a \o b \in Seq(S) /\ Len(a \o b) = Len(a) + Len(b)
      /\ \A k \in 1..Len(a) + Len(b) : (a \o b)[k] = IF k <= Len(a) THEN a[k] ELSE b[k - Len(a)]
  BY <1>2, <1>3, ConcatProperties
<1>6. DOMAIN (a \o b) = 1..(Len(s) - 1) /\ Len(a \o b) = Len(s) - 1
  <2>1. Len(a \o b) = Len(s) - 1
    BY <1>1, <1>2, <1>3, <1>5
  <2> QED BY <1>5, <2>1, LenProperties
<1>7. ASSUME NEW j \in 1..(Len(s) - 1)
      PROVE  \E k \in DOMAIN s : (a \o b)[j] = s[k]
  <2>1. CASE j <= i - 1
    <3>1. (a \o b)[j] = s[j] /\ j \in 1..Len(s)
      BY <1>1, <1>2, <1>3, <1>5, <2>1
    <3> QED BY <1>1, <3>1
  <2>2. CASE j > i - 1
    <3>1. j - Len(a) \in 1..(Len(s) - i) /\ i + (j - Len(a)) = j + 1 /\ j + 1 \in 1..Len(s)
      <4>1. /\ Len(s) \in Nat /\ i \in Nat /\ j \in Nat /\ j <= Len(s) - 1
            /\ Len(a) = i - 1 /\ j > i - 1
        BY <1>1, <1>2, <2>2
      <4>2. j - Len(a) \in 1..(Len(s) - i)
        BY ONLY <4>1
      <4>3. i + (j - Len(a)) = j + 1
        BY ONLY <4>1
      <4>4. j + 1 \in 1..Len(s)
        BY ONLY <4>1
      <4> QED BY ONLY <4>2, <4>3, <4>4
    <3>2. (a \o b)[j] = b[j - Len(a)]
      <4>1. /\ Len(s) \in Nat /\ i \in Nat /\ j \in 1..(Len(s) - 1)
            /\ Len(a) = i - 1 /\ Len(b) = Len(s) - i /\ j > i - 1
        BY <1>1, <1>2, <1>3, <2>2
      <4>2. j \in 1..Len(a) + Len(b) /\ ~(j <= Len(a))
        BY ONLY <4>1
      <4> QED BY ONLY <1>5, <4>2
    <3>3. b[j - Len(a)] = s[j + 1]
      BY ONLY <1>3, <3>1
    <3> QED BY <1>1, <3>1, <3>2, <3>3
  <2>3. j <= i - 1 \/ j > i - 1
    BY <1>1
  <2> QED BY ONLY <2>1, <2>2, <2>3
<1> QED BY <1>4, <1>5, <1>6, <1>7

(* Whatever is in a sequence after an insertion was in it before, or is    *)
(* the new element.                                                        *)
LEMMA InsertAfterFacts ==
  ASSUME NEW S, NEW s \in Seq(S), NEW i \in DOMAIN s, NEW e \in S
  PROVE  /\ InsertAt(s, i + 1, e) \in Seq(S) /\ InsertAt(s, i + 1, e) # <<>>
         /\ DOMAIN InsertAt(s, i + 1, e) = 1..(Len(s) + 1)
         /\ i + 1 \in DOMAIN InsertAt(s, i + 1, e)
         /\ \A j \in DOMAIN InsertAt(s, i + 1, e) :
              \/ InsertAt(s, i + 1, e)[j] = e
              \/ \E k \in DOMAIN s : InsertAt(s, i + 1, e)[j] = s[k]
<1> DEFINE a == SubSeq(s, 1, i)
           b == SubSeq(s, i + 1, Len(s))
<1>1. /\ Len(s) \in Nat /\ DOMAIN s = 1..Len(s) /\ i \in 1..Len(s)
      /\ \A k \in 1..Len(s) : s[k] \in S
  BY LenProperties
<1>2. /\ a \in Seq(S) /\ Len(a) = i /\ \A k \in 1..i : a[k] = s[k]
  <2>1. 1 \in Int /\ i \in Int /\ \A k \in 1..i : s[k] \in S
    BY <1>1
  <2>2. /\ a \in Seq(S) /\ Len(a) = (IF 1 <= i THEN i - 1 + 1 ELSE 0)
        /\ \A k \in 1..(i - 1 + 1) : a[k] = s[1 + k - 1]
    BY ONLY <2>1, SubSeqProperties
  <2> HIDE DEF a
  <2> QED BY <1>1, <2>2
<1>3. /\ b \in Seq(S) /\ Len(b) = Len(s) - i /\ \A k \in 1..(Len(s) - i) : b[k] = s[i + k]
  <2>1. i + 1 \in Int /\ Len(s) \in Int /\ \A k \in (i + 1)..Len(s) : s[k] \in S
    BY <1>1
  <2>2. /\ b \in Seq(S) /\ Len(b) = (IF i + 1 <= Len(s) THEN Len(s) - (i + 1) + 1 ELSE 0)
        /\ \A k \in 1..(Len(s) - (i + 1) + 1) : b[k] = s[(i + 1) + k - 1]
    BY ONLY <2>1, SubSeqProperties
  <2>3. /\ Len(s) - (i + 1) + 1 = Len(s) - i
        /\ IF i + 1 <= Len(s) THEN TRUE ELSE Len(s) - i = 0
    BY <1>1
  <2>4. \A k \in 1..(Len(s) - i) : (i + 1) + k - 1 = i + k
    BY <1>1
  <2> HIDE DEF b
  <2>5. Len(b) = Len(s) - i
    BY ONLY <2>2, <2>3
  <2>6. \A k \in 1..(Len(s) - i) : b[k] = s[i + k]
    BY ONLY <2>2, <2>3, <2>4
  <2> QED BY <2>2, <2>5, <2>6
<1>4. InsertAt(s, i + 1, e) = (a \o <<e>>) \o b
  <2>1. (i + 1) - 1 = i
    BY <1>1
  <2> QED BY <2>1 DEF InsertAt
<1> HIDE DEF a, b
<1>5. /\ <<e>> \in Seq(S) /\ Len(<<e>>) = 1 /\ <<e>>[1] = e
  OBVIOUS
<1> DEFINE c == a \o <<e>>
<1>6. /\ c \in Seq(S) /\ Len(c) = i + 1
      /\ \A k \in 1..(i + 1) : c[k] = IF k <= i THEN a[k] ELSE e
  <2> DEFINE d == <<e>>
  <2>1. /\ a \o d \in Seq(S) /\ Len(a \o d) = Len(a) + Len(d)
        /\ \A k \in 1..Len(a) + Len(d) : (a \o d)[k] = IF k <= Len(a) THEN a[k] ELSE d[k - Len(a)]
    BY ONLY <1>2, <1>5, ConcatProperties
  <2>2. \A k \in 1..(i + 1) : k > i => d[k - i] = e
    BY <1>1, <1>5
  <2> QED BY <1>1, <1>2, <1>5, <2>1, <2>2
<1> HIDE DEF c
<1>7. /\ c \o b \in Seq(S) /\ Len(c \o b) = Len(c) + Len(b)
      /\ \A k \in 1..Len(c) + Len(b) : (c \o b)[k] = IF k <= Len(c) THEN c[k] ELSE b[k - Len(c)]
  BY <1>3, <1>6, ConcatProperties
<1>8. DOMAIN (c \o b) = 1..(Len(s) + 1) /\ c \o b # <<>> /\ i + 1 \in DOMAIN (c \o b)
  <2>1. Len(c \o b) = Len(s) + 1
    BY <1>1, <1>3, <1>6, <1>7
  <2> QED BY <1>1, <1>7, <2>1, LenProperties
<1>9. ASSUME NEW j \in 1..(Len(s) + 1)
      PROVE  (c \o b)[j] = e \/ \E k \in DOMAIN s : (c \o b)[j] = s[k]
  <2>1. CASE j <= i
    <3>1. (c \o b)[j] = s[j] /\ j \in 1..Len(s)
      BY <1>1, <1>2, <1>3, <1>6, <1>7, <2>1
    <3> QED BY <1>1, <3>1
  <2>2. CASE j = i + 1
    BY <1>1, <1>3, <1>6, <1>7, <2>2
  <2>3. CASE j > i + 1
    <3>1. j - Len(c) \in 1..(Len(s) - i) /\ i + (j - Len(c)) = j - 1 /\ j - 1 \in 1..Len(s)
      <4>1. Len(c) = i + 1 /\ i \in 1..Len(s) /\ Len(s) \in Nat /\ j \in 1..(Len(s) + 1) /\ j > i + 1
        BY <1>1, <1>6, <1>9, <2>3
      <4> QED BY ONLY <4>1
    <3>2. (c \o b)[j] = b[j - Len(c)]
      BY <1>1, <1>3, <1>6, <1>7, <2>3
    <3>3. b[j - Len(c)] = s[j - 1]
      BY ONLY <1>3, <3>1
    <3> QED BY <1>1, <3>1, <3>2, <3>3
  <2>4. j <= i \/ j = i + 1 \/ j > i + 1
    BY <1>1
  <2> QED BY ONLY <2>1, <2>2, <2>3, <2>4
<1>10. InsertAt(s, i + 1, e) = c \o b
  BY <1>4 DEF c
<1> QED BY <1>7, <1>8, <1>9, <1>10

(* A consent dialog names the endpoint in use; the switch waits for it.    *)
DialogAsks ==
  dialog # NoScope => dialog = ScopeOf[url] /\ switch /\ ~enabled /\ shownPage = "llm"

(* Presets whose prompts are their own or of the preset they copy.         *)
Sound(ps) ==
  /\ ps \in Seq(Preset) /\ ps # <<>>
  /\ \A i \in DOMAIN ps : ps[i].id \in ps[i].of /\ ps[i].prompt[1] \in ps[i].of

(* A prompt that is still to be saved was typed for the preset it will go  *)
(* to.                                                                     *)
PendingIsOwn == edit # NoEdit => edit.text[1] \in presets[edit.at].of

(* The invariant behind PagesSafety.                                       *)
PagesInv == PagesSafety /\ DialogAsks /\ Sound(presets) /\ PendingIsOwn

(* A preset keeps its identity and its copies when its prompt is replaced. *)
LEMMA PresetFacts ==
  /\ \A n \in 1..MaxPresets :
       /\ NewPreset(n) \in Preset /\ NewPreset(n).id = n /\ NewPreset(n).of = {n}
       /\ NewPreset(n).prompt = <<n, 0>> /\ NewPreset(n).prompt[1] = n
  /\ \A q \in Preset, e \in Text :
       /\ [q EXCEPT !.prompt = e] \in Preset /\ [q EXCEPT !.prompt = e].prompt = e
       /\ [q EXCEPT !.prompt = e].id = q.id /\ [q EXCEPT !.prompt = e].of = q.of
  /\ \A q \in Preset, n \in 1..MaxPresets :
       LET c == [q EXCEPT !.id = n, !.of = @ \cup {n}]
       IN  c \in Preset /\ c.id = n /\ c.of = q.of \cup {n} /\ c.prompt = q.prompt
  /\ \A q \in Preset : q.id \in 1..MaxPresets /\ q.prompt \in Text
  /\ \A n \in 0..MaxPresets, k \in 0..MaxPageActs : <<n, k>> \in Text /\ <<n, k>>[1] = n
<1>1. \A n \in 1..MaxPresets :
       /\ NewPreset(n) \in Preset /\ NewPreset(n).id = n /\ NewPreset(n).of = {n}
       /\ NewPreset(n).prompt = <<n, 0>> /\ NewPreset(n).prompt[1] = n
  BY SettingsAssumption DEF NewPreset, Preset, Text
<1>2. \A q \in Preset, e \in Text :
       /\ [q EXCEPT !.prompt = e] \in Preset /\ [q EXCEPT !.prompt = e].prompt = e
       /\ [q EXCEPT !.prompt = e].id = q.id /\ [q EXCEPT !.prompt = e].of = q.of
  BY DEF Preset
<1>3. \A q \in Preset, n \in 1..MaxPresets :
       LET c == [q EXCEPT !.id = n, !.of = @ \cup {n}]
       IN  c \in Preset /\ c.id = n /\ c.of = q.of \cup {n} /\ c.prompt = q.prompt
  BY DEF Preset
<1>4. /\ \A q \in Preset : q.id \in 1..MaxPresets /\ q.prompt \in Text
      /\ \A n \in 0..MaxPresets, k \in 0..MaxPageActs : <<n, k>> \in Text /\ <<n, k>>[1] = n
  BY DEF Preset, Text
<1> QED BY <1>1, <1>2, <1>3, <1>4

(* The pending prompt, saved, lands on its preset.                         *)
LEMMA SavedFacts ==
  ASSUME PagesInv
  PROVE  /\ Sound(Saved(edit)) /\ DOMAIN Saved(edit) = DOMAIN presets
         /\ Len(Saved(edit)) = Len(presets) /\ Ids(Saved(edit)) = Ids(presets)
         /\ Saved(NoEdit) = presets
<1>1. /\ presets \in Seq(Preset) /\ presets # <<>> /\ Sound(presets) /\ PendingIsOwn
      /\ edit = NoEdit \/ (edit.at \in DOMAIN presets /\ edit.text \in Text)
      /\ DOMAIN presets = 1..Len(presets) /\ Len(presets) \in Nat
  BY LenProperties DEF PagesInv, PagesSafety, PagesTypeOK
<1>2. Saved(NoEdit) = presets
  BY DEF Saved
<1>3. CASE edit = NoEdit
  <2>1. Saved(edit) = presets
    BY <1>3 DEF Saved
  <2> QED BY <1>1, <1>2, <2>1
<1>4. CASE edit # NoEdit
  <2> DEFINE i == edit.at
             q == [presets[i] EXCEPT !.prompt = edit.text]
             ps == [presets EXCEPT ![i] = q]
  <2>1. Saved(edit) = ps /\ i \in 1..Len(presets) /\ edit.text \in Text /\ presets[i] \in Preset
    BY <1>1, <1>4, ElementOfSeq DEF Saved
  <2>2. /\ q \in Preset /\ q.id = presets[i].id /\ q.of = presets[i].of /\ q.prompt = edit.text
    BY <2>1 DEF Preset
  <2>3. q.id \in q.of /\ q.prompt[1] \in q.of
    BY <1>1, <1>4, <2>1, <2>2 DEF Sound, PendingIsOwn
  <2> HIDE DEF q, i
  <2>4. /\ ps \in Seq(Preset) /\ Len(ps) = Len(presets)
        /\ \A j \in 1..Len(presets) : ps[j] = IF j = i THEN q ELSE presets[j]
    BY <1>1, <2>1, <2>2, ExceptSeq
  <2> HIDE DEF ps
  <2>5. DOMAIN ps = DOMAIN presets /\ ps # <<>>
    BY <1>1, <2>4, LenProperties
  <2>6. \A j \in DOMAIN ps : ps[j].id = presets[j].id /\ ps[j].id \in ps[j].of
                                /\ ps[j].prompt[1] \in ps[j].of
    BY <1>1, <2>2, <2>3, <2>4, <2>5 DEF Sound
  <2>7. Sound(ps) /\ Ids(ps) = Ids(presets)
    BY <2>4, <2>5, <2>6 DEF Sound, Ids
  <2> QED BY <1>2, <2>1, <2>4, <2>5, <2>7
<1> QED BY <1>3, <1>4

(* The two built-in presets, and nothing typed.                            *)
LEMMA PagesInitHolds == PagesInit => PagesInv
<1> SUFFICES ASSUME PagesInit PROVE PagesInv
  OBVIOUS
<1> DEFINE one == NewPreset(1)
           two == NewPreset(2)
<1>1. /\ 1 \in 1..MaxPresets /\ 1 \in 0..MaxPresets /\ 2 \in 1..MaxPresets /\ 0 \in 0..MaxPageActs /\ 0 \in 0..MaxRules
      /\ MaxPresets \in Nat
  BY SettingsAssumption
<1>2. /\ one \in Preset /\ two \in Preset
      /\ \A q \in {one, two} : q.id \in q.of /\ q.prompt[1] \in q.of
      /\ <<1, 0>> \in Text
  <2>1. /\ one \in Preset /\ one.id \in one.of /\ one.prompt[1] \in one.of
    BY <1>1, PresetFacts
  <2>2. /\ two \in Preset /\ two.id \in two.of /\ two.prompt[1] \in two.of
    BY <1>1, PresetFacts
  <2>3. <<1, 0>> \in Text
    BY <1>1 DEF Text
  <2> HIDE DEF one, two
  <2> QED BY <2>1, <2>2, <2>3
<1> HIDE DEF one, two
<1>3. /\ <<one, two>> \in Seq(Preset) /\ <<one, two>> # <<>> /\ DOMAIN <<one, two>> = {1, 2}
      /\ \A i \in {1, 2} : <<one, two>>[i] \in {one, two}
  BY <1>2
<1>4. presets = <<one, two>>
  BY DEF PagesInit, one, two
<1>5. Sound(presets)
  BY <1>2, <1>3, <1>4 DEF Sound
<1>6. PagesTypeOK
  <2>1. presets \in Seq(Preset) /\ presets # <<>> /\ 1 \in DOMAIN presets
    BY <1>3, <1>4
  <2>2. rules \in Seq(1..MaxRules)
    BY DEF PagesInit
  <2>3. /\ active = 1 /\ index = 1 /\ edit = NoEdit /\ prompt \in Text
    BY <1>2 DEF PagesInit
  <2>4. /\ url \in Url /\ enabled \in BOOLEAN /\ consent = NoScope /\ switch \in BOOLEAN
        /\ dialog = NoScope /\ fetching = {} /\ status = "idle" /\ shownPage = "llm"
        /\ terms = 0 /\ typedTerms = 0 /\ pageActs = 0 /\ made = 0
    BY DEF PagesInit
  <2> QED BY <1>1, <2>1, <2>2, <2>3, <2>4 DEF PagesTypeOK
<1>7. EditsLandOnTheirPreset
  BY <1>5 DEF Sound, EditsLandOnTheirPreset
<1> QED
  BY <1>5, <1>6, <1>7 DEF PagesInit, PagesInv, PagesSafety, EnabledHasConsent, ConsentIsOfEndpoint,
    IndicesMatch, HiddenMeansSaved, DialogAsks, PendingIsOwn

(* The endpoint's actions leave the presets and the dictionary alone.      *)
LEMMA EndpointPreserves ==
  ASSUME PagesInv,
         \/ Enable \/ Consent \/ RefuseConsent \/ Disable
         \/ \E u \in Url : SaveEndpoint(u) \/ Models(u)
  PROVE  PagesInv'
<1>1. /\ PagesTypeOK /\ EnabledHasConsent /\ ConsentIsOfEndpoint /\ EditsLandOnTheirPreset
      /\ IndicesMatch /\ HiddenMeansSaved /\ DialogAsks /\ Sound(presets) /\ PendingIsOwn
  BY DEF PagesInv, PagesSafety
<1>2. /\ MaxPageActs \in Nat /\ pageActs \in 0..MaxPageActs /\ url \in Url /\ consent \in Scope \cup {NoScope}
      /\ \A u \in Url : ScopeOf[u] \in Scope \cup {NoScope}
      /\ enabled \in BOOLEAN /\ switch \in BOOLEAN /\ dialog \in Scope \cup {NoScope}
      /\ fetching \subseteq Url /\ status \in Url \cup {"fetching", "idle", "error"}
  BY <1>1, SettingsAssumption DEF PagesTypeOK, Scope
<1>3. Below
  BY DEF Enable, Consent, RefuseConsent, Disable, SaveEndpoint, Models
<1>4. pageActs' \in 0..MaxPageActs
  BY <1>2 DEF Enable, Consent, RefuseConsent, Disable, SaveEndpoint, Models, PageAct
<1>5. /\ url' \in Url /\ enabled' \in BOOLEAN /\ consent' \in Scope \cup {NoScope}
      /\ switch' \in BOOLEAN /\ dialog' \in Scope \cup {NoScope}
      /\ fetching' \subseteq Url /\ status' \in Url \cup {"fetching", "idle", "error"}
      /\ EnabledHasConsent' /\ ConsentIsOfEndpoint' /\ DialogAsks'
  <2>1. CASE Enable
    <3>1. ~switch /\ dialog = NoScope /\ shownPage = "llm" /\ ~enabled
      BY <1>1, <2>1 DEF Enable, PageAct, EnabledHasConsent
    <3>2. CASE consent # NoScope /\ consent = ScopeOf[url]
      BY <1>1, <1>2, <1>3, <2>1, <3>1, <3>2 DEF Enable, Refresh, EnabledHasConsent,
        ConsentIsOfEndpoint, DialogAsks, Below
    <3>3. CASE ~(consent # NoScope /\ consent = ScopeOf[url])
      BY <1>1, <1>2, <1>3, <2>1, <3>1, <3>3 DEF Enable, EnabledHasConsent,
        ConsentIsOfEndpoint, DialogAsks, Below
    <3> QED BY <3>2, <3>3
  <2>2. CASE Consent
    <3>1. /\ dialog = ScopeOf[url] /\ switch = TRUE /\ dialog' = NoScope /\ enabled' = TRUE
          /\ consent' = dialog /\ url' = url /\ switch' = TRUE /\ dialog # NoScope
      BY <1>1, <1>2, <2>2 DEF Consent, DialogAsks
    <3>2. fetching' \subseteq Url /\ status' = "fetching"
      BY <1>2, <2>2 DEF Consent, Refresh
    <3> QED BY <1>2, <3>1, <3>2 DEF EnabledHasConsent, ConsentIsOfEndpoint, DialogAsks
  <2>5. CASE RefuseConsent
    <3>1. /\ enabled = FALSE /\ enabled' = FALSE /\ dialog' = NoScope /\ switch' = FALSE
          /\ UNCHANGED <<url, consent, fetching, status>>
      BY <1>1, <1>2, <2>5 DEF RefuseConsent, DialogAsks
    <3> QED BY <1>1, <1>2, <3>1 DEF EnabledHasConsent, ConsentIsOfEndpoint, DialogAsks
  <2>6. CASE Disable
    <3>1. /\ dialog = NoScope /\ dialog' = NoScope /\ enabled' = FALSE /\ switch' = FALSE
          /\ UNCHANGED <<url, consent, fetching, status>>
      BY <2>6 DEF Disable, PageAct
    <3> QED BY <1>1, <1>2, <3>1 DEF EnabledHasConsent, ConsentIsOfEndpoint, DialogAsks
  <2>3. ASSUME NEW u \in Url, SaveEndpoint(u)
        PROVE  /\ url' \in Url /\ enabled' \in BOOLEAN /\ consent' \in Scope \cup {NoScope}
               /\ switch' \in BOOLEAN /\ dialog' \in Scope \cup {NoScope}
               /\ fetching' \subseteq Url /\ status' \in Url \cup {"fetching", "idle", "error"}
               /\ EnabledHasConsent' /\ ConsentIsOfEndpoint' /\ DialogAsks'
    <3>1. /\ dialog = NoScope /\ dialog' = NoScope /\ url' = u /\ fetching' \subseteq Url /\ status' = "fetching"
          /\ switch = enabled
      BY <1>1, <1>2, <2>3 DEF SaveEndpoint, PageAct, Refresh, EnabledHasConsent
    <3> DEFINE moved == ScopeOf[url] # ScopeOf[u] /\ (enabled \/ consent # NoScope)
    <3>2. /\ enabled' = (enabled /\ ~moved) /\ switch' = (switch /\ ~moved)
          /\ consent' = IF moved THEN NoScope ELSE consent
      BY <2>3 DEF SaveEndpoint
    <3>3. CASE moved
      <4>1. ~enabled' /\ ~switch' /\ enabled' \in BOOLEAN /\ switch' \in BOOLEAN
        BY <3>2, <3>3, Zenon
      <4>2. consent' = NoScope
        BY <3>2, <3>3
      <4> QED BY <1>2, <3>1, <4>1, <4>2 DEF EnabledHasConsent, ConsentIsOfEndpoint, DialogAsks
    <3>4. CASE ~moved
      <4>1. (enabled' <=> enabled) /\ (switch' <=> switch) /\ enabled' \in BOOLEAN /\ switch' \in BOOLEAN
        BY <3>2, <3>4, Zenon
      <4>2. consent' = consent /\ (ScopeOf[u] = ScopeOf[url] \/ (~enabled /\ consent = NoScope))
        BY <3>2, <3>4
      <4>3. enabled' = switch'
        BY <3>1, <4>1
      <4> QED BY <1>1, <1>2, <3>1, <4>1, <4>2, <4>3
            DEF EnabledHasConsent, ConsentIsOfEndpoint, DialogAsks
    <3> QED BY <3>3, <3>4
  <2>4. ASSUME NEW u \in Url, Models(u)
        PROVE  /\ url' \in Url /\ enabled' \in BOOLEAN /\ consent' \in Scope \cup {NoScope}
               /\ switch' \in BOOLEAN /\ dialog' \in Scope \cup {NoScope}
               /\ fetching' \subseteq Url /\ status' \in Url \cup {"fetching", "idle", "error"}
               /\ EnabledHasConsent' /\ ConsentIsOfEndpoint' /\ DialogAsks'
    BY <1>1, <1>2, <1>3, <2>4 DEF Models, EnabledHasConsent, ConsentIsOfEndpoint, DialogAsks, Below
  <2> QED BY <2>1, <2>2, <2>3, <2>4, <2>5, <2>6
<1>6. PagesTypeOK'
  BY <1>1, <1>3, <1>4, <1>5 DEF PagesTypeOK, Below, editor, dictionary
<1>7. EditsLandOnTheirPreset' /\ IndicesMatch' /\ HiddenMeansSaved' /\ Sound(presets)' /\ PendingIsOwn'
  BY <1>1, <1>3 DEF Below, editor, dictionary, EditsLandOnTheirPreset, IndicesMatch, HiddenMeansSaved,
    Sound, PendingIsOwn
<1> QED BY <1>5, <1>6, <1>7 DEF PagesInv, PagesSafety

(* What an action on the presets leaves to show.                           *)
LEMMA EditorStep ==
  ASSUME PagesInv, shownPage = "llm",
         Above, pageActs' \in 0..MaxPageActs,
         Sound(presets'), active' \in DOMAIN presets', index' \in DOMAIN presets', prompt' \in Text,
         \/ edit' = NoEdit
         \/ /\ edit'.at \in DOMAIN presets' /\ edit'.text \in Text
            /\ edit'.text[1] \in presets'[edit'.at].of
  PROVE  PagesInv'
<1>1. /\ PagesTypeOK /\ EnabledHasConsent /\ ConsentIsOfEndpoint /\ IndicesMatch /\ HiddenMeansSaved
      /\ DialogAsks
  BY DEF PagesInv, PagesSafety
<1>2. /\ UNCHANGED <<url, enabled, consent, switch, dialog, fetching, status>>
      /\ UNCHANGED <<rules, terms, typedTerms, ruleRows, shownPage, chips, made>>
  BY DEF Above, llmTop, dictionary
<1>3. PagesTypeOK'
  BY <1>1, <1>2 DEF PagesTypeOK, Sound
<1>4. /\ EnabledHasConsent' /\ ConsentIsOfEndpoint' /\ IndicesMatch' /\ HiddenMeansSaved' /\ DialogAsks'
  BY <1>1, <1>2 DEF EnabledHasConsent, ConsentIsOfEndpoint, IndicesMatch, HiddenMeansSaved, DialogAsks
<1>5. EditsLandOnTheirPreset' /\ Sound(presets)' /\ PendingIsOwn'
  BY DEF EditsLandOnTheirPreset, Sound, PendingIsOwn
<1> QED BY <1>3, <1>4, <1>5 DEF PagesInv, PagesSafety

(* What the editor's actions start from.                                   *)
LEMMA EditorFacts ==
  ASSUME PagesInv
  PROVE  /\ Sound(presets) /\ presets \in Seq(Preset) /\ presets # <<>>
         /\ Len(presets) \in Nat /\ DOMAIN presets = 1..Len(presets)
         /\ \A i \in DOMAIN presets : presets[i] \in Preset /\ presets[i].prompt \in Text
         /\ active \in DOMAIN presets /\ index \in DOMAIN presets /\ prompt \in Text
         /\ \/ edit = NoEdit
            \/ /\ edit.at \in DOMAIN presets /\ edit.text \in Text
               /\ edit.text[1] \in presets[edit.at].of
         /\ MaxPageActs \in Nat /\ MaxPresets \in Nat /\ pageActs \in 0..MaxPageActs
         /\ PageAct("llm") => shownPage = "llm" /\ pageActs + 1 \in 0..MaxPageActs
                              /\ pageActs' \in 0..MaxPageActs
<1>1. PagesTypeOK /\ Sound(presets) /\ PendingIsOwn
  BY DEF PagesInv, PagesSafety
<1>2. /\ presets \in Seq(Preset) /\ presets # <<>> /\ active \in DOMAIN presets
      /\ index \in DOMAIN presets /\ prompt \in Text /\ pageActs \in 0..MaxPageActs
      /\ edit = NoEdit \/ (edit.at \in DOMAIN presets /\ edit.text \in Text)
  BY <1>1 DEF PagesTypeOK
<1>3. Len(presets) \in Nat /\ DOMAIN presets = 1..Len(presets)
  BY <1>2, LenProperties
<1>4. \A i \in DOMAIN presets : presets[i] \in Preset /\ presets[i].prompt \in Text
  BY <1>2, <1>3, ElementOfSeq, PresetFacts
<1>5. edit = NoEdit \/ edit.text[1] \in presets[edit.at].of
  BY <1>1 DEF PendingIsOwn
<1>6. MaxPageActs \in Nat /\ MaxPresets \in Nat
  BY SettingsAssumption
<1>7. PageAct("llm") => shownPage = "llm" /\ pageActs + 1 \in 0..MaxPageActs
                              /\ pageActs' \in 0..MaxPageActs
  BY <1>2, <1>6 DEF PageAct
<1> QED BY <1>1, <1>2, <1>3, <1>4, <1>5, <1>6, <1>7

(* A prompt is typed.                                                      *)
LEMMA TypePreserves ==
  ASSUME PagesInv, Type
  PROVE  PagesInv'
<1>1. /\ PageAct("llm") /\ prompt' = <<presets[index].id, pageActs + 1>>
      /\ edit' = [at |-> index, text |-> prompt']
      /\ UNCHANGED <<presets, active, index>> /\ Above
  BY DEF Type
<1>2. /\ presets[index].id \in 1..MaxPresets /\ presets[index].id \in presets[index].of
  BY EditorFacts, PresetFacts DEF Sound
<1>3. presets[index].id \in 0..MaxPresets /\ pageActs + 1 \in 0..MaxPageActs
  BY <1>1, <1>2, EditorFacts
<1>4. prompt' \in Text /\ prompt'[1] = presets[index].id
  BY <1>1, <1>3 DEF Text
<1>5. /\ edit'.at = index /\ edit'.text = prompt'
      /\ edit'.at \in DOMAIN presets' /\ edit'.text \in Text
      /\ edit'.text[1] \in presets'[edit'.at].of
  BY <1>1, <1>2, <1>4, EditorFacts
<1>6. /\ shownPage = "llm" /\ pageActs' \in 0..MaxPageActs /\ Sound(presets')
      /\ active' \in DOMAIN presets' /\ index' \in DOMAIN presets'
  BY <1>1, EditorFacts
<1> QED BY ONLY <1>1, <1>4, <1>5, <1>6, PagesInv, EditorStep

(* The debounced save.                                                     *)
LEMMA SaveEditPreserves ==
  ASSUME PagesInv, SaveEdit
  PROVE  PagesInv'
<1>1. /\ edit # NoEdit /\ edit' = NoEdit /\ presets' = Saved(edit)
      /\ UNCHANGED <<active, index, prompt, pageActs>> /\ Above
  BY DEF SaveEdit
<1>2. shownPage = "llm"
  BY <1>1 DEF PagesInv, PagesSafety, HiddenMeansSaved
<1>3. /\ Sound(presets') /\ DOMAIN presets' = DOMAIN presets
  BY <1>1, SavedFacts
<1>4. /\ pageActs' \in 0..MaxPageActs /\ active' \in DOMAIN presets' /\ index' \in DOMAIN presets'
      /\ prompt' \in Text
  BY <1>1, <1>3, EditorFacts
<1> QED BY ONLY <1>1, <1>2, <1>3, <1>4, PagesInv, EditorStep

(* Another preset is opened, or the one in the editor anew.                *)
LEMMA SelectPreserves ==
  ASSUME PagesInv, Rename \/ \E i \in DOMAIN presets : SelectPreset(i)
  PROVE  PagesInv'
<1>1. PICK i \in DOMAIN presets :
        /\ PageAct("llm") /\ Edits(i, presets) /\ active' \in {active, i}
        /\ UNCHANGED <<presets, edit>> /\ Above
  BY EditorFacts DEF Rename, SelectPreset
<1>2. /\ shownPage = "llm" /\ pageActs' \in 0..MaxPageActs /\ Sound(presets')
      /\ active' \in DOMAIN presets' /\ index' \in DOMAIN presets' /\ prompt' \in Text
      /\ \/ edit' = NoEdit
         \/ /\ edit'.at \in DOMAIN presets' /\ edit'.text \in Text
            /\ edit'.text[1] \in presets'[edit'.at].of
  BY <1>1, EditorFacts DEF Edits
<1> QED BY ONLY <1>1, <1>2, PagesInv, EditorStep

(* A new preset's identity.                                                *)
LEMMA FreshFacts ==
  ASSUME Room
  PROVE  Fresh \in 1..MaxPresets
BY DEF Room, Fresh

(* A preset is added at the end.                                           *)
LEMMA AddPreserves ==
  ASSUME PagesInv, AddPreset
  PROVE  PagesInv'
<1> DEFINE q == NewPreset(Fresh)
<1>1. /\ PageAct("llm") /\ Room /\ presets' = Append(presets, q) /\ active' = Len(presets')
      /\ Edits(Len(presets'), presets') /\ UNCHANGED edit /\ Above
  BY DEF AddPreset
<1>2. q \in Preset /\ q.id \in q.of /\ q.prompt[1] \in q.of /\ q.prompt \in Text
  <2>1. Fresh \in 1..MaxPresets
    BY <1>1, FreshFacts
  <2> HIDE DEF Fresh
  <2> QED BY <2>1, PresetFacts
<1> HIDE DEF q
<1>3. /\ presets' \in Seq(Preset) /\ Len(presets') = Len(presets) + 1 /\ presets' # <<>>
      /\ DOMAIN presets' = 1..(Len(presets) + 1) /\ presets'[Len(presets) + 1] = q
      /\ \A j \in DOMAIN presets : j \in DOMAIN presets' /\ presets'[j] = presets[j]
  BY <1>1, <1>2, EditorFacts, AppendFacts
<1>4. \A i \in DOMAIN presets' : i \in DOMAIN presets \/ i = Len(presets) + 1
  BY <1>3, EditorFacts
<1>5. Sound(presets')
  <2>1. \A i \in DOMAIN presets : presets[i].id \in presets[i].of /\ presets[i].prompt[1] \in presets[i].of
    BY EditorFacts DEF Sound
  <2> QED BY <1>2, <1>3, <1>4, <2>1 DEF Sound
<1>6. Len(presets') \in DOMAIN presets' /\ presets'[Len(presets')] = q
  BY <1>3, EditorFacts
<1>7. /\ shownPage = "llm" /\ pageActs' \in 0..MaxPageActs
      /\ active' \in DOMAIN presets' /\ index' \in DOMAIN presets' /\ prompt' \in Text
  BY <1>1, <1>2, <1>6, EditorFacts DEF Edits
<1>8. \/ edit' = NoEdit
      \/ /\ edit'.at \in DOMAIN presets' /\ edit'.text \in Text
         /\ edit'.text[1] \in presets'[edit'.at].of
  BY <1>1, <1>3, EditorFacts
<1> QED BY ONLY <1>1, <1>5, <1>7, <1>8, PagesInv, EditorStep

(* A copy is inserted after its original, once what was typed is saved.    *)
LEMMA DuplicatePreserves ==
  ASSUME PagesInv, DuplicatePreset
  PROVE  PagesInv'
<1> DEFINE ps == Saved(edit)
           copy == [ps[index] EXCEPT !.id = Fresh, !.of = @ \cup {Fresh}]
<1>1. /\ PageAct("llm") /\ Room /\ edit' = NoEdit /\ presets' = InsertAt(ps, index + 1, copy)
      /\ active' = index + 1 /\ Edits(index + 1, presets') /\ Above
  BY DEF DuplicatePreset
<1>2. Sound(ps) /\ DOMAIN ps = DOMAIN presets /\ index \in DOMAIN ps
  BY SavedFacts, EditorFacts
<1> HIDE DEF ps
<1>3. ps \in Seq(Preset) /\ ps[index] \in Preset
  <2>1. ps \in Seq(Preset) /\ DOMAIN ps = 1..Len(ps)
    BY <1>2, LenProperties DEF Sound
  <2> QED BY <1>2, <2>1, ElementOfSeq
<1>4. /\ copy \in Preset /\ copy.id = Fresh /\ copy.of = ps[index].of \cup {Fresh}
      /\ copy.prompt = ps[index].prompt
  <2>1. Fresh \in 1..MaxPresets
    BY <1>1, FreshFacts
  <2> HIDE DEF Fresh
  <2> QED BY <1>3, <2>1 DEF Preset
<1>5. copy.id \in copy.of /\ copy.prompt[1] \in copy.of
  BY <1>2, <1>4 DEF Sound
<1> HIDE DEF copy
<1>6. /\ presets' \in Seq(Preset) /\ presets' # <<>> /\ index + 1 \in DOMAIN presets'
      /\ \A j \in DOMAIN presets' : presets'[j] = copy \/ \E k \in DOMAIN ps : presets'[j] = ps[k]
  BY <1>1, <1>2, <1>3, <1>4, InsertAfterFacts
<1>7. Sound(presets')
  BY <1>2, <1>5, <1>6 DEF Sound
<1>8. presets'[index + 1].prompt \in Text
  <2>1. DOMAIN presets' = 1..Len(presets')
    BY <1>6, LenProperties
  <2>2. presets'[index + 1] \in Preset
    BY <1>6, <2>1, ElementOfSeq
  <2> QED BY <2>2, PresetFacts
<1>9. /\ shownPage = "llm" /\ pageActs' \in 0..MaxPageActs
      /\ active' \in DOMAIN presets' /\ index' \in DOMAIN presets' /\ prompt' \in Text
  BY <1>1, <1>6, <1>8, EditorFacts DEF Edits
<1> QED BY ONLY <1>1, <1>7, <1>9, PagesInv, EditorStep

(* Presets stay sound when one of several is removed.                      *)
LEMMA RemovedIsSound ==
  ASSUME NEW ps, Sound(ps), NEW i \in DOMAIN ps, Len(ps) > 1
  PROVE  /\ RemoveAt(ps, i) \in Seq(Preset) /\ Len(RemoveAt(ps, i)) = Len(ps) - 1
         /\ DOMAIN RemoveAt(ps, i) = 1..(Len(ps) - 1) /\ Sound(RemoveAt(ps, i))
<1> DEFINE out == RemoveAt(ps, i)
<1>1. ps \in Seq(Preset) /\ Len(ps) \in Nat
  BY LenProperties DEF Sound
<1>2. /\ out \in Seq(Preset) /\ Len(out) = Len(ps) - 1 /\ DOMAIN out = 1..(Len(ps) - 1)
  BY <1>1, RemoveAtFacts
<1>3. \A j \in DOMAIN out : \E k \in DOMAIN ps : out[j] = ps[k]
  BY <1>1, RemoveAtFacts
<1> HIDE DEF out
<1>4. out # <<>>
  BY <1>1, <1>2
<1>5. Sound(out)
  BY <1>2, <1>3, <1>4 DEF Sound
<1> QED BY <1>2, <1>5 DEF out

(* A preset is removed, once what was typed is saved.                      *)
LEMMA DeletePresetPreserves ==
  ASSUME PagesInv, DeletePreset
  PROVE  PagesInv'
<1> DEFINE ps == Saved(edit)
<1>1. /\ PageAct("llm") /\ Len(presets) > 1 /\ edit' = NoEdit /\ presets' = RemoveAt(ps, index)
      /\ active' = Clamped(index, presets') /\ Edits(active', presets') /\ Above
  BY DEF DeletePreset
<1>2. /\ Sound(ps) /\ DOMAIN ps = DOMAIN presets /\ index \in DOMAIN ps /\ Len(ps) = Len(presets)
      /\ ps \in Seq(Preset)
  BY SavedFacts, EditorFacts DEF Sound
<1> HIDE DEF ps
<1>3. /\ presets' \in Seq(Preset) /\ Len(presets') = Len(presets) - 1
      /\ DOMAIN presets' = 1..(Len(presets) - 1) /\ Sound(presets')
  BY <1>1, <1>2, RemovedIsSound
<1>4. Len(presets) \in Nat /\ index \in 1..Len(presets)
  BY EditorFacts
<1>5. presets' # <<>> /\ active' \in DOMAIN presets'
  <2>1. Len(presets') # 0
    BY <1>1, <1>3, <1>4
  <2> QED BY <1>1, <1>3, <1>4, <2>1 DEF Clamped
<1>7. presets'[active'].prompt \in Text
  <2>1. active' \in 1..Len(presets')
    BY <1>3, <1>5
  <2>2. presets'[active'] \in Preset
    BY <1>3, <2>1, ElementOfSeq
  <2> QED BY <2>2, PresetFacts
<1>8. /\ shownPage = "llm" /\ pageActs' \in 0..MaxPageActs /\ index' \in DOMAIN presets' /\ prompt' \in Text
  BY <1>1, <1>5, <1>7, EditorFacts DEF Edits
<1> QED BY ONLY <1>1, <1>3, <1>5, <1>8, PagesInv, EditorStep

(* The dictionary's actions leave the endpoint and the presets alone.      *)
LEMMA DictionaryPreserves ==
  ASSUME PagesInv, TypeTerms \/ SaveTerms \/ AddRule \/ \E k \in DOMAIN ruleRows : RemoveRule(k)
  PROVE  PagesInv'
<1>1. /\ PagesTypeOK /\ EnabledHasConsent /\ ConsentIsOfEndpoint /\ EditsLandOnTheirPreset
      /\ IndicesMatch /\ HiddenMeansSaved /\ DialogAsks /\ Sound(presets) /\ PendingIsOwn
      /\ MaxPageActs \in Nat /\ MaxRules \in Nat
  BY SettingsAssumption DEF PagesInv, PagesSafety
<1>2. /\ UNCHANGED <<url, enabled, consent, switch, dialog, fetching, status>>
      /\ UNCHANGED <<presets, active, index, prompt, edit, shownPage, chips>>
  BY DEF TypeTerms, SaveTerms, AddRule, RemoveRule, Beside, llmTop, editor
<1>3. /\ rules' \in Seq(1..MaxRules) /\ terms' \in 0..MaxPageActs /\ typedTerms' \in 0..MaxPageActs
      /\ pageActs' \in 0..MaxPageActs /\ made' \in 0..MaxRules /\ ruleRows' = rules'
      /\ shownPage # "dictionary" => terms' = typedTerms'
  <2>1. /\ rules \in Seq(1..MaxRules) /\ terms \in 0..MaxPageActs /\ typedTerms \in 0..MaxPageActs
        /\ pageActs \in 0..MaxPageActs /\ made \in 0..MaxRules /\ ruleRows = rules
        /\ shownPage # "dictionary" => terms = typedTerms
    BY <1>1 DEF PagesTypeOK, IndicesMatch, HiddenMeansSaved
  <2>2. CASE TypeTerms \/ SaveTerms
    BY <1>1, <2>1, <2>2 DEF TypeTerms, SaveTerms, PageAct
  <2>3. CASE AddRule
    <3>1. made + 1 \in 1..MaxRules /\ rules' = Append(rules, made + 1)
      BY <1>1, <2>1, <2>3 DEF AddRule
    <3>2. rules' \in Seq(1..MaxRules)
      BY <2>1, <3>1, AppendFacts
    <3> QED BY <1>1, <2>1, <2>3, <3>1, <3>2 DEF AddRule, PageAct
  <2>4. ASSUME NEW k \in DOMAIN ruleRows, RemoveRule(k)
        PROVE  /\ rules' \in Seq(1..MaxRules) /\ terms' \in 0..MaxPageActs /\ typedTerms' \in 0..MaxPageActs
               /\ pageActs' \in 0..MaxPageActs /\ made' \in 0..MaxRules /\ ruleRows' = rules'
               /\ shownPage # "dictionary" => terms' = typedTerms'
    <3>1. rules' = RemoveAt(rules, k) /\ k \in DOMAIN rules
      BY <2>1, <2>4 DEF RemoveRule
    <3>2. rules' \in Seq(1..MaxRules)
      BY <2>1, <3>1, RemoveAtFacts
    <3> QED BY <1>1, <2>1, <2>4, <3>2 DEF RemoveRule, PageAct
  <2> QED BY <2>2, <2>3, <2>4
<1>4. PagesTypeOK'
  BY <1>1, <1>2, <1>3 DEF PagesTypeOK
<1>5. EnabledHasConsent' /\ ConsentIsOfEndpoint' /\ EditsLandOnTheirPreset' /\ IndicesMatch'
      /\ HiddenMeansSaved' /\ DialogAsks' /\ Sound(presets)' /\ PendingIsOwn'
  BY <1>1, <1>2, <1>3 DEF EnabledHasConsent, ConsentIsOfEndpoint, EditsLandOnTheirPreset, IndicesMatch,
    HiddenMeansSaved, DialogAsks, Sound, PendingIsOwn
<1> QED BY <1>4, <1>5 DEF PagesInv, PagesSafety

(* A page that is left saves what it still held.                           *)
LEMMA NavigatePreserves ==
  ASSUME PagesInv, NEW p \in {"llm", "dictionary", "transcription"}, Navigate(p)
  PROVE  PagesInv'
<1>1. /\ PagesTypeOK /\ EnabledHasConsent /\ ConsentIsOfEndpoint
      /\ IndicesMatch /\ HiddenMeansSaved /\ DialogAsks
      /\ MaxPageActs \in Nat
  BY SettingsAssumption DEF PagesInv, PagesSafety
<1>2. /\ dialog = NoScope /\ pageActs < MaxPageActs /\ pageActs' = pageActs + 1 /\ shownPage' = p
      /\ edit' = NoEdit /\ presets' = Saved(edit) /\ chips' = Ids(presets)
      /\ terms' = typedTerms /\ switch' = enabled /\ ruleRows' = rules
      /\ UNCHANGED <<url, enabled, consent, active, rules, dialog, fetching, status, index, prompt,
                 typedTerms, made>>
  BY DEF Navigate, PageAct
<1>3. Sound(presets') /\ DOMAIN presets' = DOMAIN presets /\ Ids(presets') = Ids(presets)
  BY <1>2, SavedFacts
<1>4. PagesTypeOK'
  <2>1. presets' \in Seq(Preset) /\ presets' # <<>>
    BY <1>3 DEF Sound
  <2> QED BY <1>1, <1>2, <1>3, <2>1 DEF PagesTypeOK
<1>5. /\ EnabledHasConsent' /\ ConsentIsOfEndpoint' /\ IndicesMatch' /\ HiddenMeansSaved' /\ DialogAsks'
  BY <1>1, <1>2, <1>3 DEF EnabledHasConsent, ConsentIsOfEndpoint, IndicesMatch, HiddenMeansSaved, DialogAsks
<1>6. EditsLandOnTheirPreset' /\ Sound(presets)' /\ PendingIsOwn'
  BY <1>2, <1>3 DEF EditsLandOnTheirPreset, Sound, PendingIsOwn
<1> QED BY <1>4, <1>5, <1>6 DEF PagesInv, PagesSafety

(* Text is sent only where the user agreed to, a prompt is saved to the    *)
(* preset it was typed for or to a copy, rows and chips are what their     *)
(* indices find, and a page that is left owes nothing: for any number of   *)
(* endpoints, presets, rules and acts.                                     *)
THEOREM PagesSafetyAlways ==
  PagesInit /\ [][PagesNext]_pageVars => []PagesSafety
<1>1. PagesInit => PagesInv
  BY PagesInitHolds
<1>2. ASSUME PagesInv, [PagesNext]_pageVars PROVE PagesInv'
  <2>1. CASE UNCHANGED pageVars
    BY <1>2, <2>1 DEF pageVars, config, editor, PagesInv, PagesSafety, PagesTypeOK, EnabledHasConsent,
      ConsentIsOfEndpoint, EditsLandOnTheirPreset, IndicesMatch, HiddenMeansSaved, DialogAsks, Sound,
      PendingIsOwn
  <2> QED BY <1>2, <2>1, EndpointPreserves, TypePreserves, SaveEditPreserves, SelectPreserves,
        AddPreserves, DuplicatePreserves, DeletePresetPreserves, DictionaryPreserves, NavigatePreserves
        DEF PagesNext
<1>3. PagesInv => PagesSafety
  BY DEF PagesInv
<1> QED BY <1>1, <1>2, <1>3, PTL
=============================================================================
