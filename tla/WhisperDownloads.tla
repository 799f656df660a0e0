-------------------------- MODULE WhisperDownloads --------------------------
(***************************************************************************)
(* Downloading, resuming, selecting and deleting Whisper models: the rows  *)
(* of the Model page with their one shared Cancel button, the welcome      *)
(* wizard, the download task, the models directory, and the configuration  *)
(* (ConfigStore), across shutdowns, crashes and restarts.                  *)
(*                                                                         *)
(* A task writes to a partial file next to the model's, checks its hash    *)
(* and renames it.  The partial file outlives a cancelled, interrupted or  *)
(* crashed task, and the next one resumes it.  A task holds its file open: *)
(* its writes go where the rename or the removal of another task has left  *)
(* that file (at).                                                         *)
(***************************************************************************)
EXTENDS ConfigStore, FiniteSets

CONSTANTS
  Model,      (* Models of the catalog.                                    *)
  Sibling,    (* The other variant (quantized or full) of the same model.  *)
  FirstPick,  (* The model preselected in the wizard.                      *)
  Dir,        (* Directories that can hold models.                         *)
  Slot,       (* Downloads the wizard may run at once.                     *)
  NoModel,
  MaxActs,    (* What the user does at most, restarts included.            *)
  MaxSlips    (* Bytes of the server that are wrong, at most.              *)

ASSUME ModelsAssumption ==
  /\ FirstPick \in Model /\ NoModel \notin Model \cup Slot /\ Model \cap Slot = {}
  /\ Sibling \in [Model -> Model]
  /\ Config = [selected : Model, dir : Dir, first_run : BOOLEAN]
  /\ MaxActs \in Nat /\ MaxSlips \in Nat

Row == Model \cup Slot
File == Dir \X Model

Content == {"none", "empty", "some", "whole", "bad"}
Ended == {"ok", "failed", "cancelled"}
Stage == {"idle", "check", "adopt", "ask", "open", "body", "verify", "publish"} \cup Ended
Job == [stage : Stage, file : File, resume : BOOLEAN, at : {"part", "final", "gone"},
        cancel : BOOLEAN]

VARIABLES
  final,    (* What the model files hold.                                  *)
  part,     (* What the partial files hold.                                *)
  job,      (* The download of each row of the page and slot of the wizard. *)
  label,    (* The page's buttons: one per model.                          *)
  trash,    (* The page's visible delete buttons.                          *)
  current,  (* The row whose flag current_cancel holds.                    *)
  button,   (* The page's Cancel button.                                   *)
  wizard,   (* The wizard: its first page, that page turning, or later.    *)
  picked,   (* The model the wizard has downloaded.                        *)
  retry,    (* Whether the wizard's download button can be pressed.        *)
  engine,   (* The model the main window last loaded.                      *)
  acts, slips,
  past      (* What has happened: downloads that shared a file, another directory. *)

files == <<final, part>>
page == <<label, trash, current, button>>
welcome == <<wizard, picked, retry>>
vars == <<store, files, job, page, welcome, engine, acts, slips, past>>

(* The types of the model files, the downloads, the page, the wizard and   *)
(* the configuration store.                                                *)
TypeOK ==
  /\ StoreTypeOK
  /\ final \in [File -> Content] /\ part \in [File -> Content]
  /\ job \in [Row -> Job]
  /\ label \in [Model -> {"Download", "Downloading", "Downloaded", "Retry"}]
  /\ trash \in SUBSET Model
  /\ current \in Model \cup {NoModel} /\ button \in {"hidden", "ready", "pressed"}
  /\ wizard \in {"closed", "welcome", "turning", "open"}
  /\ picked \in Model \cup {NoModel} /\ retry \in BOOLEAN
  /\ engine \in Model \cup {NoModel}
  /\ acts \in 0..MaxActs /\ slips \in 0..MaxSlips
  /\ past \subseteq {"shared", "moved"}

Downloaded(c, m, fs) == fs[<<c.dir, m>>] \notin {"none", "empty"}
IdleJob == [stage |-> "idle", file |-> CHOOSE f \in File : TRUE, resume |-> FALSE,
            at |-> "gone", cancel |-> FALSE]
Act == life = "running" /\ acts < MaxActs /\ acts' = acts + 1

(* The window: built from the files of the configured directory, with the  *)
(* wizard on a first run, else with the selected model or its variant.     *)
Present(c, fs) ==
  LET other == Sibling[c.selected]
      resolved == IF Downloaded(c, c.selected, fs) THEN c.selected
                  ELSE IF Downloaded(c, other, fs) THEN other ELSE NoModel
  IN IF c.first_run THEN NoModel ELSE resolved

Shown(c, fs) ==
  /\ label' = [m \in Model |-> IF Downloaded(c, m, fs) THEN "Downloaded" ELSE "Download"]
  /\ trash' = {m \in Model : Downloaded(c, m, fs)}
  /\ current' = NoModel /\ button' = "hidden"
  /\ wizard' = IF c.first_run THEN "welcome" ELSE "closed"
  /\ picked' = NoModel /\ retry' = TRUE

(* No configuration yet, or a later start without models.                  *)
Init ==
  /\ disk \in {NoFile, [Default EXCEPT !.first_run = FALSE]}
  /\ StoreInit
  /\ final = [f \in File |-> "none"] /\ part = [f \in File |-> "none"]
  /\ job = [r \in Row |-> IdleJob]
  /\ label = [m \in Model |-> "Download"] /\ trash = {}
  /\ current = NoModel /\ button = "hidden"
  /\ wizard = (IF cache.first_run THEN "welcome" ELSE "closed")
  /\ picked = NoModel /\ retry = TRUE /\ engine = NoModel
  /\ acts = 0 /\ slips = 0 /\ past = {}

(* The corrected selection is saved at once.                               *)
Start ==
  /\ life = "exited" /\ acts < MaxActs /\ acts' = acts + 1
  /\ life' = "running" /\ flushed' = "no" /\ completed' = 0 /\ failed' = FALSE
  /\ writing' = NoRequest
  /\ LET m == Present(Loaded, final)
         corrects == m # NoModel /\ m # Loaded.selected
         c == IF corrects THEN [Loaded EXCEPT !.selected = m] ELSE Loaded
         n == LoadSaves.seq + (IF corrects THEN 1 ELSE 0)
     IN /\ cache' = c /\ engine' = m /\ requested' = n
        /\ pending' = IF n = 0 THEN NoRequest ELSE [seq |-> n, config |-> c]
        /\ Shown(c, final)
  /\ job' = [r \in Row |-> IdleJob]
  /\ UNCHANGED <<disk, files, slips>>

------------------------------------------------------------------------------
(* The download task.  Its steps are its awaits.                           *)

Begun(m) ==
  [stage |-> "check", file |-> <<cache.dir, m>>, resume |-> FALSE, at |-> "gone",
   cancel |-> FALSE]

Live == {"check", "adopt", "ask", "open", "body", "verify", "publish"}
Running(r, stage) == life # "exited" /\ job[r].stage = stage
To(r, stage) == job' = [job EXCEPT ![r].stage = stage]
NothingElse == UNCHANGED <<store, page, welcome, engine, acts>>

(* Where tasks write once the partial file of f has been removed, or has   *)
(* taken the final file's place.                                           *)
Unlinked(js, f) == [r \in Row |-> IF js[r].file = f /\ js[r].at = "part"
                                  THEN [js[r] EXCEPT !.at = "gone"] ELSE js[r]]
Moved(js, f) ==
  [r \in Row |-> IF js[r].file # f \/ js[r].at = "gone" THEN js[r]
                 ELSE [js[r] EXCEPT !.at = IF @ = "part" THEN "final" ELSE "gone"]]

(* Mutant: a refused download ends without an answer.                      *)
CheckSilent(r) ==
  /\ Running(r, "check")
  /\ \/ To(r, "idle")
     \/ To(r, IF part[job[r].file] = "whole" THEN "adopt" ELSE "ask")
  /\ UNCHANGED <<files, slips>> /\ NothingElse

(* No trusted hash: refused.  A whole partial file needs no request.       *)
CheckPartial(r) ==
  /\ Running(r, "check")
  /\ \/ To(r, "failed")
     \/ To(r, IF part[job[r].file] = "whole" THEN "adopt" ELSE "ask")
  /\ UNCHANGED <<files, slips>> /\ NothingElse

Ask(r) ==
  /\ Running(r, "ask")
  /\ job' = [job EXCEPT ![r].stage = "open",
                        ![r].resume = part[job[r].file] \in {"some", "whole", "bad"}]
  /\ UNCHANGED <<files, slips>> /\ NothingElse

(* An error (416 too), the rest (206) or the whole file (200).             *)
Open(r) ==
  /\ Running(r, "open")
  /\ LET f == job[r].file IN
     \/ To(r, "failed") /\ UNCHANGED part
     \/ /\ job' = [job EXCEPT ![r].stage = "body", ![r].at = "part"]
        /\ \/ part' = [part EXCEPT ![f] = "empty"]
           \/ job[r].resume /\ part' = [part EXCEPT ![f] = IF @ = "none" THEN "empty" ELSE @]
  /\ UNCHANGED <<final, slips>> /\ NothingElse

Here(r) == CASE job[r].at = "part" -> part[job[r].file]
             [] job[r].at = "final" -> final[job[r].file]
             [] OTHER -> "bad"

(* Bytes the server sends, wrong ones at most MaxSlips times.              *)
Writes(r, c) ==
  LET f == job[r].file
      w == IF c = "bad" \/ Here(r) = "bad" THEN "bad"
           ELSE IF Here(r) = "whole" THEN "whole" ELSE c
  IN /\ part' = IF job[r].at = "part" THEN [part EXCEPT ![f] = w] ELSE part
     /\ final' = IF job[r].at = "final" THEN [final EXCEPT ![f] = w] ELSE final
     /\ slips' = IF c = "bad" THEN slips + 1 ELSE slips
     /\ slips' <= MaxSlips

(* The flag is looked at when bytes arrive.                                *)
Chunk(r) ==
  /\ Running(r, "body") /\ ~job[r].cancel /\ Here(r) \in {"none", "empty"}
  /\ \E c \in {"some", "bad"} : Writes(r, c)
  /\ UNCHANGED job /\ NothingElse

LastChunk(r) ==
  /\ Running(r, "body") /\ ~job[r].cancel
  /\ \E c \in {"whole", "bad"} : Writes(r, c)
  /\ To(r, "verify")
  /\ NothingElse

Cancelled(r) ==
  /\ Running(r, "body") /\ job[r].cancel
  /\ To(r, "cancelled")
  /\ UNCHANGED <<files, slips>> /\ NothingElse

(* The stream breaks or times out; or it ends too early or too late, which *)
(* removes the partial file.                                               *)
Interrupted(r) ==
  /\ Running(r, "body")
  /\ \/ ~job[r].cancel /\ To(r, "failed") /\ UNCHANGED part
     \/ /\ job' = [Unlinked(job, job[r].file) EXCEPT ![r].stage = "failed"]
        /\ part' = [part EXCEPT ![job[r].file] = "none"]
  /\ UNCHANGED <<final, slips>> /\ NothingElse

(* Mutant: a download of the announced length is published unverified.     *)
VerifyLength(r) ==
  /\ Running(r, "verify")
  /\ IF part[job[r].file] \in {"whole", "bad"}
     THEN To(r, "publish") /\ UNCHANGED part
     ELSE /\ job' = [Unlinked(job, job[r].file) EXCEPT ![r].stage = "failed"]
          /\ part' = [part EXCEPT ![job[r].file] = "none"]
  /\ UNCHANGED <<final, slips>> /\ NothingElse

Verify(r) ==
  /\ Running(r, "verify")
  /\ IF part[job[r].file] = "whole"
     THEN To(r, "publish") /\ UNCHANGED part
     ELSE /\ job' = [Unlinked(job, job[r].file) EXCEPT ![r].stage = "failed"]
          /\ part' = [part EXCEPT ![job[r].file] = "none"]
  /\ UNCHANGED <<final, slips>> /\ NothingElse

Publish(r) ==
  /\ Running(r, "publish") \/ Running(r, "adopt")
  /\ LET f == job[r].file IN
     IF part[f] = "none"
     THEN To(r, "failed") /\ UNCHANGED files
     ELSE /\ final' = [final EXCEPT ![f] = part[f]]
          /\ part' = [part EXCEPT ![f] = "none"]
          /\ job' = [Moved(job, f) EXCEPT ![r].stage = "ok"]
  /\ UNCHANGED slips /\ NothingElse

Task(r) ==
  \/ CheckPartial(r) \/ Ask(r) \/ Open(r) \/ Chunk(r) \/ LastChunk(r) \/ Cancelled(r)
  \/ Interrupted(r) \/ Verify(r) \/ Publish(r)

------------------------------------------------------------------------------
(* The Model page.                                                         *)

(* A click starts a download with a flag of its own, which takes the place *)
(* of the flag of any other.                                               *)
Click(m) ==
  /\ Act /\ label[m] \in {"Download", "Retry"}
  /\ label' = [label EXCEPT ![m] = "Downloading"]
  /\ job' = [job EXCEPT ![m] = Begun(m)]
  /\ current' = m /\ button' = "ready"
  /\ UNCHANGED <<store, files, trash, welcome, engine, slips>>

PressCancel ==
  /\ Act /\ button = "ready"
  /\ button' = "pressed"
  /\ job' = IF current = NoModel THEN job ELSE [job EXCEPT ![current].cancel = TRUE]
  /\ UNCHANGED <<store, files, label, trash, current, welcome, engine, slips>>

Loads(m) == engine' = IF Downloaded(cache, m, final) THEN m ELSE engine

(* Mutant: the Cancel button outlives the download.                        *)
DoneLeavesButton(m) ==
  /\ life = "running" /\ job[m].stage \in Ended
  /\ job' = [job EXCEPT ![m] = IdleJob]
  /\ current' = NoModel /\ UNCHANGED button
  /\ IF job[m].stage = "ok"
     THEN /\ label' = [label EXCEPT ![m] = "Downloaded"] /\ trash' = trash \cup {m}
          /\ Save([cache EXCEPT !.selected = m, !.first_run = FALSE]) /\ Loads(m)
     ELSE /\ label' = [label EXCEPT ![m] = IF job[m].stage = "cancelled" THEN "Download"
                                           ELSE "Retry"]
          /\ UNCHANGED <<store, trash, engine>>
  /\ UNCHANGED <<files, welcome, acts, slips>>

(* Mutant: a failed row is labelled with the result.                       *)
DoneRawLabel(m) ==
  /\ life = "running" /\ job[m].stage \in Ended
  /\ job' = [job EXCEPT ![m] = IdleJob]
  /\ current' = NoModel /\ button' = "hidden"
  /\ label' = [label EXCEPT ![m] = job[m].stage]
  /\ UNCHANGED <<store, trash, engine, files, welcome, acts, slips>>

(* The answer of a row's download: whoever's flag is current is cleared.   *)
Done(m) ==
  /\ life = "running" /\ job[m].stage \in Ended
  /\ job' = [job EXCEPT ![m] = IdleJob]
  /\ current' = NoModel /\ button' = "hidden"
  /\ IF job[m].stage = "ok"
     THEN /\ label' = [label EXCEPT ![m] = "Downloaded"] /\ trash' = trash \cup {m}
          /\ Save([cache EXCEPT !.selected = m, !.first_run = FALSE]) /\ Loads(m)
     ELSE /\ label' = [label EXCEPT ![m] = IF job[m].stage = "cancelled" THEN "Download"
                                           ELSE "Retry"]
          /\ UNCHANGED <<store, trash, engine>>
  /\ UNCHANGED <<files, welcome, acts, slips>>

(* Mutant: the selected model's deletion is not handled by the window.     *)
DeleteKeepsEngine(m) ==
  /\ Act /\ m \in trash
  /\ final' = [final EXCEPT ![<<cache.dir, m>>] = "none"]
  /\ label' = [label EXCEPT ![m] = "Download"] /\ trash' = trash \ {m}
  /\ IF cache.selected # m THEN UNCHANGED store
     ELSE LET left == {n \in Model : Downloaded(cache, n, final')} IN
          IF left = {} THEN UNCHANGED store
          ELSE \E n \in left : Save([cache EXCEPT !.selected = n])
  /\ UNCHANGED <<part, job, current, button, welcome, engine, slips>>

(* The file of the directory configured now; a selected model that goes is *)
(* replaced by another downloaded one.                                     *)
Delete(m) ==
  /\ Act /\ m \in trash
  /\ final' = [final EXCEPT ![<<cache.dir, m>>] = "none"]
  /\ job' = [r \in Row |-> IF job[r].file = <<cache.dir, m>> /\ job[r].at = "final"
                           THEN [job[r] EXCEPT !.at = "gone"] ELSE job[r]]
  /\ label' = [label EXCEPT ![m] = "Download"] /\ trash' = trash \ {m}
  /\ LET left == {n \in Model : Downloaded(cache, n, final')} IN
     IF cache.selected # m THEN UNCHANGED <<store, engine>>
     ELSE IF left = {} THEN engine' = NoModel /\ UNCHANGED store
     ELSE \E n \in left : engine' = n /\ Save([cache EXCEPT !.selected = n])
  /\ UNCHANGED <<part, current, button, welcome, slips>>

(* Another directory, or the default one; no row is looked at again.       *)
ChangeDir(d) ==
  /\ Act /\ d # cache.dir
  /\ Save([cache EXCEPT !.dir = d])
  /\ UNCHANGED <<files, job, page, welcome, engine, slips>>

------------------------------------------------------------------------------
(* The welcome wizard.                                                     *)

Completes(m) == picked' = m /\ wizard' = "open" /\ retry' = FALSE

(* The download button's handler, which Next also emits.                   *)
WizardDownload(m) ==
  IF Downloaded(cache, m, final)
  THEN Completes(m) /\ UNCHANGED job
  ELSE /\ \E w \in Slot : job[w].stage = "idle" /\ job' = [job EXCEPT ![w] = Begun(m)]
       /\ retry' = FALSE /\ UNCHANGED picked

(* Next, also pressed again while the page is still turning.               *)
Next1 ==
  /\ Act /\ wizard \in {"welcome", "turning"}
  /\ WizardDownload(FirstPick)
  /\ wizard' = IF Downloaded(cache, FirstPick, final) THEN "open" ELSE "turning"
  /\ UNCHANGED <<store, files, page, engine, slips>>

Turned ==
  /\ life = "running" /\ wizard = "turning" /\ wizard' = "open"
  /\ UNCHANGED <<store, files, job, page, picked, retry, engine, acts, slips>>

WizardClick(m) ==
  /\ Act /\ wizard = "open" /\ retry
  /\ WizardDownload(m) /\ wizard' = "open"
  /\ UNCHANGED <<store, files, page, engine, slips>>

WizardDone(w) ==
  /\ life = "running" /\ job[w].stage \in Ended
  /\ job' = [job EXCEPT ![w] = IdleJob]
  /\ IF wizard = "closed" THEN UNCHANGED welcome
     ELSE IF job[w].stage = "ok"
     THEN Completes(job[w].file[2])
     ELSE retry' = TRUE /\ UNCHANGED <<wizard, picked>>
  /\ UNCHANGED <<store, files, page, engine, acts, slips>>

GetStarted ==
  /\ Act /\ wizard = "open" /\ picked # NoModel
  /\ Downloaded(cache, picked, final)
  /\ Save([cache EXCEPT !.first_run = FALSE, !.selected = picked])
  /\ engine' = picked /\ wizard' = "closed"
  /\ UNCHANGED <<files, job, page, picked, retry, slips>>

CloseWizard ==
  /\ Act /\ wizard # "closed" /\ wizard' = "closed"
  /\ UNCHANGED <<store, files, job, page, picked, retry, engine, slips>>

------------------------------------------------------------------------------
(* The modal wizard keeps the page out of reach.                           *)
User ==
  \/ wizard = "closed" /\ (PressCancel \/ \E m \in Model : Click(m) \/ Delete(m))
  \/ wizard = "closed" /\ \E d \in Dir : ChangeDir(d)
  \/ Next1 \/ GetStarted \/ CloseWizard \/ \E m \in Model : WizardClick(m)
  \/ Start

Store ==
  /\ Writer \/ Quit \/ Flush \/ Crash
  /\ UNCHANGED <<files, job, page, welcome, engine, acts, slips>>

(* Two downloads of one file at once.                                      *)
Shared == \E r, q \in Row : r # q /\ job[r].file = job[q].file
                             /\ job[r].stage \in Live /\ job[q].stage \in Live

(* Past only observes.                                                     *)
Observed ==
  past' = past \cup (IF Shared' THEN {"shared"} ELSE {})
               \cup (IF cache'.dir # cache.dir THEN {"moved"} ELSE {})

Step ==
  \/ User \/ Turned
  \/ \E r \in Row : Task(r)
  \/ \E m \in Model : Done(m)
  \/ \E w \in Slot : WizardDone(w)
  \/ Store

Next == Step /\ Observed

(* A row's task, the main loop that takes its answer, and the writer each   *)
(* go on.  Nothing is asked of the wizard's downloads.                      *)
Fairness ==
  /\ \A m \in Model : WF_vars(Task(m) /\ Observed) /\ WF_vars(Done(m) /\ Observed)
  /\ WF_vars(Writer /\ UNCHANGED <<files, job, page, welcome, engine, acts, slips>> /\ Observed)

Spec == Init /\ [][Next]_vars
FairSpec == Spec /\ Fairness

------------------------------------------------------------------------------
Published == \A f \in File : final[f] \in {"none", "whole"}

(* A file under a model's name was verified, however its download was      *)
(* cut, resumed, cancelled or restarted, as long as no two downloads shared *)
(* its partial file.                                                       *)
PublishedIsVerified == "shared" \notin past => Published

(* A Cancel button that can be pressed stops something: a download whose   *)
(* answer the page has not handled.                                        *)
CancelHasDownload == button = "ready" => current # NoModel /\ job[current].stage # "idle"

(* A row that says "Downloading…", cancelled or not, comes to an end.       *)
RowsSettle ==
  \A m \in Model : label[m] = "Downloading" ~> label[m] # "Downloading" \/ life # "running"

(* The model the window last loaded is the selected one, through downloads, *)
(* deletions, the wizard and restarts, as long as the directory stays and  *)
(* no two downloads have written one file.                                 *)
EngineIsSelected ==
  past = {} /\ engine # NoModel => engine = cache.selected

(* Only verified files take a model's name, Cancel stops what it is shown  *)
(* for, and the window runs the model that is selected.                    *)
DownloadSafety ==
  /\ TypeOK
  /\ PublishedIsVerified
  /\ CancelHasDownload
  /\ EngineIsSelected

(* Every download of a row and every save comes to an end that is shown.   *)
DownloadsSettle ==
  RowsSettle /\ SavesSettle
=============================================================================
