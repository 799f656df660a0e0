----------------------------- MODULE ConfigStore -----------------------------
(***************************************************************************)
(* The configuration: the process-wide cache every reader gets, and the    *)
(* writer thread that brings it to the disk.                               *)
(*                                                                         *)
(* save holds the cache's lock while it submits, so the two are one step.  *)
(* The writer keeps only the newest request while it writes another; its   *)
(* write replaces the file whole (a temporary file and a rename) or fails  *)
(* and leaves it.  flush, at shutdown, waits for the last request or for   *)
(* its deadline.  The presets that a load migrates are not part of Config. *)
(***************************************************************************)
EXTENDS Integers

CONSTANTS
  Config,    (* Configurations.                                            *)
  Default,   (* AppConfig::default.                                        *)
  NoFile     (* No file, or one that cannot be read or parsed.             *)

ASSUME ConfigAssumption == Default \in Config /\ NoFile \notin Config

VARIABLES
  cache,      (* CONFIG_CACHE, filled by the first load at startup.        *)
  disk,       (* What the configuration file holds.                        *)
  requested,  (* The newest request's number.                              *)
  completed,  (* The number of the last request written, or tried.         *)
  pending,    (* The request the writer has not taken yet.                 *)
  writing,    (* The request it writes.                                    *)
  failed,     (* Whether the last write failed.                            *)
  life,       (* The process: running, flushing at shutdown, or exited.    *)
  flushed     (* How flush returned.                                       *)

queue == <<requested, pending>>
progress == <<completed, writing, failed, disk>>
store == <<cache, queue, progress, life, flushed>>

Request == [seq : Nat, config : Config]
NoRequest == [seq |-> 0, config |-> Default]

StoreTypeOK ==
  /\ cache \in Config /\ disk \in Config \cup {NoFile}
  /\ requested \in Nat /\ completed \in Nat
  /\ pending \in Request /\ writing \in Request
  /\ failed \in BOOLEAN
  /\ life \in {"running", "flushing", "exited"}
  /\ flushed \in {"no", "ok", "error", "timeout"}

(* The first load of a process: without a usable file the default, which   *)
(* is saved at once.                                                       *)
Loaded == IF disk = NoFile THEN Default ELSE disk
LoadSaves == IF disk = NoFile THEN [seq |-> 1, config |-> Default] ELSE NoRequest

StoreInit ==
  /\ disk \in Config \cup {NoFile}
  /\ cache = Loaded /\ pending = LoadSaves /\ requested = LoadSaves.seq
  /\ completed = 0 /\ writing = NoRequest /\ failed = FALSE
  /\ life = "running" /\ flushed = "no"

Submit(c) ==
  /\ requested' = requested + 1
  /\ pending' = [seq |-> requested + 1, config |-> c]

Save(c) ==
  /\ cache' = c
  /\ Submit(c)
  /\ UNCHANGED <<progress, life, flushed>>

Take ==
  /\ life # "exited" /\ writing.seq = 0 /\ pending.seq # 0
  /\ writing' = pending /\ pending' = NoRequest
  /\ UNCHANGED <<cache, requested, completed, failed, disk, life, flushed>>

(* Mutant: a write completes whatever was requested meanwhile.             *)
WriteCompletesAll ==
  /\ life # "exited" /\ writing.seq # 0
  /\ \E ok \in BOOLEAN :
       /\ disk' = IF ok THEN writing.config ELSE disk
       /\ failed' = ~ok
  /\ completed' = requested /\ writing' = NoRequest
  /\ UNCHANGED <<cache, queue, life, flushed>>

(* Mutant: a write that fails is not reported.                             *)
WriteFailsSilently ==
  /\ life # "exited" /\ writing.seq # 0
  /\ \E ok \in BOOLEAN :
       /\ disk' = IF ok THEN writing.config ELSE disk
       /\ failed' = failed
       /\ completed' = IF ok THEN writing.seq ELSE completed
  /\ writing' = NoRequest
  /\ UNCHANGED <<cache, queue, life, flushed>>

Write ==
  /\ life # "exited" /\ writing.seq # 0
  /\ \E ok \in BOOLEAN :
       /\ disk' = IF ok THEN writing.config ELSE disk
       /\ failed' = ~ok
  /\ completed' = writing.seq /\ writing' = NoRequest
  /\ UNCHANGED <<cache, queue, life, flushed>>

Status ==
  IF completed < requested THEN "pending" ELSE IF failed THEN "failed" ELSE "persisted"

(* shutdown runs on the GTK thread; flush is its last part.                *)
Quit ==
  /\ life = "running" /\ life' = "flushing"
  /\ UNCHANGED <<cache, queue, progress, flushed>>

(* Mutant: flush returns once the writer is idle.                          *)
FlushIdle ==
  /\ life = "flushing" /\ life' = "exited"
  /\ flushed' = IF writing.seq # 0 THEN "timeout" ELSE IF failed THEN "error" ELSE "ok"
  /\ UNCHANGED <<cache, queue, progress>>

Flush ==
  /\ life = "flushing" /\ life' = "exited"
  /\ flushed' = IF completed < requested THEN "timeout" ELSE IF failed THEN "error" ELSE "ok"
  /\ UNCHANGED <<cache, queue, progress>>

Crash ==
  /\ life # "exited" /\ life' = "exited"
  /\ UNCHANGED <<cache, queue, progress, flushed>>

Writer == Take \/ Write

------------------------------------------------------------------------------
(* The banner that hides with status Persisted (the 500 ms poll of         *)
(* main_window.rs) is right: the file then holds what every reader of the  *)
(* cache sees, however many saves were coalesced and however some failed.  *)
PersistedMeansOnDisk == Status = "persisted" => disk = cache

(* A shutdown whose flush reports success loses no setting.                *)
FlushedMeansOnDisk == flushed = "ok" => disk = cache

(* The writer reaches the last request: "Saving settings…" ends.           *)
SavesSettle == Status = "pending" ~> Status # "pending" \/ life = "exited"

(***************************************************************************)
(* What the first two rest on: the newest request is the cache, and it is  *)
(* waiting, being written, or was the last one written; flush reports at   *)
(* the end of the process.                                                 *)
(***************************************************************************)
Counts ==
  /\ requested \in Nat /\ completed \in Nat
  /\ pending.seq \in Nat /\ writing.seq \in Nat

NewestIsCache ==
  /\ completed <= requested
  /\ pending.seq # 0 => pending.seq = requested /\ pending.config = cache
  /\ writing.seq # 0 => completed < writing.seq /\ writing.seq <= requested
  /\ pending.seq = 0 /\ writing.seq # 0 => writing.seq = requested /\ writing.config = cache
  /\ pending.seq # 0 => completed < requested /\ writing.seq < requested
  /\ pending.seq = 0 /\ writing.seq = 0 => completed = requested

FlushedAtExit == flushed # "no" => life = "exited"

StoreInv ==
  /\ Counts /\ NewestIsCache /\ FlushedAtExit
  /\ PersistedMeansOnDisk /\ FlushedMeansOnDisk

(* Whenever the program says that the settings are saved, the file holds   *)
(* what every reader sees.                                                 *)
SavedMeansOnDisk ==
  PersistedMeansOnDisk /\ FlushedMeansOnDisk
=============================================================================
