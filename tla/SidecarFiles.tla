----------------------------- MODULE SidecarFiles -----------------------------
(***************************************************************************)
(* What the Qwen and Parakeet sidecars need on the disk: a runtime and a   *)
(* model of several files each, downloaded and deleted from the Model page *)
(* (qwen.rs, parakeet.rs, archive.rs), and a process that may end between  *)
(* any two steps.                                                          *)
(*                                                                         *)
(* A model is downloaded once its sentinel is there.  Parakeet verifies a  *)
(* file before it takes its name, and asks for every file with its size    *)
(* besides the sentinel; Qwen verifies its weights under their name, has   *)
(* other files without a hash, and asks for the sentinel only.             *)
(***************************************************************************)
EXTENDS Naturals

CONSTANTS
  MaxFileActs,   (* What the user does at most.                            *)
  MaxEnds        (* Ends of the process at most.                           *)

ASSUME SidecarFilesAssumption == MaxFileActs \in Nat /\ MaxEnds \in Nat

Kind == {"qwen", "parakeet"}
ModelFile == {"weights", "tables"}
Piece == {"engine", "libs"}
Thing == Kind \X {"runtime", "model"}
Phase == {"idle", "begin", "weights", "verify", "tables", "sentinel", "fetch", "replace",
          "install", "ok", "failed"}

VARIABLES
  held,      (* What the files of a model's directory hold.                *)
  sentinel,  (* The models whose .download_complete is there.              *)
  tree,      (* The pieces of an installed runtime.                        *)
  aside,     (* The previous Qwen runtime, renamed away.                   *)
  phase,     (* The download of a row.                                     *)
  row,       (* The row's button.                                          *)
  torn,      (* The things a deletion has left half gone.                  *)
  fileActs, ends

fileVars == <<held, sentinel, tree, aside, phase, row, torn, fileActs, ends>>
onDisk == <<held, sentinel, tree, aside>>

(* The types of what is on the disk, in the rows and on its way.           *)
FilesTypeOK ==
  /\ held \in [Kind -> [ModelFile -> {"none", "whole", "bad"}]]
  /\ sentinel \subseteq Kind /\ tree \in [Kind -> SUBSET Piece] /\ aside \subseteq Piece
  /\ phase \in [Thing -> Phase]
  /\ row \in [Thing -> {"Download", "Downloading", "Downloaded", "Retry"}]
  /\ aside # {} => phase[<<"qwen", "runtime">>] = "install"
  /\ torn \subseteq Thing /\ fileActs \in 0..MaxFileActs /\ ends \in 0..MaxEnds

Installed(k) == "engine" \in tree[k] /\ (k = "parakeet" => "libs" \in tree[k])
ModelDownloaded(k) ==
  k \in sentinel /\ (k = "parakeet" => \A f \in ModelFile : held[k][f] # "none")
Ready(t) == IF t[2] = "runtime" THEN Installed(t[1]) ELSE ModelDownloaded(t[1])

Rows == [t \in Thing |-> IF Ready(t) THEN "Downloaded" ELSE "Download"]

FilesInit ==
  /\ held = [k \in Kind |-> [f \in ModelFile |-> "none"]] /\ sentinel = {}
  /\ tree = [k \in Kind |-> {}] /\ aside = {}
  /\ phase = [t \in Thing |-> "idle"] /\ row = Rows
  /\ torn = {} /\ fileActs = 0 /\ ends = 0

FileAct == fileActs < MaxFileActs /\ fileActs' = fileActs + 1
Goes(t, p) == phase' = [phase EXCEPT ![t] = p]
Alone == UNCHANGED <<row, torn, fileActs, ends>>
Puts(k, f, c) == held' = [held EXCEPT ![k][f] = c]

(* Parakeet's weights are refused before its runtime is there.             *)
ClickDownload(t) ==
  /\ FileAct /\ row[t] \in {"Download", "Retry"}
  /\ t = <<"parakeet", "model">> => Installed("parakeet")
  /\ row' = [row EXCEPT ![t] = "Downloading"]
  /\ Goes(t, IF t[2] = "runtime" THEN "fetch" ELSE "begin")
  /\ UNCHANGED <<onDisk, torn, ends>>

------------------------------------------------------------------------------
(* A model: the sentinel goes first and comes last.  The code ignores a    *)
(* failure to remove it; here it does not fail.                            *)

(* Mutant: a refused listing ends the download without an answer.          *)
ListSilently(k) ==
  /\ phase[<<k, "model">>] = "begin"
  /\ sentinel' = sentinel \ {k}
  /\ \/ Goes(<<k, "model">>, "weights")
     \/ k = "qwen" /\ Goes(<<k, "model">>, "idle")
  /\ UNCHANGED <<held, tree, aside>> /\ Alone

(* The listing, for Qwen, may be missing, malformed or refused.            *)
BeginModel(k) ==
  /\ phase[<<k, "model">>] = "begin"
  /\ sentinel' = sentinel \ {k}
  /\ \/ Goes(<<k, "model">>, "weights")
     \/ k = "qwen" /\ Goes(<<k, "model">>, "failed")
  /\ UNCHANGED <<held, tree, aside>> /\ Alone

After(f) == IF f = "weights" THEN "tables" ELSE "sentinel"

(* Mutant: a file that cannot be fetched is left out.                      *)
SkipsMissing(k, f) ==
  /\ phase[<<k, "model">>] = f
  /\ \/ Goes(<<k, "model">>, After(f)) /\ UNCHANGED held
     \/ Puts(k, f, "whole") /\ Goes(<<k, "model">>, After(f))
  /\ UNCHANGED <<sentinel, tree, aside>> /\ Alone

(* Parakeet: a file with the right hash is kept; another one takes its     *)
(* name once its temporary file is verified.                               *)
VerifiedFile(k, f) ==
  /\ phase[<<k, "model">>] = f
  /\ \/ held[k][f] = "whole" /\ Goes(<<k, "model">>, After(f)) /\ UNCHANGED held
     \/ held[k][f] # "whole" /\ Goes(<<k, "model">>, "failed") /\ UNCHANGED held
     \/ held[k][f] # "whole" /\ Puts(k, f, "whole") /\ Goes(<<k, "model">>, After(f))
  /\ UNCHANGED <<sentinel, tree, aside>> /\ Alone

(* Qwen's weights: kept with the right hash, else removed and fetched.     *)
FetchWeights ==
  /\ phase[<<"qwen", "model">>] = "weights"
  /\ IF held["qwen"]["weights"] = "whole"
     THEN Goes(<<"qwen", "model">>, "tables") /\ UNCHANGED held
     ELSE \/ Puts("qwen", "weights", "none") /\ Goes(<<"qwen", "model">>, "failed")
          \/ \E c \in {"whole", "bad"} : Puts("qwen", "weights", c) /\ Goes(<<"qwen", "model">>, "verify")
  /\ UNCHANGED <<sentinel, tree, aside>> /\ Alone

(* Mutant: a wrong hash is only noted.                                     *)
VerifyNotes ==
  /\ phase[<<"qwen", "model">>] = "verify"
  /\ Goes(<<"qwen", "model">>, "tables")
  /\ UNCHANGED <<held, sentinel, tree, aside>> /\ Alone

VerifyWeights ==
  /\ phase[<<"qwen", "model">>] = "verify"
  /\ IF held["qwen"]["weights"] = "whole"
     THEN Goes(<<"qwen", "model">>, "tables") /\ UNCHANGED held
     ELSE Puts("qwen", "weights", "none") /\ Goes(<<"qwen", "model">>, "failed")
  /\ UNCHANGED <<sentinel, tree, aside>> /\ Alone

(* Files without a hash are taken as they come, and kept as they are.      *)
FetchTables ==
  /\ phase[<<"qwen", "model">>] = "tables"
  /\ \/ held["qwen"]["tables"] # "none" /\ Goes(<<"qwen", "model">>, "sentinel") /\ UNCHANGED held
     \/ /\ held["qwen"]["tables"] = "none"
        /\ \/ Goes(<<"qwen", "model">>, "failed") /\ UNCHANGED held
           \/ \E c \in {"whole", "bad"} : Puts("qwen", "tables", c) /\ Goes(<<"qwen", "model">>, "sentinel")
  /\ UNCHANGED <<sentinel, tree, aside>> /\ Alone

EndModel(k) ==
  /\ phase[<<k, "model">>] = "sentinel"
  /\ \/ sentinel' = sentinel \cup {k} /\ Goes(<<k, "model">>, "ok")
     \/ UNCHANGED sentinel /\ Goes(<<k, "model">>, "failed")
  /\ UNCHANGED <<held, tree, aside>> /\ Alone

------------------------------------------------------------------------------
(* A runtime: fetched, verified and unpacked in a directory of its own.    *)
FetchRuntime(k) ==
  /\ phase[<<k, "runtime">>] = "fetch"
  /\ Goes(<<k, "runtime">>, "replace") \/ Goes(<<k, "runtime">>, "failed")
  /\ UNCHANGED onDisk /\ Alone

(* Parakeet's old tree is removed, which may fail half-way.                *)
RemoveOld ==
  /\ phase[<<"parakeet", "runtime">>] = "replace"
  /\ \/ tree' = [tree EXCEPT !["parakeet"] = {}] /\ Goes(<<"parakeet", "runtime">>, "install")
     \/ /\ \E left \in SUBSET tree["parakeet"] : tree' = [tree EXCEPT !["parakeet"] = left]
        /\ Goes(<<"parakeet", "runtime">>, "failed")
  /\ UNCHANGED <<held, sentinel, aside>> /\ Alone

(* Qwen's is renamed away.                                                 *)
SetAside ==
  /\ phase[<<"qwen", "runtime">>] = "replace"
  /\ \/ /\ aside' = tree["qwen"] /\ tree' = [tree EXCEPT !["qwen"] = {}]
        /\ Goes(<<"qwen", "runtime">>, "install")
     \/ Goes(<<"qwen", "runtime">>, "failed") /\ UNCHANGED <<tree, aside>>
  /\ UNCHANGED <<held, sentinel>> /\ Alone

(* Mutant: what was put aside stays there when the new tree does not come. *)
InstallForgetsAside(k) ==
  /\ phase[<<k, "runtime">>] = "install"
  /\ \/ /\ tree' = [tree EXCEPT ![k] = Piece] /\ Goes(<<k, "runtime">>, "ok")
        /\ aside' = IF k = "qwen" THEN {} ELSE aside
     \/ Goes(<<k, "runtime">>, "failed") /\ UNCHANGED <<tree, aside>>
  /\ UNCHANGED <<held, sentinel>> /\ Alone

(* The new tree is renamed into place; Qwen's old one comes back if that   *)
(* fails.  Parakeet still has its archive to remove, and may fail at that. *)
Install(k) ==
  /\ phase[<<k, "runtime">>] = "install"
  /\ \/ /\ tree' = [tree EXCEPT ![k] = Piece]
        /\ Goes(<<k, "runtime">>, "ok") \/ (k = "parakeet" /\ Goes(<<k, "runtime">>, "failed"))
     \/ /\ tree' = [tree EXCEPT ![k] = IF k = "qwen" THEN aside ELSE @]
        /\ Goes(<<k, "runtime">>, "failed")
  /\ aside' = IF k = "qwen" THEN {} ELSE aside
  /\ UNCHANGED <<held, sentinel>> /\ Alone

------------------------------------------------------------------------------
Answered(t) ==
  /\ phase[t] \in {"ok", "failed"}
  /\ row' = [row EXCEPT ![t] = IF phase[t] = "ok" THEN "Downloaded" ELSE "Retry"]
  /\ torn' = IF phase[t] = "ok" THEN torn \ {t} ELSE torn
  /\ Goes(t, "idle")
  /\ UNCHANGED <<onDisk, fileActs, ends>>

Emptied(t) ==
  IF t[2] = "runtime"
  THEN tree' = [tree EXCEPT ![t[1]] = {}] /\ UNCHANGED <<held, sentinel>>
  ELSE /\ held' = [held EXCEPT ![t[1]] = [f \in ModelFile |-> "none"]]
       /\ sentinel' = sentinel \ {t[1]} /\ UNCHANGED tree

DeleteThing(t) ==
  /\ FileAct /\ row[t] = "Downloaded"
  /\ Emptied(t) /\ torn' = torn \ {t}
  /\ row' = [row EXCEPT ![t] = "Download"]
  /\ UNCHANGED <<aside, phase, ends>>

(* remove_dir_all stops half-way, for an error or the end of the process:  *)
(* what is left is left in no order, and the row stays as it is.           *)
TearThing(t) ==
  /\ FileAct /\ row[t] = "Downloaded"
  /\ torn' = torn \cup {t}
  /\ IF t[2] = "runtime"
     THEN /\ \E left \in SUBSET tree[t[1]] : tree' = [tree EXCEPT ![t[1]] = left]
          /\ UNCHANGED <<held, sentinel>>
     ELSE /\ \E gone \in SUBSET ModelFile :
               held' = [held EXCEPT ![t[1]] = [f \in ModelFile |-> IF f \in gone THEN "none" ELSE @[f]]]
          /\ \E s \in {sentinel, sentinel \ {t[1]}} : sentinel' = s
          /\ UNCHANGED tree
  /\ UNCHANGED <<aside, phase, row, ends>>

(* The process ends and starts again: a Qwen runtime put aside stays away. *)
Reopen ==
  /\ ends < MaxEnds /\ ends' = ends + 1
  /\ phase' = [t \in Thing |-> "idle"] /\ row' = Rows /\ aside' = {}
  /\ UNCHANGED <<held, sentinel, tree, torn, fileActs>>

TaskOf(k) ==
  \/ BeginModel(k) \/ EndModel(k) \/ FetchRuntime(k) \/ Install(k)
  \/ k = "parakeet" /\ (RemoveOld \/ \E f \in ModelFile : VerifiedFile(k, f))
  \/ k = "qwen" /\ (FetchWeights \/ VerifyWeights \/ FetchTables \/ SetAside)

FilesNext ==
  \/ \E k \in Kind : TaskOf(k)
  \/ \E t \in Thing : ClickDownload(t) \/ Answered(t) \/ DeleteThing(t) \/ TearThing(t)
  \/ Reopen

------------------------------------------------------------------------------
(* A sentinel never stands over weights that were not verified: a download *)
(* cut anywhere, or a deletion torn anywhere, does not vouch for them.     *)
SentinelMeansVerified ==
  \A k \in sentinel : held[k]["weights"] # "bad" /\ (k = "parakeet" => held[k]["tables"] # "bad")

(* A row that says Downloaded has all its files, unless a deletion stopped *)
(* half-way; a Parakeet model that is half gone does not count as one.     *)
DownloadedIsComplete ==
  /\ \A t \in Thing \ torn : row[t] = "Downloaded" /\ phase[t] = "idle" =>
       IF t[2] = "runtime" THEN tree[t[1]] = Piece
       ELSE \A f \in ModelFile : held[t[1]][f] # "none"
  /\ ModelDownloaded("parakeet") => \A f \in ModelFile : held["parakeet"][f] = "whole"

(* A row that says "Downloading…" comes to an end.                         *)
FileRowsSettle == \A t \in Thing : row[t] = "Downloading" ~> row[t] # "Downloading"

(* What the page calls downloaded is there and was verified, wherever a    *)
(* download or a deletion was cut off.                                     *)
FilesSafety ==
  FilesTypeOK /\ SentinelMeansVerified /\ DownloadedIsComplete
=============================================================================
