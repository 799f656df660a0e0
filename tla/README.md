# Verification of speech-to-text

TLA+ models of the parts of *speech-to-text* (a GTK4 dictation application
written in Rust) whose correctness depends on the order in which threads, GTK
continuations, timers, clients and subprocesses get to act. TLC checks the models
on small instances; TLAPS proves nearly all of their safety properties, and that the
Parakeet worker takes only steps of the abstract warm slot, for every value of the
constants. Source paths below are relative to the crate's `src/`
(`application.rs`, `ui/main_window.rs`, ...).

Contents: [system](#the-system), [hard behaviours](#what-is-hard),
[modules](#the-modules), [runs](#the-runs), [properties](#the-properties),
[fairness](#fairness), [proofs](#the-proofs),
[disagreements](#where-code-and-comments-disagree),
[not modelled](#what-is-not-modelled), [plan](#plan).

## The system

The process has one **GTK thread** (main loop, all widgets, all state in
`RefCell`/`Cell`), one **inference worker** thread behind a bounded channel of four
jobs, short-lived threads (`std::thread::spawn`, `gio::spawn_blocking`) for file
access and blocking HTTP, a **configuration writer** thread, an optional **REST API**
(tokio runtime and a worker thread), the **portal actor** for pasting, a **shortcuts
task**, the **audio callback**, and up to two kinds of **subprocess** (Qwen server,
Parakeet worker) that keep model weights warm. Work leaves the GTK thread as a job or
future and comes back as a continuation on it; between the two the user, a shortcut
or another surface may have changed everything the continuation is about to touch.

| Component | State it keeps | Operations | Interacts with | What makes it correct |
|---|---|---|---|---|
| **Global dictation** (`application.rs`) | dictation generation and cancel token, chunk state, audio retained for Retry, the panel's view | start, stop, chunk timer, retry, cancel, close, answers, auto-improve, deliver | controller, worker, history, LLM, paste, panel | no sample lost or transcribed twice; an answer touches only its take; a cancelled take leaves no trace; the panel comes to rest |
| **Recording controller and worker** (`recording.rs`) | `RecordingOwner`, channel, the one running job | acquire/release, `try_send`, decode, combine outcomes | all recording surfaces, engines | one owner at a time; an answer for every job |
| **Audio buffer and capture** (`audio/buffer.rs`, `audio/capture.rs`) | samples, watermark, the callback's spill, the cached device | start, callback, pause, peek, drain, detach, errors | controller | nothing dropped or doubled; a dead stream ends the take |
| **Chunk cuts** (`audio/chunking.rs`) | none | choose a cut; hold back segments after a forced one | dictation | no word is committed in part |
| **Transcript history** (`ui/history_page.rs`) | `history.json`, the page's list and flags, sequence numbers | load, merge, add, update, delete, clear, retention, headless append/update, wait at exit | dictation, main window | nothing leaves the file unless removed; late threads undo nothing |
| **Warm sidecar server** (`transcription/sidecar_server.rs`) | `RUNNING`, `REQUEST_LOCK`, `EPOCH` | transcribe, spawn with health wait, install, one retry, shutdown | worker, API, GTK thread | one process, never leaked, of the right model; a shutdown sticks |
| **Parakeet worker** (`transcription/parakeet_worker.rs`) | the same three, with a socket that is a stream | transcribe, spawn, shutdown | as above | as above; an answer goes to its own caller |
| **Sidecar files** (`transcription/qwen.rs`, `parakeet.rs`, `archive.rs`) | files, sentinel, runtime directories | download, verify, stage, publish, delete | Model page | "Downloaded" means complete and verified, across crashes |
| **Whisper engine slot** (`recording.rs`, `transcription/engine.rs`, `config.rs`, window) | the shared engine, load lock, selection, load generation | load, publish for the selection, decode, CPU swap after GPU failures, switch, delete | worker, API, settings | the slot never holds what is not selected |
| **Voice activity pass** (`transcription/vad.rs`) | cached context, lock | identify, load, infer | every decode | the current model, never a broken context, cancellation in time |
| **Configuration** (`config.rs`, `config_writer.rs`) | cache, pending snapshot, sequence numbers, status | load, save, coalesced write, flush at exit | every page | "saved" means on the disk |
| **REST API** (`api/`) | token, permits, queue, running flag | accept, upload, enqueue, answer, cancel, stop, restart | worker, keyring | permits come back on every path; a stop ends |
| **Auto-paste** (`portal/paste.rs`, `application.rs`) | portal session, request flags, pressed keys, clipboard | request, deadline, focus watch, chord, cancel | dictation, panel | one chord per request with its own text, all keys released |
| **Global shortcuts** (`portal/shortcuts.rs`) | portal session, waits, two queues | bind, listen, configure, try again | portal, GTK thread | no press lost, a session is had again |
| **Main window sessions** (`ui/main_window.rs`, `ui/transcript_view.rs`) | operation generation, result, variants, retained audio, preview | record, pause, file, retry, chip, summary, voice edit, close | controller, worker, panel | an answer changes only what it was asked for |
| **Panel flows** (`application.rs`, `ui/mini_panel.rs`, `ui/result_state.rs`) | result variants and the active one, voice edit target | deliver, improve, chips, voice edit, transform a selection | dictation, LLM, clipboard | as above, and a waiting panel comes to rest |
| **Model downloads** (`transcription/model.rs`, `verify.rs`, `ui/settings/model.rs`, wizard) | partial and final files, rows, one shared Cancel | download, resume, verify, publish, select, delete | configuration, window | only verified files get a model's name |
| **Settings pages** (`ui/settings/`) | presets, endpoint and consent, dictionary, debounced edits | edit, switch, navigate | configuration, LLM | consent is for this endpoint; a text lands where it was typed |
| **LLM client, post-processing, decoder, widgets, tray, ...** | none that outlives a call, or display only | | | |

Four flows tie them together. A *take* goes from capture through the controller's
channel and the engine slot (or a sidecar) to the dictation, then to history, LLM and
delivery. A *selection* made on the Model page goes through the configuration cache to
the engine slot, and the writer brings it to the disk. The *microphone* is one, and
dictation, main window and voice edits compete for it. The *panel* is one, and
whatever still waits may repaint it.

## What is hard

* **Stale continuations.** Every answer arrives at a state that may have moved on. The
  code compares a *generation* and looks at the microphone's owner after each await;
  forgetting one comparison shows text in the wrong place, commits audio of another
  recording, or repaints a live one.
* **Decoding while recording.** Watermark, texts decoded so far and the job in flight
  must agree at every Stop.
* **A callback that may not wait.** The audio thread only tries the buffer's lock, and
  keeps what it could not store.
* **Cancellation that is only noticed now and then.** An aborted decode may finish; a
  key on its way is pressed.
* **One owner, several surfaces**, and one shared engine, clipboard, Cancel button.
* **Detached threads and one file.** Each history write is a thread of its own; the
  configuration writer coalesces; both must survive a failed write and a quit.
* **Failure half-way.** A failed read is not an empty history; a failed tail must not
  take the decoded chunks along; a crash between two renames must not vouch for a file.
* **Subprocesses and servers.** They die on their own, outlive a request, and must not
  survive a switch that happens between any two steps of a request.
* **Limits.** Channels, permits, the spill and the recording's length run out.

`PROJECT.json` lists these as hazards at the lines where they bite, with the
properties that cover them.

## The modules

| Module | Role |
|---|---|
| `GlobalDictation`, `GlobalDictationInductive`, `MCGlobalDictation`, `GlobalDictation_proofs` | dictation, controller, worker, buffer, chunk cuts and outcome combination, composed because they share the take; its inductive invariant; the instance for TLC; the theorems |
| `HistoryStore`, `HistoryStoreInductive`, `MCHistoryStore`, `HistoryStore_proofs` | the history, likewise |
| `SidecarServer`, `SidecarInductive`, `MCSidecarServer`, `Sidecar_proofs` | the warm server, likewise |
| `WarmSlot` | the abstract specification of a slot for one warm process |
| `ParakeetWorker`, `MCParakeetWorker`, `ParakeetWorker_proofs` | the Parakeet worker, which implements `WarmSlot`; the theorems, and those about `GlobalShortcuts` |
| `PasteDelivery`, `MCPasteDelivery`, `PasteDelivery_proofs` | auto-paste: coroutine, portal actor, chord, desktop, composed; the theorems, and those about `PanelFlows` |
| `MainWindow`, `MCMainWindow` | the main window's sessions, with the panel as its rival for the microphone; theorems in `HistoryStore_proofs` |
| `PanelFlows`, `MCPanelFlows` | what the panel does with a result, with the window as its rival |
| `EngineSlot`, `MCEngineSlot`, `EngineSlot_proofs` | engine slot, loads, decodes, and the handlers that select; the theorems |
| `RestApi`, `MCRestApi`, `RestApi_proofs` | settings page, server, clients; the theorems, and those about `VoiceActivity` |
| `ConfigStore` | configuration cache and writer; no behaviours of its own |
| `WhisperDownloads`, `MCWhisperDownloads` | Model page, wizard and download tasks, composed with `ConfigStore` and with crashes and restarts |
| `Settings_proofs` | theorems about the downloads and the store under them, about `SidecarFiles` and `SettingsPages` |
| `SidecarFiles`, `SettingsPages`, `GlobalShortcuts`, `VoiceActivity`, `CaptureStream` | five parts that share no state; theorems about the last are in `Sidecar_proofs` |
| `MCParts` | the five side by side |

In the component modules an operator whose comment begins with *Mutant* is a
plausible mistake in the definition below it. No action uses it; substituting it
shows that a property notices the mistake.

Common to all: **one step is what no other thread can see the middle of** — a GTK
handler up to its next await, a critical section, one access to shared state. Samples
are indices or loudnesses, texts are known by where they come from and who wrote them,
files by what they hold. External parties (portal, desktop, decoder, LLM, server of
downloads, keyring) answer anything their interface allows, in any order the code
admits, or not at all where the code has a deadline. User actions are enabled whenever
the widget that offers them is.

### GlobalDictation

*State.* `owner` is `RecordingController::owner`; `rawLen` and `consumed` are the
buffer's raw length and watermark; `gen` is `dictation_generation`; `chunked` the
`ChunkedDictation` of the running take; `retry` the `retry_take`; `queue` and
`running` the channel and the job inside the worker; `replies` the answers whose
continuation has not run; `after` the continuations of a finished take that still
await the LLM or the clipboard; `history` what was given to the history page;
`panel` and `retryShown` the panel. `takes`, `final`, `discarded` and `filtered`
only record what happened, for the properties.

*Abstractions.* A sample is its index, a decoded text the interval it was decoded
from and whether it says anything; that is what "lost" and "twice" need. The cancel
token is replaced exactly when the generation is bumped, so `aborted` is a set of
generations. The cut and the held-back watermark are any the buffer admits: the
choice among them is `CaptureStream`'s. Whether the confidence filter and the polish
pipeline leave any text is a free choice (`cleaned`). A decode answers with text, no
speech, a failure or a cancellation. What happens to a result afterwards is
`PanelFlows` and `PasteDelivery`; here the delivery is a single repaint.

| Action | Code |
|---|---|
| `Start`, `StartRefused` | `start_global_dictation`: drops the retained audio, bumps the generation, acquires, opens the device |
| `Stop`, `StopUnready` | `stop_global_dictation`: detaches the audio, takes the chunk state, submits; or the chosen backend is not ready |
| `Retry`, `Cancel`, `Close` | the panel's buttons |
| `ChunkDecode`, `ChunkReply` | `maybe_chunk_decode` and its continuation, with `split_chunk_outcome` and `commit_consumed` |
| `TailReply` | the continuation of `submit_global_take`, with `finish_chunked_take` and `finish_global_dictation` |
| `Improved`, `ImproveTimeout` | auto-improve within its deadline, and after it |
| `Repaint`, `CopyToClipboard`, `ReadBack` | `deliver_global_result`: the portal took the text; it did not, and the text goes to the GTK clipboard; that is read back and the result shown |
| `Enqueue`, `WorkerTake`, `WorkerFinish` | `enqueue_inference` and the worker loop |
| `CaptureSample`, `OtherStart`, `OtherStop` | the device, and a recording of the main window |

### HistoryStore

*State.* `file` is `history.json`; `entries`, `loaded`, `savePending`, `load`,
`clears` are the fields of `HistoryPage`; `saveSeq` and `savedSeq` the two counters;
`snapshots`, `appends` and `updates` the threads that have been started and do not
hold the lock yet. An entry is a version: 0 when absent, 2n − 1 as its n-th recording
wrote it, 2n once the generated title or polished text of it has come back
(`AsRecorded`, `Updated`, `TakeOf`). A transcript is recorded more than once when it is
incomplete and the user retries its take: the retry's entry has the same id, and
`upsert_entry` replaces the old one whole, or adds it again if it was deleted.
`recorded` counts these, and `removed` holds the *recordings* that the user deleted or
retention removed, since a deleted transcript may rightly come back by a Retry.

*Granularity.* A thread holds `HISTORY_FILE_LOCK` from its first read to the end of
its write, and `fsio` writes a temporary file that it renames, so each thread is one
atomic step and a crash in the middle is the same as a crash before. A crash needs no
action: memory is lost, the file stays, and `Init` starts from any file an earlier run
may have left. A crash is therefore any finite prefix of a behaviour, and what must
hold in spite of crashes is an action property on `file`.

*Actions.* `OpenWindow`, `Reload`, `FinishLoad` (`load_history`, its thread
`ReadHistory`, `finish_load` with `merge_history`), `AddEntry`
(`record_global_history`: the page, or a headless append; for a transcript in
`Incomplete` up to `MaxTakes` times), `UpdateEntry` (for whatever the entry is by then), `Delete`,
`Clear`, `ChooseRetention`, the threads `WriteSnapshot`, `AppendToDisk`,
`UpdateOnDisk`, and `Quit` (`wait_for_pending_writes`, three seconds at most). Any
read or write may fail, `MaxFailures` times. Not modelled: a file that does not parse
is renamed and treated as empty, which is outside "nothing leaves the file".

`CalmSpec` is the system whose window is opened while no headless write is pending, and
in which a Retry does not answer before its transcript's first append has its turn at
the file: the Retry decodes the audio again in between. Both assumptions are real:
without the first a transcript can be lost, without the second the first recording can
be written over the second, see [below](#where-code-and-comments-disagree).

### SidecarServer

*State.* `slot` is `RUNNING`, `lock` the holder of `REQUEST_LOCK`, `epoch` is
`EPOCH`, `thread` the place of each caller in `transcribe_via_server` and its locals,
`live` and `model` the processes. `stopping` and `victim` follow the GTK thread
through `shutdown_all`: bump, take, kill.

*Granularity.* One step per access to shared state. Taking the server out of the
slot, asking whether it lives and killing a mismatch are fused: the slot is not
touched by the rest, and a death right after is the separate step `ServerDies`.
`check_work` may fail at any of its calls (cancelled token, deadline). Process ids are
reused once a process was reaped. The server specification (binary, model) is one
value `want`; the library directories are a function of the binary and are not
compared, as in the code.

### ParakeetWorker and WarmSlot

The Parakeet worker differs from the server in three ways that matter: a call reads
the epoch *before* it competes for the request mutex; the worker answers over a socket
that is a stream, so an answer nobody read would be the next caller's; and a failed
request is never retried, it is the caller's error. `call` is a thread's place in
`transcribe` with its locals, `wire` the calls written to a worker and not yet read,
`condemned` the workers that ran when the last shutdown began.

`WarmSlot` says what any such slot promises, without threads, locks or epochs: one
process is `starting`, one `warm`; those on their way in or out arrive; a process that
existed when a shutdown began is never warm after it ended. The refinement maps a
process to `warm` when it is in the slot, to `starting` when the thread that spawned it
has still to publish it, to `leaving` when a thread or shutdown has taken it out.
Fairness is part of the abstract specification, so the run also shows that every
process that was taken out is reaped and every shutdown returns.

### PasteDelivery

*State.* `ui[r]` is where the coroutine of request *r* waits, `flags[r]` the shared
`DeliveryRequest` (cancelled, expired, focus lost), `sending`/`queue`/`actor` the
actor's bounded channel and the command it executes, `live` and `token` the portal
session and its restore token, `clip`/`current` what a paste would read and what the
actor serves, `chord[r]` the keys pressed so far, `reply[r]` the answer, `panel`,
`focus` and `recording` the surroundings.

*Actions.* `Coroutine(r)` is `deliver_global_result` with auto-paste: hide the panel,
wait for the focus to leave, send the command, wait for answer or deadline, bring the
panel back, and the GTK-clipboard and ydotool fallback. `Actor` opens or reuses a
session, owns the selection, answers. `Keys(r)` presses and releases one key per step
and looks at the flags before each press, as `send_chord` does. `Expire(r)`, `User`
(cancel, new recording, Retry, moving the focus, revoking, copying elsewhere), `Desktop`
(focus follows, the session is closed, the clipboard changes hands). The actor may
wait for a consent dialog for ever.

### MainWindow

*State.* `generation` is `operation_generation`; `queue` and `threads` the requests of
the window by kind and session; `result` and `variants` what is shown and who rewrote
it; `summary`, `retry`/`retryShown`, `preview`, `spinner`, `recording`, `paused`,
`chipsOn`, `controls` the view; `live` the preview loop; `speaker`, `dead`, `polls` the
microphone with whoever started the capture, its fatal error and the error polls.

*Actions.* `Record`, `Pause`, `Stop`, `RecordTimer` (the timer of every second: limits and
stream errors), `Cancel`, `Retry`, `TranscribeFile`, `LiveTick` (the preview loop of one tentative decode
at a time), `Answers` (every continuation by kind), `SelectMessage`, `Chip`,
`StartVoiceEdit`, `StopVoiceEdit`, `MainPoll` (the voice edit's error poll), `Close`,
`Present`, `StreamDies`, and `Panel`: the panel's takes and voice edits as far as they
start and end captures.

### PanelFlows

*State.* `res` is `last_result_state` (raw text, variants, active index, all known by
take and author), `target` the `voice_edit_target`, `decodes` and `threads` what is
under way, `saved` the polished text per history entry, `page`, `shown`, `extras`,
`chipsOn`, `retryShown`, `visible` the panel.

*Actions.* Takes (one decode each here), `Chip`, `ChooseVariant`, `StartVoiceEdit`,
`StopVoiceEdit`, `CancelVoiceEdit`, `TransformSelection` with its awaits (selection,
AI, clipboard), `ClosePanel`, the window's recordings, and `Answers`: each coroutine
wakes and looks at generation and owner exactly where the code does.

### EngineSlot

*State.* `cache` is the selection part of the configuration, `slot` the shared engine
with the model, compute and request it was loaded for, `loading` the holder of
`LOAD_LOCK`, `job[j]` each thread in `load_engine` or `run_transcription_inner`,
`gtk`, `generation`, `answers`, `status` and `windowGpu` the main window.

*Actions.* `LoadStep` (polling the lock, the look under it, the load on GPU or CPU,
`publish_for_selection`), `DecodeStep` (run, two failures on the GPU, `LoadCpu`,
`Swap`), `User` (engine, model, compute, finished download, deletion, opening the
window), `Handler` (the second half of a handler that saved first, for a deletion with
its last refresh of the window; the window's `on_model_loaded`). `Loaded` publishes only what the configuration selects at that
moment, under its lock.

### RestApi

*State.* `config`, `keyring`, `generation` and `starts` are the settings page with its
asynchronous token; `server[s]` a server with listener, token and stop flag, and whether
the runtime `adopted` the listener (if not, `serve` returns at once and the handle stays
set: `Served`); `usurped` remembers that an overtaken start stored its own token last;
`queue[s]`, `worker[s]` its bounded job queue and worker thread; `request[c]` where a
client's connection is, with its permits implied by the place; `job[c]` its job and
abort token.

*Actions.* `User` (enable, disable, port, token on/off, regenerate), `Secrets` (the
keyring answers; one that cannot be read looks empty, `Loaded`, and the start then
stores a new token over the old one), `Arrivals` and `Connect`/`Admit`/`Enqueue` (the three admission
limits), `Progress` (answer, timeout), `Disconnect` (the future is dropped wherever it
waits, its guard aborts the job), `Accept` (the accept loop sees the stop), `Work`.

### ConfigStore and WhisperDownloads

`ConfigStore` is `config.rs`' cache with `config_writer.rs`: `Save` sets the cache and
submits under one lock, `Take`/`Write` are the writer, which keeps only the newest
request, `Quit`/`Flush`/`Crash` the end of the process. `WhisperDownloads` instantiates
its `Config` with the selected model, the directory and the first-run flag, and adds
the files (`final`, `part`), a task per row (`job`: check, adopt, ask, open, body,
verify, publish), the page (`label`, `trash`, `current` = `current_cancel`, `button`),
the wizard, and the window's `engine`. A task holds its file open: after another task
renamed or removed it, its writes go where that left the file (`at`). `Start` is a
restart: partial files and configuration stay, everything else is new. `past` records
that two downloads shared a partial file or that the directory changed; the properties
that fail then (`PublishedIsVerified`, `EngineIsSelected`) say so in their antecedent.

### The five parts

* `SidecarFiles` — `held`, `sentinel`, `tree`, `aside` are the disk; `phase` and `row`
  the page. Qwen checks its weights under their final name and trusts its sentinel,
  Parakeet checks before it names a file and asks for every file as well. `TearThing`
  is a deletion that fails half-way, `Reopen` the end of the process anywhere.
* `SettingsPages` — endpoint, consent dialog, model list; presets with the debounced
  editor; dictionary terms and rules; the chips. A handler is one step; what lasts
  longer is a pending edit, a dialog, a request for models.
* `GlobalShortcuts` — the task through session, subscription, binding and listening,
  two bounded queues (presses out, "configure" in), the wait that doubles, clicks that
  time out. Presses are numbered.
* `VoiceActivity` — jobs that try one lock around a cached context which is kept under
  the identity of the model file; the file may be replaced at any time; a job may panic.
* `CaptureStream` — device lookup with its cache and substitute, the callback with
  `try_lock` and spill, the limits, pause, stream errors and the poll; then
  `choose_cut`, the decode of a chunk, `split_commit`, `Drain`, and
  `finish_chunked_take`. A frame is silence, a murmur or speech, and a word is a maximal
  run of sound, so "cut through a word" can be said.

## The runs

| Run | Question | Instance and why it is enough |
|---|---|---|
| `dictation` | Is a take decoded once and completely, whatever Stop, Retry, Cancel and late answers do? Does an older take's answer disturb a newer one? Does the spinner end? | three scenarios side by side, chosen by `scenario`: *chunks*, one take of three samples (two chunks and a tail, or three chunks) with two more generations; *takes*, two takes of one sample and a Retry, the main window recording in between; *alone*, two takes of two samples and no other surface. Channel of one, so that a full channel happens |
| `dictation_late_repaint` | counterexample, see [below](#where-code-and-comments-disagree) | the smallest instance that shows it |
| `history` | Does the history lose, resurrect or undo anything? Is everything written in the end? | two new transcripts, one of which a Retry records a second time, and an old one that retention removes; three snapshots, so that the newest two can be written in both orders after an older one; one failure |
| `sidecar_server` | One server, never leaked, right model, shutdown sticks, every request answered? | two threads with two models, three process ids (the slot's, the one being started, the victim), one shutdown |
| `parakeet_worker` | Does the worker implement the abstract slot? Does a caller get its own answer? | two threads, two models, three process ids, two calls and one shutdown: a call that is cancelled and one that comes after it |
| `paste_delivery` | Does a delivery type its own text, into another program, and nothing after it ended? Does the panel come back? | two requests (one takes over from the other), two acts of the user (focus, cancel, record, copy, revoke), a chord of two keys, a channel of two |
| `main_window` | Do late answers, the panel, closing or a dead stream leave the window with something that is not its own, or waiting? | four acts: a session with follow-ups, a second one that overtakes it, and an edit or the panel in between |
| `panel_flows` | The same of the panel | three acts: a take, what is done with its result, and what overtakes that |
| `engine_slot` | Can a load, a decode or a CPU swap bring back an engine nobody selected? | two threads, a model and its quantized variant (which is what an old id may resolve to), three acts |
| `rest_api` | Does a change of settings, a disconnect, a timeout or a stop leave a job, a permit or a server behind? | two servers, of which one may still be closing, and two changes of the settings; one upload permit and a queue of one, so that both fill. Two scenarios side by side: *settings*, two callers and every change; *callers*, three callers for two connections, and a server without a token |
| `downloads` | Is what has a model's name verified, what is selected loaded, what is called saved on the disk? | a model and its variant, two directories, two slots of the wizard; three acts, one slip of the server (wrong bytes), a crash between any two steps |
| `parts` | The five parts, one per behaviour (`focus`) | *files*: four acts, one end of the process. *pages*: four endpoints (two of one authority, one of another, one not allowed), four acts and presets. *keys*: two clicks, queues of one, three presses, one doubling. *voice*: two jobs, three versions of the file. *mics* / *cuts*: five frames, so that a cut, a held-back word and a tail fit; a spill of one |

Runs have `CHECK_DEADLOCK FALSE`: the application may rest (nobody dictates, every
bound is used up, the user has quit).

*Bounds.* The constants called `Max...` bound counters; each is a conjunct of the guard
of the action that counts. Acts of the user are bounded together (`MaxActs`), because
what goes wrong is a short sequence of them against many steps of the program, which
are not bounded. `MaxBegun` bounds them in the panel, and `MaxDelay` is the longest wait
of the shortcuts task. `QueueCap`, `KeyCap`, `CommandCap`, `MaxConnections`, `MaxUploads`,
`QueueDepth`, `MaxSpill` and `MaxBuffer` are the code's limits, small enough to be
reached. In the sums (`MCGlobalDictation`, `MCRestApi`, `MCParts`) the chosen scenario never
changes; there a bound that differs by scenario is `Fits`, which holds back users and
devices only. The proofs remove these bounds for the properties they cover.

## The properties

Most invariants are a conjunction of named parts, each with its comment in the module;
for nearly every part `PROJECT.json` has a mutant that breaks it.

* **Dictation.** `ChunkSafety`: the texts kept while recording are exactly the audio the
  buffer has given up, and at most one decode can extend them. `SpeechOnce`: a saved
  transcript covers every sample of its take once, an incomplete one every sample up to
  where the final decode should have begun. `DecodedSpeechKept`: speech decoded while
  recording is still to come or saved, even if the tail fails. `RecordingStaysVisible`:
  no late answer takes a recording's view away, but for the one in
  `dictation_late_repaint`. `CancelledNeverSaved`: no step writes a cancelled take.
  `SpinnerEnds`: for a dictation that is alone on the microphone.
* **History.** `PageSafety` (a finished transcript is always somewhere, and the file
  agrees with the page at rest), `NeverTruncated` (failures and crashes included),
  `LateWritesUndoNothing` (no entry in the file goes back to an older recording, title or
  polished text, and no removed recording comes back), `EntryReachesFile`.
* **Sidecar server.** `ServerSafety` (`NoOrphan`, `OneServer`, `RightModel`),
  `ShutdownSticks`, `RequestsEnd`.
* **Parakeet worker.** `ImplementsWarmSlot` (the refinement), `WorkerSafety`
  (`AnswerIsOwn`, `RightModel`, `NoOrphan`), `RequestFreed`.
* **Paste.** `DeliverySafety` (no key left down, no microphone behind a hidden panel),
  `ChordSafety` (own text, another program, at most one key after the end),
  `PanelComesBack` even when the actor waits for ever.
* **Main window.** `WindowSafety` (controls and microphone, spinner and work, summary,
  preview, presets and result, closed and retained audio), `StepsTouchTheirOwn`,
  `WindowComesToRest`.
* **Panel.** `PanelSafety`, `LateAnswersHarmless`, `PanelComesToRest`. `WaitingEnds` is
  about a panel behind which nobody records: with a recording the code drops the answer.
* **Engine.** `EngineSafety` (a decode's engine is one its settings allow; "ready" is
  the selected model), `SlotFollowsSelection`, `JobsEnd`.
* **API.** `ApiSafety` (the server is the one the settings show; what a caller left is
  aborted; a full queue is never live callers' fault), `ServesStoredToken` (with no
  Regenerate on its way, and unless an overtaken start stored its token last),
  `ApiComesToRest`.
* **Downloads.** `DownloadSafety`, `SavedMeansOnDisk`, `DownloadsSettle`.
* **Parts.** `FilesSafety`, `PagesSafety`, `ShortcutsSafety`, `VoiceSafety`,
  `CaptureSafety` and, of all five, `PartsComeToRest`.

## Fairness

Only what the code itself drives is fair; users, devices, other surfaces, dying
processes, consent dialogs and the portal owe nothing.

| Module | Weakly fair | Because |
|---|---|---|
| dictation | `WorkerTake`, `WorkerFinish`, `Continuations` | a thread that blocks on its channel; a decode ends or meets its deadline; the main loop runs ready futures, and the LLM and clipboard calls have deadlines |
| history | `Threads`, `FinishLoad` | started threads that wait only for a lock nobody keeps |
| server, worker | each thread's `Work`, shutdown | every wait polls a deadline |
| paste | each coroutine and its `Expire` | its timers and deadline are its own; the actor is *not* fair |
| main window | `Answers`, `RecordTimer`, `MainPoll`, the panel's end of a dead take | timers repeat; every request is answered or times out |
| panel | `Answers` | as above |
| engine | each job, `Handler` | threads run; loads and decodes return; the lock is polled |
| API | each connection's `Progress`, each server's `Accept` and `Work` | headers, bodies, decodes and the translation have deadlines |
| downloads | each row's task and its answer, the writer | the task's reads have timeouts; the writer is a thread. Nothing is asked of the wizard's downloads |
| parts | file tasks and their answers; ticks and the retry they bring; `GiveUp`; `Unlock`; and, strongly, `Poll` | a timer has its turn although the GTK thread takes and releases the buffer's lock in between, hence strong |

## The proofs

| Module | Theorems | Invariant they rest on |
|---|---|---|
| `GlobalDictation_proofs` | `TypeCorrect`, `OneChunkAlways`, `ChunksMatchBufferAlways`, `ChunkSafetyAlways`, `SpeechOnceAlways`, `RecordingStaysVisibleAlways`, `CancelledNeverSavedAlways`, `DecodedSpeechKeptAlways` | `SpeechInv`, `CancelInv`, `KeptInv` |
| `HistoryStore_proofs`, history | `HistoryTypeCorrect`, `NeverTruncatedAlways`, `PageSafetyAlways`, `LateWritesUndoNothingAlways` | `HistoryInv`, `PageInv` |
| the same, main window | `WindowSafetyAlways`, `StepsTouchTheirOwnAlways` | `WindowInv` |
| `Sidecar_proofs`, server | `SidecarTypeCorrect`, `NoOrphanAlways`, `OneServerAlways`, `RightModelAlways`, `ServerSafetyAlways`, `ShutdownSticksAlways` | `SidecarInv` |
| the same, capture | `CaptureSafetyAlways` | `CaptureInv` |
| `ParakeetWorker_proofs`, worker | `WorkerSafetyAlways`, `WorkerImplementsWarmSlot` | `WorkerInv` |
| the same, shortcuts | `ShortcutsSafetyAlways` | `ShortcutsInv` |
| `EngineSlot_proofs` | `EngineSafetyAlways`, `SlotFollowsSelectionAlways` | `EngineInv` |
| `RestApi_proofs`, API | `ApiSafetyAlways`, `ServesStoredTokenAlways` | `SettingsInv`, `TrafficInv`, `TokenInv` |
| the same, voice | `VoiceSafetyAlways` | `VoiceInv` |
| `PasteDelivery_proofs`, paste | `DeliverySafetyAlways`, `ChordSafetyAlways` | `PasteInv` |
| the same, panel | `PanelSafetyAlways`, `LateAnswersHarmlessAlways` | `PanelInv` |
| `Settings_proofs`, store | `PersistedMeansOnDiskAlways`, `FlushedMeansOnDiskAlways`, `SavedMeansOnDiskAlways` | `StoreInv` |
| the same, downloads, files, pages | `DownloadSafetyAlways`, `FilesSafetyAlways`, `PagesSafetyAlways` | `DownloadInv`, `FilesInv`, `PagesInv` |

Two components share a module of proofs where that kept the modules few; their
arguments share nothing but library facts and variables are never mixed.

*Which specification.* The history's theorems are about `CalmSpec`; the window's and the
panel's about `WindowSpec` and `PanelSpec`; those of the five parts about the part's own
`Init` and `Next`, whose steps are those `MCParts` takes for it; all others about
`Spec`. None uses fairness.

*Assumptions.* Only those the component modules state about their constants, by name in
each module (`DictationAssumption` to `CaptureAssumption`), and TLC evaluates every one.
Most say that a bound is a number, a capacity at least one, or that a name for "nobody"
is not the name of somebody. The others come from the code: the channel of the API holds
at least as many jobs as there are uploads (`MaxUploads <= QueueDepth`, both limits of
`api/mod.rs`); a chord has two or three keys; the page begins with two presets
(`MaxPresets` at least two); the rows of the page and the wizard's slots differ
(`Model \cap Slot = {}`); and the tail guard of a forced cut is not empty (`Guard`, half
a second in `audio/chunking.rs`), without which a word that is cut could be committed.

**Dictation.** `SpeechOnce` alone is not inductive: the entry a tail answer writes is
described by the job, so the job must be known to carry the take as Stop left it
(`TakesFinal`), that take must tile (`FinalTiled`), and it does because chunk texts
and watermark agreed at Stop (`ChunksMatchBuffer`). That agreement survives a chunk's
answer only if the chunk begins at the watermark and ends within the buffer
(`LiveChunkFits`), which needs that no other live chunk moved it (`OneChunkInFlight`)
and that a job of a generation still to come does not exist (`GensBounded`). The
sequence lemmas about `Tiles` are stated once. `CancelInv` ties every decode of a
cancelled take to an aborted generation; a Retry makes a second decode of a take, so
it also says that only the newest of them counts. For `DecodedSpeechKept` it is not
enough that a job with the speech exists, since its answer may be thrown away: speech
nobody gave up is in a decode whose token stands (`SpeechCounts`), and what Retry
aborts is what it queues again (`RetryRepeatsNewest`).

**History.** `NeverTruncated` needs the chain from file to page: from the file over one
pending snapshot to the next and to the page, an entry keeps its version or has a later
one, and is missing only if that recording was removed (`Covered`, by `Keeps`). The same
chain carries `UpdateNeverUndone`, versions being ordered by recording first and update
second. It rests on snapshots being numbered as they were taken (`SnapshotsNumbered`),
on nothing being written while the file is read (`LoadIsCurrent`), on no list holding a
recording still to be made, and a thread appending the newest (`Made`), and on headless
threads and snapshots never coexisting (`OneWriter`), which is what fails without the
calm opening. `PageInv` adds where the newest recording is (`RecordedKept`): appended by
a thread and not yet in the file (`AppendsPending`), or on a page, which holds nothing
that was removed, and while it loads only what it will save (`PageIsNew`); that the
newest snapshot is of the page and on disk or on its way (`NewestShown`); and that a
clean end leaves nothing unsaved (`EndIsQuiet`).

**Main window and panel.** Both keep apart what a job was asked for and what is shown
when it answers. No job is numbered ahead of the session (`JobsPast`), so a new session
makes every job stale; a follow-up of the running session is one of its result
(`FollowUpsOwn`, `ImprovesItsTake`); the animation has a job of the session behind it
(`AnimationWaits`), which a recording never has (`RecordingUnheard`). In the panel a
cancelled voice edit is of an older session (`CancelledIsStale`), and each session and
edit was begun by an act (`ActsCount`), which is what bounds them.

**Sidecars.** `OneServer` follows from `NoOrphan` with `Locked` (a thread past the lock
holds it) and `SlotEmptied` (a thread that owns a server outside the slot has emptied
the slot). `ShutdownSticks` needs `QuietEmpty`: after a bump that nobody has read,
every thread past `ReadEpoch` holds an older epoch and can install nothing. The Parakeet
worker has the same argument and a stream: it is empty until a call is written, holds
that call alone until it is read, and what a failed call leaves is in a worker on its
way out (`StreamIsOwn`). The refinement of `WarmSlot` is proved step by step, each
action being one of the slot's or a stutter under the mapping of `ParakeetWorker`; it
needs `CondemnedPast`, that what a shutdown found running is not warm after it.

**Capture.** Buffer and spill are, index by index, what was spoken behind what was
drained (`Heard`), the copy is what the buffer begins with (`ChunkHeard`), and the
committed segments say every sound before the mark once, each beginning with a sound
after silence and ending before silence, at a mark where no word goes on (`PartsSay`).
The lemmas under it follow the sound through the code's operators: the decoder's
segments are those of the conditioned sound moved back (`DecodedInPlace`); a verified
cut lies before a silent frame, for not even the loudest of its window is heard
(`CutIsSafe`); a forced one may split a word, whose segment then ends within the guard
and is held back with all that follow (`SplitIsSafe`); segments of adjoining pieces
are segments of the whole (`JoinSays`). That the decoder's segments are the longest
stretches of sound is an assumption about an external library.

**Shortcuts and voice.** `NoKeyDropped` needs that activations are subscribed to before
anything is bound (`SubscribedFirst`). A context is of a file no older than the
identity it is kept under (`FilesGrow`), which is read after the lock
(`IdentityFirst`); a context a job died in is in a poisoned lock (`HurtIsPoisoned`).

**Engine.** What a thread loads or decodes with is an engine of its own configuration
and on a device that configuration allows (`JobsAsAsked`), the slot's engine is on the
GPU only if that was asked for (`SlotAsAsked`), and a handler that goes on after a save
loads the model it saved (`HandlerKnows`).

**API.** The settings' side and the callers' side are invariants of their own, each
kept by frame lemmas through the steps of the other. A start that is not the newest is
never bound (`StartsInOrder`). For the token, the current start is alone, and nothing
serves while it is on its way (`OneCurrent`); what it brings is the keyring's token
unless an older start stored its own since (`TokenHeld`), and that is what the server
is bound to (`BoundTo`). A job is in one place (`QueueOwns`, `WorkerRuns`,
`NoJobBefore`); uploads are counted (`UploadsBounded`), hence a full queue holds an
abandoned job.

**Paste.** A request is in one place on its way to the actor (`OneCommand`); while it
stands and is held it is waited for (`Standing`), and while it is waited for the focus
is watched (`Watched`), so that a key that goes down when it should not belongs to a
request that has ended (`LateIsOver`) and the selection is the holder's own (`OwnText`).

**Settings.** "Persisted" compares two counters and a flag; that it says anything
about the file needs to know where the newest request is: still pending, being written,
or the last one written, and equal to the cache (`NewestIsCache`). Coalescing keeps
that, because a request that is replaced is never the newest. The theorem is about the
store under everything `WhisperDownloads` does to it, restarts and crashes included.
For the downloads, rows tell what their download does (`RowsTell`), write into the
configured directory (`RowsFile`), and publish what they verified as long as no other
download shares their partial file (`Undisturbed`, `OkIsThere`). For the files, how far
a download has come says what its directory holds, with the sentinel away all the while
(`ModelWork`, `RuntimeWork`, `QwenWhole`). On the pages, an open dialog names the
endpoint in use (`DialogAsks`) and a prompt still to be saved was typed for the preset
it will go to (`PendingIsOwn`).

*Only model-checked:* the liveness properties (`SpinnerEnds`, `EntryReachesFile`,
`RequestsEnd`, `RequestFreed`, `PanelComesBack`, `WindowComesToRest`,
`PanelComesToRest`, `JobsEnd`, `ApiComesToRest`, `DownloadsSettle`, `PartsComeToRest`)
and the liveness part of `ImplementsWarmSlot`: temporal reasoning about fairness and
ENABLED is not supported by the proof system. Every invariant and every action property
of the runs that pass is also a theorem.

## Where code and comments disagree

One is kept as a run whose property TLC violates. `dictation_late_repaint` — when the
portal did not take the text, `deliver_global_result` awaits the clipboard's read-back
(`application.rs:1647`) and then shows the result without a second look at generation
and owner. A dictation started meanwhile records behind a result view, which the
comment at `application.rs:1633` says must not happen (`PanelMatchesCapture`).

The others were seen in the same way, and the properties above are stated so that they
hold beside them (an antecedent, or an exception named in the property).

*Dictation.*
* A main-window recording started while the clipboard call is awaited leaves the panel
  spinning (`application.rs:1634`, against the comment at 1626); hence `scenario =
  "alone"` in `SpinnerEnds`.
* "a stop's TAIL job must never be rejected" (`recording.rs:797`), but
  `enqueue_inference` uses `try_send` for tails too (1072): three quick takes with a
  chunk each fill four slots.
* "The finished transcript must still reach History" (`application.rs:904`), but a stale
  take whose cleaned text is empty is dropped with its raw text (913).
* New drops the retained audio before the recording may be refused
  (`application.rs:690`), so with a recording of the main window the visible Retry does
  nothing.
* A tail that fails after silent chunks is shown as "No clear speech", without Retry
  (`application.rs:1098`, against the comment at `recording.rs:677`).

*History.*
* An append thread that has not got the file lock when the window reads the file is
  erased by the page's next snapshot (`ui/history_page.rs:742`); hence `CalmSpec`.
* A transcript finished while the page loads has no thread to wait for at exit
  (`application.rs:128`).
* A title or polished text that arrives while the page loads, for an entry not merged
  yet, is dropped (`ui/history_page.rs:446`).
* A transcript whose Retry is recorded while the page loads, and then deleted, comes back
  as its first recording when the file is merged (`ui/history_page.rs:547`); and the
  title asked for by the first recording is put on whatever the entry is when it comes,
  the second included. The properties therefore speak of recordings, not of ids.
* If the Retry's append gets the file lock before the first recording's, the incomplete
  transcript is written over the whole one (`application.rs:1717`); hence the second
  conjunct of `CalmNext`.

*Sidecars and engine.*
* Between the bump and the take of `shutdown_all` a request may take the condemned
  server and install it again (`transcription/sidecar_server.rs:129`); one that waits
  for `REQUEST_LOCK` reads the new epoch and starts a server of the old backend (119).
* `load_model_by_id` never asks which engine is selected, so a finished download or the
  deletion of the selected model loads Whisper beside a sidecar
  (`ui/main_window.rs:3236`, against the comment at 2027).
* `handle_model_deleted` ends in `sync_ui_from_config`, which leaves "Loading model…"
  although an engine is ready; a failed load leaves it for good; deleting the last model
  does not stop a load from publishing it.
* The CPU engine after GPU failures is loaded outside `LOAD_LOCK`.

*Delivery and shortcuts.*
* A copy of another surface during the fallback is what gets pasted
  (`application.rs:2035`, against "never paste stale data").
* The permission revoked while the actor opens a session is stored again when that
  succeeds (`portal/paste.rs:816`).
* "Timed-out UI requests must never open a late dialog" (`portal/shortcuts.rs:344`), but
  a configure call may last 8 s of the click's 10; and while the first binding waits for
  the user's dialog, requests are not read at all.

*Main window and panel.*
* A chip clicked on the old result while the next take is decoded is answered into the
  new one (`ui/main_window.rs:971`), and a voice edit's answer goes to whatever message
  is current; `PresetInItsSession` says what does hold.
* Esc while a chip's request is in flight leaves the chips disabled and the status
  standing; "Decoding file…" stays after the early returns at 1805; a superseded take's
  preview stays above the old result when the dropped file fails
  (`ui/transcript_view.rs:1047`).
* `try_acquire` with the same owner lets the panel's and the window's voice edits take
  over each other's capture; the panel's Stop and Cancel act on the window's edit.
* `transform_selection` repaints a live recording after its awaits
  (`application.rs:1796`, 1853); the raw text of a delivery that waits for the portal
  overwrites a late improvement; "Didn't catch an instruction" is overwritten by
  `show_active_result`; the panel's chips and voice edits are not saved to the history.

*Settings, API, downloads, capture.*
* A restart on the same port binds while the old server still listens, and leaves no
  server (`application.rs:508`, against `ui/settings/api.rs:217`); a first token being
  stored races Regenerate; across a restart two workers may decode at once.
* A keyring that cannot be read looks like one without a token (`secrets.rs:30`), so a
  start stores a new token over the one clients use (`application.rs:440`); a start that
  does so after it was overtaken leaves the running server with a token that is no longer
  the stored one (`usurped`). A listener the runtime does not adopt (`api/server.rs:29`)
  ends the server while the handle and the settings say that it runs.
* Two downloads share `current_cancel`; a finished one steals the selection; another
  directory leaves the rows stale. Double clicks in the wizard, or the wizard and the
  page together, start two downloads of one partial file, of which one may be published
  unverified (`transcription/model.rs:448` says "Verify before publishing"): hence
  `past` in `PublishedIsVerified`. A partial file of full length but wrong content makes
  every Retry fail with 416 (292). A torn deletion keeps Qwen's sentinel; a crash between
  its two renames orphans the old runtime.
* A prompt typed in another preset within half a second replaces the one still to be
  saved (`ui/settings/mod.rs:38`); a late model list of an older endpoint overwrites the
  newer one's; the mini panel's chips run by index whatever preset is there.
* The migration of the Hugging Face token loads, changes and saves around a save of the
  GTK thread; an unreadable configuration is replaced without a backup; a debounced edit
  pending at quit is lost.
* Frames still in the callback's spill when a take is stopped are lost
  (`audio/capture.rs:265`).

## What is not modelled

* *Pure computation whose result matters only by a few cases:* decoding of files,
  resampling and conditioning, the models themselves, text post-processing, the
  confidence filter (empty or not), hashing (right or wrong), the LLM's formats.
* *Display:* layout, rows, navigation, tray, translations, status wording except where a
  property is about it.
* *Within modelled components:* a history or configuration file that does not parse,
  migrations of the configuration, the catalogue of models, progress and disk space,
  routes and parsing of the API, reading an archive member by member, the choice between
  Qwen's warm server and its CLI, older messages of the main window, the settings pages
  that save one value per switch.
* *Third-party or without behaviour at run time:* vendored whisper.cpp and its shim,
  packaging, scripts.

`PROJECT.json` has the status of every component.

## Plan

1. *(done)* the models and runs above.
2. *(done)* theorems for every invariant and action property the runs check, and the
   refinement of `WarmSlot` step by step.
3. Next: an abstract specification of the microphone's ownership that
   `GlobalDictation`, `MainWindow` and `PanelFlows` each implement, so that the rivals
   each of them now models by hand are steps of one specification; the same warm slot
   for `SidecarServer`, whose request loop differs from the worker's only in its retry;
   and action properties for what the invariants only say of states, such as that a
   committed chunk is never given up (`CaptureStream`) or that a sentinel is only
   written over verified files (`SidecarFiles`).
