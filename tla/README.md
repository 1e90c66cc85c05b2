# WorkWithMe: TLA+ models, checks and proofs

WorkWithMe is a desktop application (Tauri, Rust and React): an AI coding agent with a chat, voice
dictation, meeting recording with transcripts and summaries, screen capture and screen recording.
This directory models its concurrent core in TLA+: the server and its stores, the pipelines that run on
threads of their own, and the windows. TLC checks the models on small instances, and TLAPS proves their
safety properties for every value of the constants.
Paths below are relative to `src/src-tauri/src/` unless they name another root.

## 1. Inventory

### Parts that are modelled

| Part | State | Operations | Hard behaviour | What makes it correct |
|---|---|---|---|---|
| **Agent runtime**: `server/ws.rs`, `server/agent_endpoints.rs`, `AppState` in `server/mod.rs` | maps `session_handles`, `abort_handles`, `session_cwd`; per session a mutex round the agent; per prompt an event channel, an error channel and an abort signal | WebSocket `prompt`, `new_chat`; `POST /api/stop`, `/api/project`, `GET`/`POST /api/thinking` | every connection is a task, every prompt spawns another; maps are looked up, unlocked and changed later; clients disconnect mid-run; locks are held while waiting for other locks | a stop reaches only live prompts; a prompt runs on its own session; the sandbox directory is current; completion follows the events; every request is answered |
| **Session files**: `server/sessions.rs`, `sessions_endpoints.rs`, the label in `ws.rs`, `set_project` | one JSON file per session, in the sessions directory or its archive | create, PUT, label, set_project, archive, unarchive, expiry at startup | three writers that load, change and save without a lock; a rename moves an open file along; the cleanup runs beside the server; crashes leave emptied files | no session vanishes, none is in two places, and requests that do not collide are atomic |
| **Configuration files**: `server/settings.rs`, `models.rs`, `mcp.rs`, `oauth.rs` with their endpoints | `settings.json`, `mcp.json`, `auth.json`; pending logins in memory | get, set, delete, save all; add, remove and select a model; MCP servers; start and complete a login | whole-file changes in parallel; files that do not parse; full disks; a network exchange between load and save | changes that do not collide are atomic; nothing unreadable is silently replaced; an exchanged login is not lost |
| **Plugins**: `server/plugins.rs` | a directory per plugin, a registry behind a lock | scan at startup, install, enable, disable, uninstall | an install takes the lock only at its end, a removal holds it; crashes in between | registry and directories agree; what is removed stays removed |
| **Captures**: `capture.rs`, `window_capture.rs`, `library/`, `src/src/EditorWindow.tsx` | rows, search index, files, OCR threads, the pending capture, the editor's id, image and exports | capture, save draft, export, finalize, save video, delete, OCR, prune | OCR threads end in any order; an export awaits while the next capture arrives; statements fail one by one | rows, entries and files agree; a file shows its own capture; the text found is the text shown |
| **Screen recorder**: `recorder.rs`, `RecordingOptionsPanel.tsx`, `RecordingPill.tsx`, `TrimEditor.tsx` in `src/src` | ffmpeg, the session, the panel, pill and trim windows, the path for the trim editor | start, stop, hand over, export, delete | windows mount and take what is there at that time; one recording replaces another | no ffmpeg without a session, no file deleted unseen, what is stopped reaches the editor |
| **Chat client**: `src/src/context`, `src/src/hooks/useChatWebSocketSubscriptions.ts` | the socket, `currentSessionId`, the messages shown, `isProcessing`, the refs that follow both | submit, steer, stop, new chat, load; the handlers of the server's messages | the connection is lost and comes back; no handler looks at the session of a message; requests overlap | busy while a turn runs; messages of the current session; busy ends |
| **Dictation**: `lib.rs`, `audio.rs`, `transcription.rs` | the recorder's buffer, `DictationState` (detector, `is_recording`, `in_app_mode`), a channel of 8 chunks, the overlay window | microphone button, global hotkey, 20 ms poll, worker | four threads; the stop runs on the main thread and may block; samples move between three buffers | nothing is duplicated, reordered, mixed between recordings or delivered to the wrong side; stops return; the overlay goes away |
| **Meetings**: `meeting.rs`, `voice_db.rs`, startup in `lib.rs` | `ACTIVE_MEETING`, SQLite tables (sessions, segments, notes, full-text index), WAV files | start, stop, save notes, delete, generate summary; transcription thread; recovery at startup | threads outlive the commands that spawn them, sessions are deleted under them, database calls fail, the application crashes | no orphan rows, no session stuck in a state nobody owns, no audio or notes lost |

### How they interact

- The chat client talks to the agent runtime over one WebSocket per window and over HTTP. The windows
  share `AppState`, so two windows can work on one session. `AgentServer` is the server's side of that
  protocol, with the client as an arbitrary sender; `ChatClient` the client's, with the server as
  a queue of frames and at most one turn.
- `POST /api/project` and the label written after a prompt share the session's JSON file with the
  session endpoints. `AgentServer` has the points at which they happen, `SessionFiles` the file.
- The stores share a directory tree and the threads that serve requests, and no file and no lock.
- The cleanup of old sessions (`lib.rs` 597) runs beside the HTTP server (spawned at `lib.rs` 532); the
  scan of the plugins is awaited before the server listens.
- A capture reaches the editor by a window that is opened or an event to one that is open, and the
  library by the id that came along. The screen recorder's windows hand a path on in the same way; an
  exported recording enters the library as `SaveVideo`.
- Dictation and meetings share the Whisper engine's mutex and nothing else. `Dictation` has two actions
  for the meeting's side of that mutex; `Meeting` treats waiting for the engine as part of a step.
- A meeting's transcription thread shares the database connection and the WAV file with the commands on
  the main thread. Tauri runs commands that are not `async` on the main thread, one after another.

### Not modelled (the full list is in `PROJECT.json`)

| Part | Why |
|---|---|
| The vendored crates `src/patches/pi_agent_rust` and `src/patches/asupersync` | third-party libraries, more than nine tenths of the repository's lines. The map therefore covers a small share of the repository, and most of the application's own code that keeps state. What the application calls of them is modelled as it is used: sessions and abort signals in `AgentServer`, `AuthStorage` and its file lock in `ConfigFiles` |
| Approval manager, process registry | no code inserts into them: they are always empty |
| Notifications | one sliding window behind one lock, read and changed in one go |
| `llm_config.rs`, `voice_shortcuts.rs` | files written as a whole by one caller each: `SaveJobs` of `ConfigFiles` with one request |
| Skills, extensions, event mapping, audit, logging, keychain, clipboard, files, static files | they read, or keep nothing that later calls depend on |
| Chat: messages, tool steps, approval requests, the list of sessions | content; the list can show an older answer than the latest, which the next refresh repairs |
| Other views | they show what the parts above have |

## 2. Modules

| Module | Models |
|---|---|
| `PromptService` | what the server promises of its prompts, whatever maps, locks and channels there are |
| `AgentServer` | the agent runtime, one action per stretch of a handler between two awaits; shown to implement `PromptService` |
| `SessionStore` | what the session files promise: a document per session, changed at once |
| `SessionFiles` | the session files, one action per access to the disk; shown to implement `SessionStore` |
| `ConfigFiles` | settings, MCP servers and credentials, loaded, changed and saved whole |
| `Plugins` | plugin directories and the registry |
| `CaptureLibrary` | captures from the screenshot to the library, with the editor and the OCR threads |
| `ScreenRecorder` | screen recordings and the four windows they pass through |
| `ChatClient` | socket, session and chat contexts of a window against an abstract server |
| `SilenceDetector` | the voice activity detector as operators on a record |
| `Dictation` | the four threads round the detector |
| `Utterances` | what dictation promises its user; `Dictation` is shown to implement it |
| `Minutes` | what a recorded meeting promises its user; `Meeting` is shown to implement it |
| `Meeting` | recordings, transcription threads, summaries, database, files, crashes |
| `Disk` | the constants the file stores have in common |
| `...Proofs` | the theorems about the module of that name; `StoresProofs` about `Plugins`, `CaptureLibrary` and `MCStores`, `WindowsProofs` about `ScreenRecorder` and `MCWindows` (section 5) |
| `MCStores`, `MCWindows` | several independent modules in one run: `focus` picks the one that moves |
| other `MC...` | the instance TLC checks: symmetry, nothing else |

### PromptService, AgentServer

A request `r` is one `prompt` or `new_chat` message. `phase[r]` is the handler's program counter:
`lookup` (339), `readCwd` (347), `create` (`create_pi_session`), `insertHandle` (519), `register` (366),
`forward` (392), `report` (401), `cleanup` (417), `label` (421), in `ws.rs`. `task[r]` is the spawned
agent task: `waiting` for the session's mutex, `running`, `returned` (the callback and with it the event
sender are dropped) and `ended` (the error is in its channel, the mutex is free). A session handle and an
abort handle are named by the request that created them. `session_handles` is behind a tokio `RwLock`;
its fair queue is `writeQueue`, and a thinking request that keeps the read lock while it waits for a
session's mutex is the state `holding`. The other two maps are locked only for single accesses.

Abstracted: the content of messages, images, the model of a session (it is fixed when the handle is
created and no property mentions it), which events are forwarded, the file written by the label.

`PromptService` knows prompts, sessions, handles and clients that are gone; lookups, creations, `set_project`
and thinking requests are no steps of it. `Stage` and `IfSpawned` in `AgentServer` are the mapping.

A request can name a session only when it is `Disclosed`: the id of a new chat is known from its
`chat_cleared` on, which is sent when the handle is stored (`ws.rs` 278-291).

### SilenceDetector, Dictation, Utterances

A sample is its position in all that was captured, and whether it is loud; a frame is speech when one of
its samples is loud. `Push`, `Flush` and `TakeBuffer` are the functions of `transcription.rs` on a record
of its four fields. `Dictation` keeps the dictation mutex explicit (`held`) because the poll thread holds
it over drain and push; it splits a stop at the points where the code releases that mutex, stops the
recorder and sends the chunk. `alive` says whether the model was loaded. Both toggles run on the main
thread (`audio.rs` 20-24 relies on it), so `main` is one program counter. A step of the worker ends where
it releases the engine.

`Utterances` knows samples, recordings and delivered stretches only. `KeepsPromise` is
`Utterances!Spec` with `spoken` read off `delivered`.

### Minutes, Meeting

Each SQLite call is one action, which succeeds or (`Fails`) changes nothing; `Exists(m)` in
`InsertSegment` and `SetNotes` is the foreign key, and an update of a missing row succeeds, as in SQL.
`main` is the command that has a second step: spawning ffmpeg and inserting the session, deleting the
rows and deleting the file. A crash sends every thread to nothing and keeps the database and `wav`;
`Restart` is the loop of `lib.rs` 588-594 over `Listed`, the newest `ListLimit` sessions. A crash in the
middle of a command between two steps that touch the database is a crash at the one or the other side of
the action.

`Minutes` knows no threads, no database and no crash: a meeting's stage is read off its row, `deleted` when
the row is gone, and its notes are the raw text of the notes row.

### SessionStore, SessionFiles

`fs::write` is two steps: `Open`, which empties the file (the content `TORN`), and `Fill`, which puts
the document where the open file is by then (`handle`), since a rename takes an open file along.
`Create` opens a new file; `Put`, `LoadForLabel` and `LoadForProject` bring or read a document, and
`Check` is the test for the file at the top of `update_session`, whose error the label and `set_project` ignore.
A document is its messages, its metadata (a label and a directory, or none), the period of 30 days in
which it was created, and whether it carries the id that names its file: `set_project` makes up one that
does not (`MadeUp`), also when the file was there and could not be read.
`void` is a history variable: the sessions on which requests have collided (`Collides` says exactly
how) or whose write a crash has hit. `SessionStore` promises nothing about those; for the others
`RequestsAtomic` reads `store` off the two directories, with the document that is being written as the
current one.

### ConfigFiles

A request has a job: to save a whole object, set a key, read, change the models, or complete a login.
`Load` reads; `Proceed` edits and is where a request gives up (an MCP file that does not parse, a model
that is not there); `Truncate` and `Save` are the two halves of a write. Settings that are missing are
first saved as the defaults (`SaveDefaults`). The models' functions read the settings and then set a key,
which reads them again: `peeked` is the first content. Only `auth.json` has a lock, held by `AuthStorage`
over each load and each save and not across `Exchange`. `AuthStorage::save` creates the file before it
takes the lock (`OpenAuth`, the content `BLANK`, which reads as no credentials: `Same` takes it for
`MISSING`) and writes it in place. A save fails before it has emptied the file or after (`FailSave`), a load
when the lock is not to be had (`FailLoad`); where `list_models` swallows the failure, the selection of
a builtin model goes on. `acked` is what the acknowledged changes make of
a file when they are applied one after another; it is not kept once two of them collided (`Overlaps`) or
a write was cut off (`harmed`: a full disk, a crash, a typing error of an editor). That an intact file cannot be read for once
and counts as the defaults (`settings.rs` 54-58) is left out.
No code stores an OAuth state, so a callback that looks one up has nothing to find; logout deletes an
entry of the keychain. Neither is an action.

### Plugins

`extract_manifest_from_wasm` gives every plugin the same manifest, so all installs write one directory
(`TARGET`) and register one plugin (`PLACEHOLDER`); other plugins are put there by hand. An install is
its five awaits; `Uninstall` deletes the directory under the registry's lock, or fails half way. `muddled`
collects the plugins of which the code lets the registry and the directories differ, each at the action
where that happens; `contested`, those whose removal was acknowledged while a second directory had
their id or an install was at their directory, so that they come back.

### CaptureLibrary

A file is what it shows: the capture as taken, annotated, or annotated until no text is left, or an empty
stage, since a stage is rendered and can be exported before the image is on it. `OpenEditor` is
`open_editor_window`: an open window is told to load again, which one that is still mounting does not
hear. The editor sets the id when it asks and the image when it is decoded, draws the stage when an export
begins, and reads and clears the id when the export was awaited. A text can only be blurred away on a picture that is shown. `raced`, `hasty`, `unread`, `stray`, `unremoved` and
`leftOver` are the cases in which the code gives up a promise, and the properties name them: an OCR thread
that reads the draft after the final one, a capture that arrives during the export of another, a deletion
that cannot remove the file, and so on.
Pruning at startup is `Relaunch`; files stay, as in the code.

### ScreenRecorder

The four windows and the commands they call. `Start` spawns the new ffmpeg and then stops the one it
replaces. `OpenPill` may fail while the old pill is closing, which leaves a recording without a pill; the
next start ends it. Both are commands on the main thread, so no other command comes between their parts.
The trim editor takes the path when it mounts; when one is open, `HandOver` only
focuses it and the path waits; when none can be built the pill stays, for a session that is over.
An editor closes in three steps, as the close handler awaits: `CloseTrim` looks at `exportedRef`, `RemoveRaw` is
the answer of `remove()`, which may have failed, and `Destroy` the end of the window. The export goes on
meanwhile: `ExportStep` is what the commands do, `ExportAnswered` what the editor hears of it.
`overlapped` are the recordings started before an earlier one was exported
or deleted, `dropped` those whose editor was not built or closed before it had the path, `hurried` those
whose editor was asked to close during their export, `spared` those whose removal failed.

### ChatClient

A frame is its kind, the prompt and the session it is about. The server takes the frames of a connection
one after another, a prompt for a turn (`new`, `running`, `ended`, `erred`), and may answer a new chat with an
error. A prompt without a session is told its new one first, and `FailTurn` is an agent that cannot be
created afterwards. `Submit` and `Steer` go by the refs `sessionRef` and `processingRef`, which `Render` brings up
to date. The handlers ignore the session of a frame, as in the code, and `chat_cleared` switches the session
without resetting `isProcessing`. `agent_end` makes the chat idle before `prompt_complete`, so a prompt sent
in between loses its mark when the earlier one is completed; `excused` names those, `severed` a chat that
stays busy over a lost connection, `strayed` a session switched while a prompt to another was open, or a submit
that went by the ref of before the switch. `changeProjectDir` is `NewChat`. A steer is sent by `Steer`, and dropped
by `TakeFrame`, which reads a connection only when no turn is running.

## 3. Runs

| Run | Instance | Checks | Result |
|---|---|---|---|
| `AgentMaps` | 2 connections, 2 requests, 2 sessions, 1 set_project, 2 directories, no events; symmetry in connections, requests, sessions | `TypeOK`, `AbortEntryLive`, `HandleOfOwnSession`, `BoundaryCurrent`, `LoneStopReaches`, `StopIsPrecise` | holds (1.8 M states) |
| `AgentRuns` | 1 connection, 2 requests, 1 session, 1 set_project, 1 thinking request, 1 event each; fair | `PromptsServed`, `EveryRequestFinishes` | holds (183 k states) |
| `Stores` | 2 server threads; sessions: 1, four requests, a month, a crash; files: 3 requests, 2 models, 2 MCP servers, 2 logins, 1 fault; plugins: 2 installs, 2 ids, 2 directories, a crash; captures: 2, 2 exports, 1 end of the app; symmetry in threads and captures | `SessionNeverVanishes`, `OnePlace`, `RequestsAtomic`; `ChangesAtomic`, `NoSilentReset`, `LoginAccounted`; `RegistryIsDisk`, `UninstalledStaysGone`; `LibraryConsistent`, `IndexCurrent`, `FileIsOwn`; `StoresTypeOK` | holds (2.5 M states) |
| `Windows` | 2 screen recordings; a chat with 2 sessions, 2 submits, 1 further request, 1 lost connection; fair | `NoRunawayRecording`, `StoppedReachesEditor`; `BusyMatchesTurn`, `AnswersInOwnChat`, `BusySettles`; `WindowsTypeOK` | holds (546 k states) |
| `Dictation` | 2 recordings, 6 samples, frames of 2, 1 silent frame ends an utterance, cut at 5, channel of 1; fair | seven properties | holds (141 k states) |
| `Meeting` | 2 meetings of 1 piece, 1 summary request, 1 failing call, 1 crash, a list of 1; fair | seven properties | holds (594 k states) |
| `AgentStopLost` | 2 connections, 2 requests, 1 session | `StopCanCancel` | violated |
| `AgentErrorLost` | 1 connection, 1 request | `ErrorSurfaced` | violated |
| `AgentStaleBoundary` | 1 connection, 2 requests, 1 set_project | `ProjectTakesEffect` | violated |
| `MeetingSummaryLost` | as `Meeting` | `SummaryStored` | violated |
| `CaptureTextLeft` | 1 capture, 1 export | `TextlessIsEmpty` | violated |
| `SessionReplaced` | 1 session, 2 server threads, 4 requests | `NewOnlyIfMissing` | violated |

**Why the bounds are enough.** The hazards of the maps need two prompts of one session from two
connections, or one prompt and one set_project; a second session is there so that a mix-up of sessions
can show. Events only matter to the end of the stream, for which one queued event is enough.
A collision on a file needs two requests at a time; four on a session are a creation, two that collide and
one that finds what they left. Sessions do not influence each other, so one is enough; nor do the stores
among them, so `Stores` lets one of them move (`focus`), the configuration files each by itself, instead
of multiplying their states. Two captures are one that arrives while the other is exported; two
recordings are one in the trim editor and one that is started, replaces it or is handed over meanwhile, and
the commands compare a recording with one other only. Two submits are one
sent between `agent_end` and `prompt_complete` of the other, and two sessions the one shown and another
switched to (three find nothing else). Six samples
hold an utterance, the frame of silence that ends it, a remainder and the start of a second recording; a
buffer of 5 is reached by one late poll, and a channel of 1 is full after one chunk. Two meetings are one
that is being recorded while the other is transcribed, deleted or recovered; a list of one makes startup
miss a session, which 200 does in principle.

**Deadlock** is checked in the runs of `AgentServer`, `Dictation` and `Meeting`. In the stores and the
windows nothing waits for a lock that could stay taken but `auth.json`'s, and once the bounded requests are
served nothing has to happen; their runs do not check it.

**The mutants** named in `PROJECT.json` are plausible bugs of the mapped code (an early return that skips
the cleanup, a mutex not held between drain and push, a foreign key that is off, a rename that copies); each
breaks the property it is listed with.

**Fairness.** `AgentServer`: tokio polls what is ready (weak fairness of handlers and HTTP steps), its
locks are fair queues (strong fairness of the steps that wait for a session's mutex), and a provider
request ends. Clients owe nothing. `Dictation`: every thread keeps running; a meeting gives the engine back
after each piece of audio and asks for finitely many, so the worker gets it (strong fairness of
`Transcribe`); nobody has to stop a recording. `Meeting`: commands and transcription threads go on; the
user, the LLM and the relaunch after a crash owe nothing, so the liveness property excepts an application
that stays down. `ScreenRecorder`: a window goes on by itself when it is mounted or answered (one weak
fairness for each: `OpenPill` the panel, `PillStep` the pill, `TrimMounted` the editor), and no one
has to press a button or close the editor. `ChatClient`: one weak fairness for the socket (`SocketStep`:
the reconnecting timer never gives up, a message is delivered or its socket closes) and one for the server
(`ServerStep`: it takes the next frame when no turn runs, and a turn ends); users
owe nothing, and no answer to a stop or a load has to come. The stores promise no liveness.

## 4. Where code and comments disagree

The six violation runs are findings; `PROJECT.json` has the lines they quote and what each trace shows.

- `AgentStopLost`: a running prompt whose abort handle another prompt has removed.
- `AgentErrorLost`: an agent error that is looked for before it was sent.
- `AgentStaleBoundary`: a prompt that creates its session with the directory of before the last `POST /api/project`.
- `MeetingSummaryLost`: a summary announced and stored nowhere.
- `CaptureTextLeft`: a capture that is still found by the text that was blurred before it was saved.
- `SessionReplaced`: a session file that is being written, taken for a missing one and replaced.

Other comments that the code does not keep are exceptions of the properties: the retry of a summary that could
not be stored sets the user's notes to NULL instead of only creating a row (`meeting.rs` 328; `nulled`); a
typing error in `settings.json` turns into the defaults at the next change, though editors "are always
respected" (`settings.rs` 5; `harmed`), and the defaults are created over settings saved meanwhile (`settings.rs` 37;
`collided`); `auth.json` is emptied and written in place, which a failure tells from the "atomic write" of
`auth.rs` 265 (`harmed`); an export finalizes the capture that came last with the picture that was on the stage
(`EditorWindow.tsx` 109; `hasty`); the path handed to an open trim editor stays in its slot (`recorder.rs` 430;
`overlapped`); a steer meant for "mid-turn" (`ws.rs` 9) is read and dropped after the turn; and a stop that finds
nothing left hides the overlay "shown while Whisper is running" (`lib.rs` 447) over a chunk that the poll thread
has queued, so `OverlayGoes` says only that the overlay ends.

The exceptions in the properties (`left_behind`, `nulled`, `void`, `collided`, `harmed`, `muddled`, `contested`,
`raced`, `hasty`, `unread`, `stray`, `unremoved`, `leftOver`, `pruned`, `excused`, `severed`, `strayed`,
`overlapped`, `dropped`, `hurried`, `spared`) are what the code does not promise, each
defined at the step that gives the promise up. A property with an exception checks that nothing else goes
wrong; it does not show the excepted case, and the `note` of the hazard in `PROJECT.json` says so. Where no comment
promises the excepted case it is a hazard and no finding.

## 5. Proofs

`AgentServerProofs` proves, for any connections, requests, sessions, directories and bound on events
under `AgentAssumption`:

| Theorem | Property |
|---|---|
| `TypeCorrect` | `TypeOK` |
| `AbortEntriesLive` | `AbortEntryLive` |
| `HandlesOfOwnSession` | `HandleOfOwnSession` |
| `BoundaryIsCurrent` | `BoundaryCurrent` |
| `CompletionDrained` | `CompleteMeansDrained`, which `PromptsServed` says in its `Complete` |
| `StopsArePrecise` | `StopIsPrecise` |
| `LoneStopsReach` | `LoneStopReaches` |
| `PromptsAreServed` | `PromptsServed`, the refinement of `PromptService` |
| `QueueIsWriters` | who waits for the write lock on `session_handles` is in its queue, once |
| `NobodyStuck` | in every reachable state nothing is in flight, or some of it can go on |

The argument is one inductive invariant `Inv`: the type invariant with two facts about single requests
(`Typed`: a received request names a connection and a session, a channel holds only emitted events), the
properties, and what the handlers know between two awaits. `Published` says that every handle in a map or
in use was stored by a request of the same session; `HandleOfOwnSession` follows from it.
`BoundaryCurrent` is not inductive: it needs the same statement about handles still being created
(`CreationCurrent`), since the directory is read long before the handle is stored. `CompleteMeansDrained`
needs `DrainedAfterLoop`, which says what is true after the forwarding loop and before `prompt_complete`.
`TypedNext`, `AbortEntryNext`, `PublishedNext`, `CurrentNext` and `DrainedNext` show that every action
preserves one part each; `StopNext` is the step lemma of the action property `StopIsPrecise`.

`LoneStopReaches` is what remains of the comment that `AgentStopLost` refutes: the entry is the prompt's
own if no other connection has prompted the session. It rests on `OneAtATime` (a connection handles one
message at a time) and on `Reachable`, which says so of every registered prompt, running or not. `Steady`
keeps the condition from becoming true later: a spawned task stays with its session and connection.

`PromptsServed` is the whole of it as a client sees it. `Service` reads a prompt's stage off its handler and
task, and its session and handle from when it is spawned. Every step of the server is a step of
`PromptService` (`ServiceNext`): `RegisterAbort` opens a prompt, `LockHandle` begins it, `Report` completes
it, `RemoveAbort` closes it, and looking up, creating and dropping handles, `set_project` and thinking
requests are `Unseen`. A begin needs the mutex, a completion `DrainedAfterLoop`, a stop `AbortEntryLive`, and
that a handle serves one session needs `Published`. The service does not promise that a stop reaches the
prompt its user sees: closing a prompt removes the session's entry, whosever it is.

`NobodyStuck` is freedom from deadlock without fairness. Its conclusion, `SomebodyGoesOn`, repeats the
guards of the handlers, tasks and HTTP requests in flight, because the provers know nothing of `ENABLED`.
A receive, a disconnect or a stop does not count as going on. By `QueueIsWriters` the head of the queue
is one that waits there; it enters when the thinking requests have left, these leave when the mutex is free,
and whoever holds that waits for nobody. `EveryRequestFinishes`, which needs fairness, stays with TLC.

`MeetingProofs` proves, for any sessions, summary requests, texts and bounds on chunks, failing calls and
crashes under `MeetingAssumption` (`NULL` is no session, no text and no row; the bounds are naturals):

| Theorem | Property |
|---|---|
| `TypeCorrect` | `TypeOK` |
| `NoOrphans` | `NoOrphanRows` |
| `StatusesOwned` | `StatusOwned` |
| `AudioIsSafe` | `AudioSafe` |
| `NotesDoSurvive` | `NotesSurvive` |
| `SettledDoesStay` | `SettledStays`, which follows from the next |
| `MinutesAreKept` | `MinutesKept`, the refinement of `Minutes` |

None of the properties is inductive alone. `FreshUntilCreated` says that nothing refers to an id
before its session is inserted (without it the inserted session could inherit a removed file or old
notes); `Inserted`, that a session whose rows are deleted does not exist when its file goes; `Working`,
that a thread's session is in processing or deleted and the active one in recording (so that closing a
transcription never overwrites a settled status); `PiecesCounted`, that a meeting is transcribed at most
once and gives at most one segment per piece. `OwnedNext` proves the links between the parts, and one
lemma per property the rest; `RestartKeeps` is what every proof needs of a startup.

`Minutes` has what a user knows of a meeting: its stage, transcript, recording and notes. `PromiseNext` maps
`CreateSession`, `StopMeeting`, `Transcribe`, `Close` and `Restart` to `Begin`, `End`, `Add`, `Finish` and
`Recover`, both removals of the file to `Discard`, the retry of a summary to `Forget`, and everything else
to a stutter, a crash too. A thread that outlives its session adds nothing (the foreign key) and discards
only its recording; that there was such a session is `UnderHand`.

`DictationProofs`, under `DetectorAssumption` and `DictationAssumption`, for any number of samples and
recordings and any channel, frame, silence, speech and chunk length:

| Theorem | Property |
|---|---|
| `DictationTypes` | `TypeOK` |
| `StopsTakeEverything` | `StopTakesEverything` |
| `NoSampleDropsOut` | `NothingDropsOut` |
| `CountersDoMatch` | `CountersMatchBuffer` |
| `DictationKeepsPromise` | `KeepsPromise`, the refinement of `Utterances` |
| `ThreadsNotStuck` | with a toggle, a push or a chunk under way a thread can go on, or a meeting has the engine |
| `OverlayNotLeft` | the overlay is hidden when nothing is under way and nobody records |

`push` analyses its frames in a recursive function. `Induction`, from the least element of a set of
numbers, shows that the recursion defines a function (`LoopRuns`) and that n rounds analyse n frames more
(`LoopAnalyses`); so `PushResult`: it returns all it has and starts anew, or it keeps all and its counters
match. `Threads` says where the threads are when there are samples in hand: the mutex keeps a stop out
between drain and push, and the microphone is off, with everything settled, before the next start. `Order`
adds the chunks on their way (channel, worker, a stop's last chunk): each is a stretch of what is settled,
and they are in the order of their samples behind everything delivered. `Recent` makes a new chunk a
stretch: what is unsettled was heard in the last recording.

`ThreadsNotStuck` and `OverlayNotLeft` are what `StopReturns` and `OverlayGoes` need besides fairness:
nobody waits in a circle, and what comes to rest has hidden the overlay. They rest on `Attended`: only a
live worker is given chunks, and a visible overlay has somebody under way who will hide it.

`SessionFilesProofs`, under `SessionAssumption`:

| Theorem | Property |
|---|---|
| `SessionTypes` | `SessionTypeOK` |
| `NeverVanishes` | `SessionNeverVanishes` |
| `StaysInOnePlace` | `OnePlace` |
| `FilesImplementStore` | `RequestsAtomic`, the refinement of `SessionStore` |

`RequestsSound` says that an open file is where its handle says; without it a `Fill` could bring a file
back. `Unborn`, that no one touches a session before its creation is acknowledged; `Plans`, that what is
about to be written is what the client sent or what was read, with a label or a directory; `Sound`, that a
session on which nothing collided has one writer and a good document under it. For the refinement every
step is a step of `SessionStore` or a stutter: `OpenRefines` is where a request takes effect, as the
document being written is the current one, `FillRefines` where a creation does, `RenameRefines`,
`RemoveRefines` and `CrashRefines` are the others, and `QuietStep` covers the steps that leave the
directories alone.

`ConfigFilesProofs`, under `ConfigAssumption` and `ContentAssumption` (the markers are no objects):

| Theorem | Property |
|---|---|
| `ConfigTypes` | `ConfigTypeOK` |
| `ChangesAreAtomic` | `ChangesAtomic` |
| `NothingSilentlyReset` | `NoSilentReset` |
| `LoginsAccounted` | `LoginAccounted` |

`ChangesAtomic` follows from `OneWriter`: until a collision the one writer of a file edits what the
acknowledged changes have made of it, and `EditsSound` says that its result is that content with its
change. `Held` and `TornHidden` say that the lock of the credentials covers every write, so
that a request finds them torn only after a cut-off write (`TornRead`). An `auth.json` that was created and not
yet written reads as none, so for `Same` nothing has changed (`SameReads`). `Exchanged` links the codes that
were spent to the requests and the file.

`StoresProofs` (`PluginAssumption`, `CaptureAssumption`) and `WindowsProofs` (`RecorderAssumption`):

| Theorem | Property |
|---|---|
| `PluginTypes`, `RegistryFollowsDisk`, `RemovalHolds` | `PluginTypeOK`, `RegistryIsDisk`, `UninstalledStaysGone` |
| `RecorderTypes`, `NothingRunsAway` | `RecorderTypeOK`, `NoRunawayRecording` |
| `CaptureTypes`, `LibraryHolds`, `PicturesAreOwn`, `SearchFindsWhatIsShown` | `CaptureTypeOK`, `LibraryConsistent`, `FileIsOwn`, `IndexCurrent` |
| `StoresApart` | `SessionSpec`, `ConfigSpec`, `PluginSpec` and `CaptureSpec`, from `StoresSpec` |
| `StoresTypes`, `WindowsTypes` | `StoresTypeOK`, `WindowsTypeOK` |

For the plugins the invariant follows an install: its manifest is there when it registers (`ManifestWritten`), and
an unregistered plugin with a directory is one that an install is about to register (`Agree`). `RemovalHolds` leaves out the
contested removals, which do come back. For the recorder, `InHand` says that only recordings that were made
are handed on, once each; `Overtaken`, that an export during which its editor was asked to close is known to
be hurried; `Kept`, that the file of the recording in the editor is there until the editor leaves. For
captures, `OnceInHand` says that an id reaches the editor once and with its own image, `Unhurried` what the
editor holds for a capture that did not come in haste, and `Threads` that a running OCR thread brings what
the file shows. `StoresStep` and `WindowsStep` show that each step of the runs' modules is a step of
one component and leaves the others alone, so the runs explore nothing that the components forbid, and
every theorem about a component holds side by side.

`ChatClientProofs`, under `ChatAssumption`:

| Theorem | Property |
|---|---|
| `ClientTypes` | `ClientTypeOK` |
| `BusyMatches` | `BusyMatchesTurn` |
| `OwnChat` | `AnswersInOwnChat` |

Both properties are about what the frames still on their way will do. `WaitingOpen`, `WaitingOnce`,
`AnswersTaken`, `CompletedOver` and `CompletedLast` order what is sent and told of a prompt: it waits once,
then runs, and is not spoken of after its completion. `OneOpen` says that at most one prompt is open of
which nothing was heard and which is not excused, so a completion that makes the chat idle is its own.
`OwnStarts` and `OwnPrompts` say that, up to the next `chat_cleared` on its way, everything under way is of
the session shown. The lemmas before them say what `Append`, `Tail` and a prefix do to such statements.

Only model-checked: liveness under fairness, and the violations. The assumptions on constants are
evaluated by TLC in the runs of `MCAgentServer`, `MCDictation`, `MCMeeting`, `MCStores` and `MCWindows`.

## 6. Plan

1. Done: `AgentServer`, `Meeting`, `SilenceDetector`, `Dictation`, `Utterances`; the stores
   (`SessionFiles`, `ConfigFiles`, `Plugins`, `CaptureLibrary`) and the windows (`ScreenRecorder`,
   `ChatClient`); the proofs of all of them; `PromptService`, `SessionStore`, `Utterances` and
   `Minutes` implemented.
2. Left: `ChatClient` composed with `AgentServer` instead of its abstract server; an abstract
   specification of the capture library.
