# A TLA+ model of Vona

Vona (`src/crates/`) is a Rust workspace for voice sessions: a core that drives
a speech-to-speech backend over an audio transport, with tools under a policy
and an audit log, and a set of adapters to models and services. This directory
holds TLA+ modules translated from that code, TLC configurations that check
them on small instances, and TLAPS proofs of what matters most for every
instance. `PROJECT.json` names, for every definition, the source lines it
stands for.

Paths below are relative to `src/crates/`.

## 1. Inventory

### Parts that keep state

| Part | Code | State | Operations | What must be right |
|---|---|---|---|---|
| Session driver | `vona-core/src/session.rs` | metrics, the step in progress, why it closed | `run_session`: receive, `step`, send, `clear_output`, handle control events, inject, `end_session` | barge-in, audit and metrics agree, the backend is ended once, a hung tool does not stop the session |
| Runtime | `vona-core/src/runtime.rs` | none between calls; a budget around each tool call | `handle_control_event`, `handle_control_event_audited` | a decision for every event in bounded time, the log says what happened |
| Skill registry, audit | `vona-core/src/skills.rs` | the audit log | `execute_audited`: lookup, schema gate, attempt, run, result | no skill runs unaudited, results follow their attempts |
| Local IPC transport | `vona-transport-local/src/lib.rs` | one stream in a mutex, shared by clones | `step`: lock, connect, write, read | a response goes to the call that asked, after any failure |
| Remote Seamless backend | `vona-seamless/src/{remote,http}.rs` | pending context events of a session | `inject_event`, `step` with a time-out, `end_session` | an event is neither lost silently nor applied twice |
| Local Seamless backend | `vona-seamless/src/{local,onnx_runtime}.rs` | pending events; a locked ONNX session | the same, behind the sidecar | as above |
| Sidecar | `vona-sidecar/src/main.rs` | a map from `session_id` to backend state; the socket file, a listener, tasks of connections | `process_step_request` over HTTP and over a Unix socket; start, bind, shutdown | a state is in one place; a process is reached while it listens, ends when told to, and leaves no file |
| Provisioning | `vona-model-provisioning/src/lib.rs` | files of a cache, temporary files | `provision_missing`: inspect, verify, download, rename | a path shows only whole, verified files; Ok means ready |
| MLX transcription | `vona-mlx/src/lib.rs` | a bounded buffer, a decode task, recent hypotheses, a committed prefix | `push_audio`, `finish`, decode in the background | speech goes on being decoded, shown text is not taken back, the final update is of the whole buffer |
| MLX one-shot backend | `vona-mlx/src/lib.rs`, with Whisper and Qwen3 TTS | pending events; loaded models | `with_loader`, `inject_event`, `step`: transcribe, then synthesise | the transcript keeps what was heard, the text is spoken as it is, an event is used once |
| Moshi backend | `vona-moshi/src/backend.rs` | a WebSocket, two tasks, a pipe, two channels, PCM not yet encoded | `start_session`, `step`, `end_session` | nothing is dropped or reordered by back-pressure, nobody waits for ever |
| Ollama engine | `vona-ollama/src/lib.rs` | a prompt and a receiver; one task and channel per generation | text, start, close, receive; `generate_text` | a reply is heard in order and once whatever its chunks, an abandoned task ends |
| Passthrough | `vona-core/src/backends/passthrough.rs` | a sequence number | `step` | nothing that could fail |

### Parts that keep none

Provider mappings (`vona-openai-realtime`, `vona-gemini-live`, `vona-qwen`) and
hosted adapters (`vona-azure-speech`, `vona-deepgram`, `vona-elevenlabs`)
translate between realtime events and the messages of a service. They keep no
state, but the conversation they translate has some: what the application has
put in and not committed, and what the service makes of it. The Whisper decoder
(`vona-mlx-whisper`), Qwen3 TTS with its vocoder (`vona-mlx-qwen3-tts`) and the
loader (`vona-mlx-speech`) are loops around tensor arithmetic, with state only
for the time of a call. `vona-test-harness` scripts transports and backends for
tests; `vona` re-exports.

### How they interact

`run_session` owns the loop and calls everything else: the transport and the
backend through traits, the runtime for each control event a step returns, and
the runtime calls the skill registry, which awaits the audit sink. A backend
may be remote: then `step` is an HTTP request, or a frame over the local
transport, that the sidecar answers with a backend of its own. An application
that talks to a hosted service calls a mapping for each event it sends and each
it receives. Sessions share
the runtime and the registry only by immutable reference, so one session is
modelled; what sessions do share (the local stream, the sidecar's map, the
model cache) is modelled with several actors.

### What is hard

- **Futures that are dropped.** The budget drops a tool call, and an HTTP server
  drops a handler, at whichever await it is suspended.
- **Streams without identifiers**, where order alone says which answer is whose.
- **State that leaves a map** for the time of an await.
- **Tasks beside the caller**, with bounded channels between them.
- **Files shared** by tasks and processes that may crash between two steps.
- **Results that are older** than the data they are applied to.
- **A path in the file system** that processes remove, bind and clean up without
  asking whose it is.
- **Two conversions that do not invert each other**, applied again and again.
- **Lengths inferred from weights**, which only fit together if every
  convolution pads and trims on the side the others assume.

`PROJECT.json` lists these per line under "hazards", with the properties that
would notice, or why none does.

## 2. Modules

| Module | Models | Uses |
|---|---|---|
| `Runtime` | one call of `handle_control_event` with its registry and audit sink | |
| `Session` | `run_session`, and an application that calls the runtime when it is over | extends `Runtime`; refines `BackendContract` |
| `BackendContract` | what a driver promises a backend (abstract) | |
| `LocalIpc` | clones of the local transport and the sidecar's connection tasks | |
| `SidecarSocket` | the sidecar's listener and socket file, over processes that start, stop and crash, under those clients | extends `LocalIpc` |
| `Sidecar` | remote clients and the sidecar's HTTP handlers | |
| `Provisioning` | callers of `provision_missing` on one file system | |
| `StreamingStt` | the streaming transcription session and its decode task | |
| `Moshi` | the caller, receiver and decoder of a Moshi session, and the server | |
| `Ollama` | generations, their tasks and the holder of the receiver | |
| `SpeechModels` | what a directory must hold for a speech model to load, and what provisioning puts there | |
| `Whisper` | a transcription: greedy decode and clean-up | |
| `Vocoder` | from codec frames to a waveform: which frames each position depends on | |
| `Qwen3Tts` | a synthesis: layout of the text, frame loop, vocoder | extends `Vocoder` |
| `MlxTurn` | the one-shot MLX backend: load, inject, step | extends `Whisper`, `Qwen3Tts`, `SpeechModels` |
| `Pcm16` | samples to 16-bit PCM and back | |
| `ProviderEvents` | the mappings of six services, as functions | extends `Pcm16` |
| `Realtime` | an application and a service that converse through a mapping | extends `ProviderEvents` |
| `SessionProofs` | theorems about a session | extends `Session` |
| `SidecarSocketProofs` | theorems about the local stream and the processes behind it | extends `SidecarSocket`, and so `LocalIpc` |
| `SidecarProofs` | theorems about the sidecar's sessions | extends `Sidecar` |
| `ProvisioningProofs` | theorems about provisioning | extends `Provisioning` |
| `RealtimeProofs` | theorems about the conversions and the conversation | extends `Realtime` |
| `MlxProofs` | theorems about the MLX engine, one-shot and streaming | extends `MlxTurn`, `StreamingStt` |
| `ChannelProofs` | theorems about the two engines with bounded channels | extends `Moshi`, `Ollama` |
| `FiniteInduction` | induction and recursion on the numbers up to a bound, two folds, flattening | used by `ProvisioningProofs`, `MlxProofs`, `ChannelProofs` |
| `MCMlxAudio` | both uses of the MLX engine in one run, one while the other has not begun | extends `MCMlxTurn`, `MCStreamingStt` |
| `MC*` | values of constants for TLC | extend their module |

Conventions. A value of `pc`, `at`, `caller`, `call` or `task` is an await of
the code; one action is what the code does from there to the next await. Errors
are alternatives of the action that may meet them. Variables named as history
are read by properties only and guard nothing. An operator under a comment
that begins with *Mutant* is a plausible mistake in the definition after it. No
specification uses it; put in that definition's place it makes a checked
property fail, and `PROJECT.json` says which.

### Runtime

`call` is where `execute_audited` is suspended: on the sink (`violation`,
`attempt`, `succeeded`, `failed`), in the skill (`running`), or after the
time-out (`timedout`, only through the audited entry). `ToolTimeout` drops the
future at any of the budgeted ones; the record it was waiting for may or may
not have reached the sink. Policies, schemas and arguments are choices among
the answers they can lead to. A call happens inside a session, or in `UseRuntime`:
the two entries are public, and an application may hand them events of its own.

### Session

`pc` is the await of `run_session`. A step is one of `StepOutputs`: its frames
(`voiced`, or `silent` without samples), its control events, and whether it
finished. The frames of a step are sent first, then its events are handled in
order; an interruption is counted and clears the output before the policy sees
it. All five exits go through `Close`. The session calls
`handle_control_event`, never the audited variant, as the code does. When no
session runs (`pc` is `refused` or `done`), `UseRuntime` calls either entry, up to
`MaxAudit` records.

`BackendContract` says what a backend may rely on: calls in the order start,
steps and injections, end; ended once; nothing after a failure but the end; at
most one injection per control event of the latest step. `Session` implements it
with `Phase` (from `pc`, `close`, `progress`) and `Credits` (events of the step
not yet answered).

### LocalIpc

`guard` holds the mutex, `stream` the connection in the `Option`, `sent` and
`replies` what is on the wire. Any error after the connection is there drops it
(`Fail`), a refused connection has nothing to drop. The sidecar's task reads,
processes and replies per connection; it may fail to write, and the process may
exit, which ends any of its tasks (`EndTasks`). Dropping the future of `step`
between its write and its read is left out:
`run_session` awaits each step to its end (`session.rs:142`). A caller that did
drop it would leave a response in the stream for the next caller.

### SidecarSocket

`main` binds the HTTP address, then spawns the task that prepares the directory,
removes the file at the path, binds, makes `UnixSocketCleanupGuard` and listens.
`life` is where each process, or that task, is; `path` is who has bound the file
that is there now, or `None`. A client connects to whoever that is, if it still
listens. When the listener ends, by the watch channel or because `accept` fails,
its backlog is cut off, then the guard removes the file at the path, *whoever
has bound it*. The tasks of connections are joined by nothing: they go on until
`main` returns. A restarted process is another member of `Sidecars`. Two
processes overlap when the second starts before the first is gone, which the
HTTP address prevents only until the first has stopped listening there.

The clients and the tasks of connections take the steps of `LocalIpc`, some of
them only while a process lives or listens. What is proved of `LocalIpc` holds
here with it.

### Sidecar

Handlers are suspended before the lookup, before the ONNX session and before
the state is put back, and can be dropped there when their client gives up.
The state of a session is named after the request that made it, so that a
fresh one can be told from one that survived. The local backend never reports
`finished` (`local.rs:221`), so a state leaves the map for good only with an
error. A stored state carries no events, since `step` has taken those that were
injected before. An event has one of three `Kinds`; of several of a kind the last
counts (`LastOf`), and a reply to speak without audio input is rejected together
with the state (`Rejected`), which `ContextOnlyAccepted` shows against the docs. Two requests of one session that overlap get a
state each, since the first has taken the state out of the map: a state is never
in two places, but a session may have two states. Client and server agree that
this is only after a time-out, when the session is over for the client.

### Provisioning

Files and paths are apart, as the kernel has them: `artifact` and `temp` map
paths to files, a rename moves a file that others may have open, and `Create`
truncates one that is there. A process exit leaves its files. The temporary
name has the process id (`Process[c]`) but nothing of the task. A file that is
there may fail to be read; it is removed then (`Discard`), as one that does not
match is, and the call returns the error. The removal may fail too, and its error
is ignored (`RemoveFile`). So a call that ends in an error may take away what an
earlier one returned Ok for. `standing` is the history `OkMeansReady` needs to say
so: the callers whose latest call no other overlapped, and after which none has
failed to read a file.

### StreamingStt

Time is counted in samples. A decode (`pendingDecode`) records which samples it
was started on; it ends at any time with any of `Texts`, or an error. `Agree` is
`longest_common_word_prefix`, which ignores case; `Continues` is
`str::starts_with`, which does not, and which a longer word satisfies (`Opens`).

The definitions of `StreamingStt` and `Ollama` that every specification has are
named after them (`SttSpec`, `OllamaSpec`), because each shares a module of
theorems with another.

### Moshi

Three tasks. The caller's `step` cuts its input into Opus frames and sends
them, then takes what is in both channels without waiting. `recv_task` writes
audio into a pipe and sends text into its channel, waiting for room; `decode_task`
turns packets into samples and sends them. Messages of the server are numbered
by the order they arrive in.

### Ollama

A line of the HTTP body arrives in three pieces, so that a chunk may end inside
a line, or inside a character of it. The tasks of old generations go on beside
the new one; sending to a receiver that was dropped is ignored. `api` chooses
between the realtime session and `generate_text`, which share the loop and
differ in what a line says. Each chunk is decoded by itself, so that a character
split by one is lost (`garbled`). What a line says as it was decoded (`Says`) is
kept apart from what Ollama said in it (`Meaning`), which is of the body and not
of its chunks.

### Pcm16, ProviderEvents, Realtime

`Pcm16` is the one conversion all the mappings share: below zero samples are
scaled by 32768, above by 32767, and both are read back by 32768. Samples are
integers, in units of 1/`Resolution` of a step.

`ProviderEvents` has, for each service, the event an input becomes
(`ToClientEvent`, or `Unsupported`) and what an event of the service is heard as
(`ToOutput`). `Realtime` puts the two ends beside them. The application gives any
input the mapping takes, and may send on the audio it has just heard. The service
is external: its input buffer, its turns and its answers are what the code and
the docs of the mappings assume of it (`Effects` is one line per kind of event).
`meant` is history: the turns as the application meant them. A `ClearOutput` takes
nothing from a turn there; it is kept among its inputs, since `TurnsAsMeant` says
nothing of a turn into which one has fallen. `Ends` are all the ends a service
tells of, `HeardEnds` those of them that a mapping makes an output of: the ends of
a turn, a generation or an interruption at Gemini Live, the final transcripts of
Deepgram and Azure and the done events of OpenAI's texts are sent and not heard.

### SpeechModels, Whisper, Qwen3Tts, Vocoder, MlxTurn

One step of the one-shot backend is a transcription, then a synthesis. The
networks are oracles: Whisper may rank any token first, Qwen3 TTS may end the
speech at any frame where that is allowed, and either may fail at any call. A
token decodes to a *piece*, a word and the mark behind it, so that the clean-up
(`Sentences`, `CollapseRepeatedWordRuns`) works on words; `Begins` says which word
is a prefix of which, for the comparison by characters. A codec frame is only
counted; what matters is the text laid beside it (`fed`). `SpeechModels` has a
directory as a record of its files and their states; the two manifests are those
of `vona-model-provisioning`. A loader yields only one of the two models, and
pairing them behind one `MlxSpeechModel` is up to the application: `Load` takes
any pair, each of which may be absent.

`Vocoder` computes, instead of samples, the set of codec frames each position of
a tensor depends on, through the same padding, trimming and strides as the code.
A net is what the weights hold; that an index may be missing is part of it. A
vocoder may be absent, and a synthesis then has codes and no audio.

## 3. Runs

| Run | Actors and bounds | Shows |
|---|---|---|
| `session` | 2 frames, steps of up to 2 frames and 2 events, 3 audit records in calls of the application | no audio from before a clear is heard after it; the metrics of a session count what happened, interruptions and tool calls among it; a result follows its attempt and a skill runs only with its attempt in the log; an audited fallback for a time-out has its record; the contract is kept; each frame is dealt with though a skill hangs |
| `sidecar_socket` | 2 clones with a call each, 2 connections, 2 sidecar processes | own responses only; no request processed twice; a stream kept is clean; a process that never overlaps another is reachable; no file is left but by a crash; calls return; a shutdown ends |
| `sidecar` | 2 sessions (symmetric), 3 requests, 2 events of 3 kinds, restarts at any time | a state is in one place; events applied once and never lost silently, a transcript heard where the answer was Ok; states survive undisturbed sessions |
| `provisioning` | 2 processes, 2 artifacts of 2 chunks, 2 calls each, 2 new files | published files are whole and verified; Ok means ready, until a call fails to read a file |
| `realtime` | 6 services, PCM of 3 bits, samples in half steps at silence and beyond full scale, 2 items of uncommitted input, 1 event under way | the service takes the turns the application meant, but those with a `ClearOutput`; what it says is heard, and so are the ends of OpenAI's responses and of what Qwen ends; no text ends the stream; audio that is sent on keeps its level |
| `moshi` | frames of 2 samples, channels and pipe of capacity 1, 3 messages, 4 samples | messages of the server are kept in order; input is encoded in whole frames; steps end; text surfaces |
| `ollama` | 2 generations, capacity 1, bodies of 2 or 3 lines | replies as Ollama said them, in order and once, but for a character that a chunk splits; a caller that receives comes to the end; abandoned tasks end |
| `mlx_audio` | one-shot: 2 steps, 2 injected events of 4 kinds, 2 words and 1 mark, 4 tokens, 3 frames, 48 directories, vocoders with an odd kernel or a block missing; streaming: a buffer of 4, frames of 1 and 3 samples, 9 samples, 5 transcripts | a transcript keeps what was decoded; the text is spoken once, in order; a waveform is as long as its frames and no sample depends on a later frame; an injected event is taken once and the oldest is spoken; a provisioned pair of models never fails for want of a file; decodes go on after audio is dropped; a final update is of the whole buffer; shown text is extended, not replaced, within a committed prefix |

Four runs show a disagreement between the code and what the repository says of
it:

| Run | Disagreement |
|---|---|
| `session_timeout_audit` | a comment says the audit of a time-out has already happened; no path of `run_session` records it (`session.rs:202`) |
| `sidecar_context_only` | a doc says a step with a reply and no audio should be accepted; the local backend returns an error, and the session's state is gone (`local.rs:200`, `docs/architecture.md:121`) |
| `provisioning_shared` | two tasks of one process write one temporary file: an artifact is published truncated, and Ok returned (`lib.rs:212`) |
| `streaming_stt_final` | `finish` during a decode of the whole buffer returns a prefix of its transcript as the final update (`lib.rs:511`) |

Each specification has a type invariant: `TypeOK`, or `SocketTypeOK`, `SttTypeOK`
and `OllamaTypeOK`. The run `session` checks its own; all of them are proved.

### Why the bounds are enough

- *session*: a call adds at most two records and one more for its time-out, so
  with three a dropped call may be followed by another. Two frames give a step
  before and one after a clear; two events give an
  interruption on either side of a tool call.
- *sidecar_socket*: the stream has one holder, so a second caller is enough to
  receive what the first has left, and a second connection to follow a failure.
  Two processes give one that removes the file of the other, before and after
  the other's guard, one that crashes and is replaced, and one that starts while
  the other shuts down.
- *sidecar*: three requests give a retry that overlaps the first of a session
  while the other session is served; two events of a kind give an override that
  replaces another. The symmetry of the sessions is sound: no property of the
  run is temporal.
- *provisioning*: two artifacts give a failure after one was renamed; two files
  give one to each process; two chunks a half-written file.
- *realtime*: with one event under way the service may always be behind the
  application. Two items give a turn of two and a clear or commit between them.
  A sample beyond full scale on each side is what clamps; the loudest positive
  one is what fades when it is sent on. Real widths make no new case: `RelayLevel`
  is proved for all of them.
- *mlx_audio*, streaming: nine samples fill a buffer of four twice over, which is what
  it takes for positions in it to be shifted while a decode is under way.
- *moshi, ollama*: with capacity one each channel is full after one message, so
  that three messages block every task in turn. The real capacities (32 and
  more) only make the same states rarer.
- *mlx_audio*, one-shot: four tokens hold a sentence, its repetition and a tail, or a run of
  four of one word; three frames outlast a text of one word and its end of
  speech, and are too few for one of four. Two events give one that is spoken and
  one that is lost, in one step or in two. Vocoders `Net` and `Gap` differ in
  whether the indices of their blocks have a gap. The directories differ from the
  provisioned ones in one file each, which is what a check for one file sees. The
  two uses of the engine share nothing that changes, so that the run checks each
  while the other has not begun.

Deadlock is checked where the system always has something to do
(`StreamingStt`; the one-shot backend in the same run rests when its steps are
used up). The others end: a session is over, a call has returned, the
bounded messages are used up.

### Fairness

- *Session*: the transport and the backend answer each call
  (`run_session` has no time-out of its own) and timers fire. The next frame need
  not come, and a skill need not return: that is what the budget is for.
- *LocalIpc*, *SidecarSocket*: tokio's mutex is first come, first served, hence strong fairness
  of `Lock`. `step` has no read time-out, so that the sidecar answers, or its
  connection ends, is an assumption. `select!` takes its ready branches in a
  random order, so that neither `accept` nor the watch channel is passed over for
  ever (`Accept`, `IpcTask`); `main` returns once the task is joined (`Exit`). No
  fairness says that a process is told to shut down, or starts.
- *Moshi*: the tasks are scheduled, frames keep coming while the transport is
  open, and the server reads while it sends. It need not send anything. If
  the server stopped reading while it sends, `step` could wait on it for ever.
- *Ollama*: the HTTP client has no time-out, so that the service answers and
  its body ends is an assumption. Receiving is assumed in `ReplyEnds` alone.
- *Sidecar*, *Provisioning*, *Realtime*, *StreamingStt*, *MlxTurn* are checked for safety only and
  assume no fairness.

## 4. Proofs

All are checked by TLAPS for every value of the constants, from the
assumptions named in the modules: `SessionAssumption`, `IpcAssumption`,
`SocketAssumption`, `SidecarAssumption`, `ProvisioningAssumption`,
`FullScaleAssumption`, `ResolutionAssumption`, `RealtimeAssumption`,
`WhisperAssumption`, `Qwen3TtsAssumption`, `MlxTurnAssumption`, `SttAssumption`,
`MoshiAssumption` and `OllamaAssumption`. They say that bounds are naturals and
capacities not zero, that manifests, bodies and texts are sequences, that steps,
events and checkpoints have the declared shape, and that `None` and its like are
none of the values they stand beside. Three say a little more:

- `SttAssumption`: that if a word begins a second and that a third, it begins the
  third, as prefixes of strings do.
- `Qwen3TtsAssumption`: that a vocoder has positive kernels (`ValidNet`), without
  which the code cannot convolve, and the layers of the published one, with no gap
  in the indices of its up-samplings (`WholeNet`; its blocks may have one). The
  code does not look for a gap: with one it would build a shorter net in silence,
  as said in section 5.
- `MlxTurnAssumption`: that a text token is any piece but the blank one, which the
  tokenizer drops.

Where a type invariant is not inductive as it stands, the proofs strengthen it
(`TypeInv` and its like) and establish it first; the arguments below take it as
given.

*A session* (`SessionProofs`)

- `TypeCorrect`: the type invariant. It is inductive; each action has a step.
- `BargeIn`: `NoStaleAudio`. It is not inductive: that nothing stale is sent
  after a clear holds because all of a step's frames are out by the time its
  events are looked at. `BargeInInv` adds that: while there is audio left to
  send, the last clear was of an earlier step, and while an event is handled
  there is none left.
- `AuditPairing`: `AuditPaired`. That a result follows its attempt is not
  inductive alone, for it holds only because the attempt is still the last
  record when the result is written; with `RunningIsAudited`, which says so, it
  is. Lemma `RuntimeMoves` says when a step of a session moves the runtime.
- `AuditedTimeout`: `AuditedTimeoutRecorded`, from `TimeoutInv`: a call that has
  timed out and awaits its record came through the audited entry, and one that
  was answered with a fallback has it last in the log.
- `MetricsTold`: `MetricsTrue`, which looks at the driver only where it waits or has
  ended. `MetricsInv` balances the books at every await: the interruptions
  counted, with those of the step still to be processed, are those that
  happened; the tool calls counted, with the answer still to be taken, are no
  more than the successes in the log.
- `ContractKept`: `Session` implements `BackendContract`. `QuietInv` says what
  is empty at which `pc`, so that each action maps to one of the contract's or to
  a stutter under `Phase` and `Credits`.

*The local stream* (`SidecarSocketProofs`)

- `ResponseIsOwn`, `StreamClean`, on one inductive invariant. Its parts: only
  the holder of the mutex is past the lock (`Mutex`); whoever writes or reads has
  a live stream (`Connected`); in all of a live stream, its task and its replies
  there is at most one request or response, and it belongs to the holder, who is
  reading (`OneAtATime`); so what was returned is the caller's own latest request
  (`OwnResponse`, with `Numbered` for the numbers of requests).
- `ProcessedOnce`: `AtMostOnce`. A dropped connection may still be processed, so
  `OneAtATime`, which is about the live one, is not enough. `OnceInv` follows a
  request through all of them: before it is written it is nowhere, then on one
  connection and not processed, then processed and on none.

*The socket file* (`SidecarSocketProofs`)

- `Reachable`, `NoneLeft`: `AloneReachable` and `NothingLeft`, inductive together
  with `AloneInv`: whoever runs beside another is marked as overlapped, so a
  process that is not may take the path as its own.
- `SocketResponseIsOwn`, `SocketProcessedOnce`: the theorems about `LocalIpc`, carried
  over processes that come and go. A step of a process is a stutter or the end of
  connections in `LocalIpc`; a step of a client is the same step there, with a
  stronger guard. That much holds by the way the two modules are written, and is a
  lemma, not a result.

*The sidecar's sessions* (`SidecarProofs`)

- `StateExclusive`, `EventsKept`, `StateKept`: `ExclusiveState`, `EventsAccounted`
  and `StateSurvives`, from one invariant. `HeldInv` says that a
  handler has a state only between its lookup and its return, made by a request
  that has arrived; `EventsApart`, that an event is queued by one client or carried
  by one request; `EventsApplied`, what was applied and what came of it; `StateInv`, where the state of an
  undisturbed session is while a request of it is under way. `LatestIs` shows that
  the event that counts, the last of its kind, exists: it needs that a finite set
  of numbers has a largest one.

*Provisioning* (`ProvisioningProofs`)

- `TypeCorrect`: `TypeOK`, which takes `Types`: that neither list of a plan
  outgrows the manifest holds because an artifact leaves one list for the other.
- `Published`: `PublishedWhole`, assuming `ProcessesApart` (each caller is a
  process of its own). `FilesApart` says that no file is at two temporary paths,
  nor at a temporary and an artifact's; `OwnFile`, that the file a caller writes is
  at its temporary path and holds exactly what was received. Without the
  assumption the claim is false: `provisioning_shared`.
- `OkIsReady`: `OkMeansReady`, also for callers of one process, since a lonely
  call has the temporary files to itself, and also where removals fail in silence.
  `Progress` says that each artifact is ready or still in a list of the lonely
  caller; `Settled`, that once it has returned Ok, whatever calls come after, alone
  or not, find nothing to download. A call that fails to read a file ends this, and
  empties `standing`: from there on nothing is claimed of earlier calls, since the
  file may be gone (`vona-model-provisioning/src/lib.rs:180`).

*A conversation with a hosted service* (`RealtimeProofs`)

- `RelayLevel`: a sample sent on stays on its side of zero, never gets louder, and
  loses at most a step, for every width. `RelayedLevel` has from it that
  `RelayKeepsLevel` holds however often audio goes round: the invariant is that
  whatever may be spoken in the place of a sample is a fixed point of the
  conversion below half of full scale, and at least half above it (`AtLevel`).
- `TypeCorrect`, `EventsAreHeard`, `EndsAreHeard`: what an output says is a function
  of the event, so that the two properties are lemmas about the mappings of all
  six services (`Well`), by cases. The second goes both ways for the ends that are
  told (`HeardEnds`); for the others it says only that what is told as an
  end is one.
- `EndsOnRequest`: `ClosedOnRequest`, once an event on its way that ends the
  stream is only there when the application has asked (`ClosedInv`).
- `TurnsAreMeant`: `TurnsAsMeant` compares the two ends, which only agree when
  nothing is under way. `Backlog` says what they have in common in between: the
  buffers the service will have, and the turns it will have taken, as it takes each
  event on its way; the last of them is what the application has not committed. What
  the application means by `ClearOutput` takes nothing from its turn, and the event
  sent for it empties the service's buffer: from then on, until the next commit,
  the two have nothing in common (`ClearedTurn`), and `SameTurn` says so.

*The MLX engine, a step at a time* (`MlxProofs`)

- `DecoderBlockAligned`, `UpsampleAligned`, `WaveformAligned`: one block, one
  up-sampling and the whole net make, for each codec frame, as many positions as
  their strides multiply to, none of which depends on a later frame. A net is any
  that runs (`ValidNet`, `Runs`). The last is by induction over the layers, each of
  which maps an aligned wave to an aligned one. `SpeechIsAligned` puts it into the
  specification: audio there is was made by a net that runs (`WaveInv`).
- `TranscriptIsFaithful`: `TranscriptFaithful`, from lemmas about the two passes of
  the clean-up. Each goes over the pieces once, so each has an invariant in the
  number of pieces it has gone over: `Cut` for `Sentences`, where what is in no
  sentence yet is the pieces since the last mark, and `Collapsed` for
  `CollapseRepeatedWordRuns`. What is left comes from what was decoded by a
  function that keeps the order (`Embeds`), and has no word three times in a row
  (`Settled`).
- `TextIsSpoken`: `TextSpoken`. `LaidOut` says which token went beside each frame so
  far, in terms of the text.
- `ProvisionedIsUsable`: `ProvisionedUsable`. `UsableInv` adds that models loaded
  from provisioned directories have all the features a call asks for.
- `EventsAreSpokenOnce`: `EventsSpokenOnce`. The events of all turns and the pending
  ones, one after another, are the numbers of the injected ones (`EventsInv`).
- `TypeCorrect`: needs that a clean-up makes pieces of pieces and a net waves of
  frames.

*Streaming transcription* (`MlxProofs`)

- `SttTypeCorrect`: together with `BufferInv`, that audio is dropped only when the
  buffer is full.
- `SpeechGoesOn`: `AudioNotStarved`, for `StepSize <= MaxBuffer`. What has not been
  decoded is what lies in the buffer behind `lastInfer`, or all of it
  (`DecodedInv`); when a call starts no decode that is less than a step
  (`QuietInv`). The hypothesis is needed, and nothing in the code ensures it
  (`vona-mlx/src/lib.rs:469`, `548`).
- `FinalIsOfBuffer`: `FinalCoversBuffer`. `PendingInv` relates the length that
  `finish` compares with the samples the decode was started on, through any
  overflow; `WaitingInv` says that the decode it waits for is still of the whole
  buffer.
- `PartialsGoOn`: `PartialsGrow`, since the committed prefix always goes on from
  what was shown (`ShownInv`). The prefix of words on which several hypotheses agree
  is a fold, of which `CandidateIs` says what is needed.

*Engines with bounded channels* (`ChannelProofs`)

- `TypeCorrect`: no channel, pipe or socket buffer of Moshi outgrows its capacity.
- `MessagesAreKept`: `MessagesKept`. A message is in one place at a time: heard, in a
  channel, in a packet being decoded, in the pipe or in the hands of `recv_task`;
  put one after another these are all that has arrived. It is inductive only with
  the packets in ascending order (`MessagesInv`), so that the one the decoder skips
  is not taken for another.
- `InputIsKept`: `InputKept`, with nothing pending before the first step.
- `OllamaTypeCorrect`: with `ReadInv`, that a task handles no line that has not
  arrived and that only the latest generation has a receiver.
- `RepliesInOrder`: `ReplyInOrder`. `Owes` follows what the lines of the body say
  from the task to the caller: what was received and what is still to come is
  what the lines handled so far say, and then perhaps a failure, after which the
  task only ends. That is in terms of the lines as they were decoded; `LinesAlike`
  compares them, item by item, with what Ollama said (`ReadsAs`). What is still to come is, while the caller goes on receiving,
  what is in the channel and in the hands of the task (`OrderInv`). A chunk changes
  what a line says only before the line is handled.

The library's induction theorems take an operator as a parameter and cannot be
used. `FiniteInduction` has induction up to a number as a fact about a *set* of
numbers, from the well-foundedness of finite sets by inclusion, the existence
of a function defined by recursion from that, and from both what
`FoldLeft`, `MapThenFoldSet` and `FlattenSeq` compute. `ProvisioningProofs` uses
it for the plan (`InOrder`), `MlxProofs` for strides, layers, the clean-up, the
taken events and the agreed words, `ChannelProofs` for the packets heard and the
lines of a body.

Only model-checked: all liveness, which the prover does not handle under
fairness (`FrameDealtWith`, `CallReturns`, `ShutdownEnds`, `StepEnds`,
`TextSurfaces`, `ReplyEnds`, `AbandonedEnds`). Every safety property of a passing run is
stated by a theorem.

## 5. Not modelled, and why

- Audio arithmetic, attention, the values of convolutions, codecs and OGG pages,
  the mel spectrogram, mixing and resampling: numbers that TLC cannot enumerate.
  A codec is a call that may fail; of a convolution the lengths and dependencies
  are modelled. The choice of a code among logits is an oracle, whose temperature,
  top-k and repetition penalty only reorder what it may choose.
- The byte layout of a safetensors file: parsed once and rejected whole.
- URLs, headers, session settings and SSML of the hosted services: layout that no
  other function reads.
- The passthrough backend (a step that never fails), the facade (re-exports and
  example skills), `vona-test-harness` (doubles that tests push values into, with
  no promise of their own), the release scripts.
- `validate_manifest`, `sanitize_model_id`, `filler_strategy`, health and bearer
  checks: pure, before anything is touched.
- A step of the local transport that is dropped between its write and its read:
  `run_session` never drops one, and no other caller is in the workspace.
- `SessionCloseReason::PolicyEnded` and `SessionState`, which nothing uses, and
  `latest_update`, which nothing reads.

### Observations without a property

- `time_to_first_audio_ms` is set by a step whose list of frames is not empty,
  even if the frames have no samples (`session.rs:155`); the doc at
  `session.rs:98` speaks of the first non-empty frame.
- The sidecar's map of sessions shrinks only when a step fails (`main.rs:106`).
- With `step_ms` above `max_buffer_ms` transcription never decodes again once
  the buffer is full; nothing validates the two. `AudioNotStarved` is about
  configurations with `StepSize` up to `MaxBuffer`.
- `finish` drops the handle of a decode it does not need, which goes on
  detached. The audio of a decode that failed waits for the next step of audio.
- While two requests of a session overlap it has two states, and the answer that
  comes last decides which is kept (`main.rs:50`); `docs/architecture.md:119` has
  `session_id` as the unit of backend state. It takes a client that gave up.
- A sidecar makes its cleanup guard before it binds, so that a failed bind, like
  the end of an older process, removes the socket of whoever listens there
  (`main.rs:180`). `AloneReachable` is about processes that never overlap.
- On shutdown the log says that listeners are drained (`main.rs:288`); the tasks of
  IPC connections are cut off where they are.
- OpenAI's `ClearOutput` becomes `input_audio_buffer.clear`
  (`vona-openai-realtime/src/lib.rs:151`), which clears what the user has said and
  not what is being said; `docs/sts-model-coverage.md:34` speaks of output. The turn
  it falls into loses input, so that `TurnsAsMeant` would fail if it spoke of that
  turn; it does not.
- Gemini Live's `turnComplete`, `generationComplete` and `interrupted`
  (`vona-gemini-live/src/lib.rs:183`) become nothing, though
  `docs/sts-model-coverage.md:63` lists `ResponseCompleted` among what adapters should
  map to. The functions for Deepgram and Azure return a `String`, which does not say
  whether it is final, and OpenAI's `response.output_text.done` and its kin become
  nothing. `EndsHeard` speaks of none of these.
- No mapping produces `ToolCall`, `Interruption` or `LatencyMark`, which
  `docs/sts-model-coverage.md:54-64` expects of an adapter and whose capabilities
  say supported; Gemini refuses `Interrupt`. Of a Gemini message only the first
  usable part is heard.
- A sidecar request with two channels is taken as interleaved samples of one.
- The vocoder counts its blocks and layers up to the first index that is missing,
  so that a weight left out shortens the net in silence. The default end-of-speech
  code of Qwen3 TTS, 4198, is outside its default vocabulary of 3072
  (`vona-mlx-qwen3-tts/src/lib.rs:172`, `232`): with both defaults only the limit
  ends a speech.
- A Moshi start that fails while it sends its headers leaves both tasks
  running; a page that is not OGG ends `decode_task` and, at the next audio,
  `recv_task`, which silences the text too; a server that closes the socket
  leaves a session whose steps are empty and never finished.
- A tool result is injected with the source `skill:<name>` (`runtime.rs:94`), which
  neither the MLX backend (`event_text`) nor the local Seamless backend
  recognises: it is taken with the other events and never spoken. Of several
  events that are recognised, MLX speaks the first and Seamless uses the last;
  MLX drops the others, and all of them if the synthesis fails.
- A step of the MLX backend that hears nothing synthesises the empty text, whose
  first token is the end of the message. Texts of at most one token fail when the
  text embedding is not as wide as the talker (`empty_projected_text`), and with
  `VONA_QWEN3_TTS_NON_STREAMING` the first token of a text is never given to the
  talker; `TextSpoken` is about the streaming layout. A text with more tokens
  than frames is cut off.
- Whisper's budget does not count the prompt against the positions of the model;
  the clean-up treats the point of `3.5` as the end of a sentence, and drops a
  tail that is the beginning of a sentence heard before.
- An output frame carries the session's number of channels though the speech is
  mono. A panic while the weights are locked makes all later calls fail.
- Ollama starts a generation at the text already, so that a text followed by
  `StartResponse` runs two; closing does not cancel the request; a body that
  ends without a `done` line is an orderly end; a character that two chunks
  share is lost, since each chunk is decoded by itself
  (`vona-ollama/src/lib.rs:295`, `338`). `ReplyInOrder` excepts it, and nothing else.
- Provisioning removes a file that it fails to read, whatever the reason
  (`vona-model-provisioning/src/lib.rs:180`): a passing I/O error costs a download.
- The step of an MLX backend whose synthesis fails has taken its events already,
  and an injection that fails is counted by the session (`session.rs:196`).

## 6. Plan

Done: every module of section 2 and the proofs of section 4. Left, in this order:

1. `skill:` events in a session over a backend that ignores them, and a cancelled
   step in `LocalIpc`, in a run of its own.
2. Algorithms over small inputs: resampling and mixing, and the byte layout of a
   safetensors file.
3. Proofs: further refinements, of specifications that say the same as the
   invariants do now: a service that takes the application's input at once
   (`Realtime`), a generation that reads its body whole (`Ollama`), a cache in which
   an artifact is there or not (`Provisioning`).
