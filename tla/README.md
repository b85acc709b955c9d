# vstarcamctl in TLA+

Models, model checks and proofs of the parts of `vstarcamctl` whose correctness
depends on interleavings, cancellation, crashes, lost or late messages and limits.
Source paths below are relative to `src/src/vstarcamctl/`; numbers in
parentheses are lines.

## The system

`vstarcamctl` is an asyncio library and a CLI that control VStarcam cameras on
the local network over PPPP, a UDP protocol. A program owns one
`VStarcamCamera`; several of its tasks may use it at once. Several runs of the
CLI may share a machine, its files and its network.

| part | source | state | operations | modules |
| --- | --- | --- | --- | --- |
| transport | `transport_aiopppp.py` | current session, `_connected`, `_authenticated`, lifecycle lock, request lock | `connect`, `close`, `session_lease`, `request`, `send_channel_parts` | `AioppppTransport` |
| CGI reception | `transport_aiopppp.py`, `framing.py` | response queue, cache of recent fragments, fragments pending for one request | datagram callback, `_take_complete_response` | `CgiReceive` |
| video assembler | `pppp_video.py` | one open access unit | `feed` | `PpppVideo`, `KeyframeSource` |
| facade: commands | `camera.py` | the attempt in progress | reads with retries, one-shot writes | `ServiceChange` |
| facade: setters | `camera.py`, `night_vision.py`, `time_settings.py` | feature locks | `set_time_settings`, `set_motion_detection`, `set_rtsp`, `set_night_vision`, `set_wifi` | `FeatureChange` |
| facade: account | `camera.py`, `account.py` | account lock, the camera's WebPwd | `set_camera_account_password`: change, first enable, verification | `AccountChange` |
| facade: livestream | `camera.py`, `transport_aiopppp.py` | livestream lock, video capture of a session | `send_talk_audio`, `capture_pppp_snapshot` | `Livestream` |
| facade: PTZ | `camera.py` | PTZ lock | `move_ptz`, `stop_ptz` | `PtzMove` |
| media | `media_stream.py`, `_process.py`, `audio_talk.py` | a child process, its output file | record, snapshot, probe, play, decode talk input; terminate and reap | `MediaProcess` |
| discovery | `discovery_udp.py`, `discovery.py`, `transport_aiopppp.py` | replies by device | search, list, select, wait for a camera, resolve a configured one | `Discovery` |
| commands | `command_catalog.py`, `camera.py` | none | match a path, permit it, send it raw | `CommandGate` |
| files | `_private_file.py`, `config.py`, `provisioning.py` | temporary and published files | private, atomic write; save a profile, write a QR image | `PrivateFile` |
| CLI | `cli.py` | the command of a process, its exit status | `discover`, `provision qr`, `stream`, `audio`, `raw` | `Cli` |
| audio codec | `audio_talk.py` | ADPCM predictor | encode, packetize | no |
| response parsing | `parser.py`, `cgi.py` | none | parse, format, redact | no |
| feature codecs | `wifi.py`, `detection.py`, `osd.py`, ... | none | parse and validate | no |
| settings | `config.py`, `secrets.py` | none | precedence, validation | no |

How they interact: the CLI and user code call the facade; the facade calls the
transport (`request`, `session_lease`, `send_channel_parts`, video capture); the
transport owns one session whose callbacks (datagrams, disconnection, done
callbacks of its tasks) run between the awaits of the calling tasks. Lock order:
a feature lock of the facade, then the lifecycle lock, then the request lock. A
connection first resolves the configured camera by discovery. Runs of the CLI
meet in the files they write, in the recordings of their children, and in the
profile one saves and another connects with.

What makes each part correct, and what makes that hard:

* **Transport.** The camera has few session slots, so at most one session may be
  open whatever fails or is cancelled; `connected` must mean usable; nobody may
  replace a session under a media operation. The protocol has no request token:
  a late response may pass for the answer to the next request.
* **CGI reception.** Fragments are lost, repeated, reordered and limited in
  number; what is joined must be one frame, and what is dropped must not be
  mistaken for silence.
* **Video.** Chunks are lost and late; a keyframe must never be spliced from two.
* **Commands and setters.** A write must not be repeated, and its caller must
  never be told that nothing happened once it was sent, whatever is lost or
  cancelled. Setters that read and then write must not undo one another.
* **Account.** A first enable is up to four commands that only make sense in order
  and on one session; only a fresh session tells whether a password took effect, and
  neither a cancellation nor another task may hide or fake that.
* **Livestream, PTZ.** What was started must be stopped, on the same session,
  when the start was not acknowledged or the task is cancelled too.
* **Media children.** A child that ignores its signals, a timeout and repeated
  cancellations meet; nobody may return before it is reaped, or take the output
  of another process for his own.
* **Discovery and connection.** Replies are lost, cameras move, several answer. A
  camera may be found only when there is one it can be, and a profile must
  lead to its own camera, with the right seed, or to none.
* **Command gate.** What is not recognized is held to weaker rules than
  what is, so that a protected write must not pass by being disguised.
* **Files.** Writers race, are killed, and the power fails: a profile is the old one
  or a whole new one, and nobody's file is replaced unasked.

## The modules

All modules of the library share one reading of asyncio: a task runs without
interruption from one await to the next, so what lies between two awaits is one
action, and each await is a value of the task's `pc`, at which callbacks, other tasks
and a cancellation may come in. The record `at[t]` holds the local variables of task
`t`'s call. Outcomes (exceptions) are the classes of `errors.py` the callers tell
apart. In the modules of the CLI the actors are processes, which interleave at every
system call and may be killed at any. Operators marked *Mutant* are not part of
the specifications: they are plausible bugs, used to see that each property can fail.

| module | what it is | state and actions in the code |
| --- | --- | --- |
| `AioppppTransport` | sessions, locks, requests, login, quarantine | `session`, `connected`, `authenticated`, the two locks; one action per segment of `connect`, `close`, `session_lease`, `_request_unlocked`, `_send_framed`, `send_channel_parts` and per callback |
| `CgiReceive` | the queue, the retransmission cache, reassembly | `Arrive` is `handle_drw` with `_queue_cgi_response` and `put_nowait`; `Read` one turn of the loop of `_send_framed` with all of `_take_complete_response` |
| `PpppVideo` | the assembler | `Feed` is one call of `feed`, by its branches |
| `KeyframeSource` | what `feed` promises (abstract) | delivers complete key units in order |
| `MCReception` | one session that receives over either channel | `PpppVideo` and `CgiReceive` side by side, as `handle_drw` tells them apart |
| `ServiceChange` | reads with retries and one-shot changes of several tasks | `connect`, `_request`, `_send_cgi`, `_send_service_change`, over the guarantees of `AioppppTransport` |
| `FeatureChange` | setters of several fields or steps, over the guarantees of `ServiceChange` | `Locked`, `Read`, `Send` ... are the awaits of the five setters |
| `AccountChange` | password change and first enable, over the guarantees of `ServiceChange` | the preflight under the lock, each command, and the shielded child that closes, reconnects and reads back |
| `Livestream` | talk and snapshot, with the capture of a session | the awaits of the two operations, their cleanup tasks, other tasks' connects and closes |
| `PtzMove` | start, wait, stop | the awaits of `_move_ptz` and `_send_ptz_stop_once` |
| `CliProcesses` | the runs of the CLI | the constant that the next four share |
| `PrivateFile` | `write_private_file` of several processes | one action per system call; failure, kill and power loss at each |
| `MediaProcess` | one child per process | `_run_process`, `stop_process`, `record_rtsp`, `play_rtsp`, the decoder of talk input; what the child and the event loop do to it |
| `Discovery` | searches and connections on a changing LAN | the collection of replies with its filters, the list of `discover_cameras`, the selection of `discover_camera`, `wait_for_camera_on_lan`, the resolution in `connect` |
| `CommandGate` | which command a path is, and what it may do | `match_path`, `require_permission`, `send_raw_cgi`, as operators over a path and a catalog |
| `Cli` | the commands of several processes | composes the four above: begins their operations, and turns their outcomes and interrupts into an exit status. `discover` saves the camera it finds, shows the one with a device ID, or lists all that answer |
| `*Proofs` | theorems about the module of that name; `ReceptionProofs` about `PpppVideo` and `CgiReceive`, `CliProofs` about `Cli` and its parts | |
| `MC*` | constants for TLC | |

Most modules stack by guarantee rather than by one big composition, whose state
space would be out of reach: `ServiceChange` takes from the transport that one
session exists at a time, one request is in flight, a session with an abandoned
request is not reused and every call returns (`NoSlotLeak`, `NeverReusesAbandoned`
and `EveryCallReturns`); `FeatureChange`, `AccountChange` and `PtzMove` take from
`ServiceChange` that a change is sent at most once (`ChangesAreSentOnce`) and that
every command ends (`CallEnds`); `Livestream` takes `LeaseKeepsSession`. `PpppVideo`
is shown to implement `KeyframeSource`, which is what `Livestream` calls a
keyframe. `Cli` really is a composition: its steps are steps of its parts, and
the theorem `ImplementsItsParts` carries what is proved of `PrivateFile` and
`MediaProcess` over to it.

### Abstractions and assumptions

* Messages are records of what the code looks at: a response is the frame it
  answers and its code, a fragment its index, its place in its frame and its
  size. Bytes, encryption, paths, passwords and log lines are left out.
* The camera and the network are nondeterministic. The camera may answer late
  and again, volunteer status frames, end a session at any time.
* A session becomes ready only after network round trips and a pause
  (`transport_aiopppp.py` 353-384), in which the event loop has run every task it
  had woken (`LoopIdle`).
* In `ServiceChange` and above, an abandoned command has reached the camera or
  never will: its session is closed, and the camera drops what belongs to it.
* In `CgiReceive` a fragment survives in the network for `Window` later ones,
  which the cache outlives (`WindowAssumption`: the real cache holds 4096 fragments or a
  megabyte), and a camera emits no more fragments than there are indices, 65536, in the
  life of the session the model follows. That a response is one whole frame is claimed of a camera whose truncated
  frames can be told from what follows (`Unambiguous`): if it also sent first
  fragments without a command code, one of them would pass for the rest of a
  truncated frame, and the protocol has nothing to tell them apart.
* Where `ServiceChange` sends, permissions, catalogue lookups and response
  parsing are an outcome: refused before anything is sent, or malformed.
* In `Livestream`, an error of the cleanup is raised only when there is no
  earlier one; otherwise the code logs it.
* In `AccountChange` other tasks of the program may open and close sessions at any
  time, but do not write WebPwd; the camera acknowledges or not, and applies or
  not, independently.
* The content of a file is whole, partial or absent; names survive a power failure in
  the order they were made. ffmpeg keeps its word: `-n` does not replace a file,
  `-y` does. A child may ignore SIGTERM, not SIGKILL.
* A camera answers a search in the clear or with its seed (`SeedOf`), and the table of
  seeds by device ID (`PskForDeviceId`) is right where it says something
  (`CamerasAssumption`). Ports are part of an address.
* The catalog is any set of commands of the shape its loader admits
  (`CatalogAssumption`). The theorem about `raw` also needs that no other command
  takes all the fields a protected write requires, and that a write next to one with
  optional fields finds it by a fixed field (`SeparateAssumption`); the loader
  does not demand that, `data/catalog.yaml` keeps to it.

## The runs

| run | question | bounds |
| --- | --- | --- |
| `reception` | Video: only complete key units, once and in order (refinement of `KeyframeSource`), and every one whose chunks arrive in order. CGI: exact counters and their limits; a response is one frame; a retransmission answers nothing; what lost a part fails; what arrived is returned. | 4 chunks of sizes to 3, at most one malformed. CGI under load: 5 fragments and as many indices, 2 requests without an expected code, limits of 4 fragments and 7 bytes. Frames: what fits in the limits, 1 request, with or without an expected code |
| `transport_lifecycle` | Slots, lease, `connected`, whose disconnection counts; every call returns. | 2 tasks, 2 sessions, 2 frames |
| `transport_correlation` | Is the accepted response the one to this frame? | 2 tasks, 2 sessions, 3 frames, 1 status frame |
| `transport_login` | Do protected commands follow a login of their session? *Violated*, see findings. | 2 tasks, 2 sessions, 2 frames |
| `service_calls` | Sent once, never denied, repeated on new sessions only, ends. | 2 tasks, 2 calls, 4 sessions, 1 retry |
| `setters` | Lost updates, mixed transitions, denied writes; every setter returns its lock. | 2 tasks, 2 calls, 2 values, 2 fields |
| `setters_wifi` | Is a cancelled Wi-Fi write reported as uncertain? *Violated*. | 2 tasks, 1 call |
| `account_changes` | Steps once, in turn and on one session; success is verified, nothing sent is denied; ends. | 2 tasks, 2 passwords, 2 sessions |
| `livestream` | Stopped and disarmed on the same session; cancellation kept; ends. | 2 tasks, 2 sessions |
| `ptz_moves` | The motor is stopped or its caller told; moves do not overlap; ends. | 2 tasks, 2 directions |
| `cli_commands` | Files and recordings whole and not replaced; children reaped; a found camera is the only one, a connection goes to its camera; protected writes stay closed; commands end. | 2 processes, 1 profile path, 1 clip, 2 addresses, 2 cameras, 2 seeds, 1 retry, 1 move of a camera, 9 pairs of commands |
| `cli_raw` | Can `raw` send a fixed known write? *Violated*. | 1 process sends, 18 paths |

Why these bounds are enough to be interesting: two tasks are what a lock, a
replaced session or a mixed transition needs; a second session is what a stale
callback, a late response, a verification or a retry needs, and the third frame what
a response to an abandoned request needs in order to meet another one; four chunks
hold two key units or one of three chunks after a loss. The limits of `CgiReceive`
are small enough that its queue and cache reach them, either by number or by bytes,
within the fragments emitted, and its indices wrap; whole, cut-short and denying
frames are exercised with a request that has time, the others with one that may fail at
any point. Two processes are what a race for a path needs; a camera that
answers in the clear and one that does not, a seed the table knows and one it does
not, at two addresses, with one move, give a search each kind of reply and a
profile each way of being out of date. The pairs of commands are those that
share something (a path, a clip, a camera); a command that shares nothing runs alone.
`MCCatalog` has a command for each combination of fields, status and policy that
`match_path` and `require_permission` distinguish. Counters that only bound a run
(`MaxFrame`, `MaxCalls`, `MaxSession`, `MaxEmitted`, `moves`) stop new work, not work
in progress, and commands of the CLI come to their end, so deadlock is not checked;
that calls and commands end is a liveness property instead.

### Fairness

* `AioppppTransport`: weak fairness of each task's own steps. They include its
  deadlines (connection, acknowledgement, response), which the code sets with
  `wait_for` and `timeout`, and the event loop runs every task it woke. A lock is
  handed over in order (`asyncio.Lock`), which its queue models. Strong fairness
  that a lease body ends: a body is this library's own, and bounded
  (`OperationEnds`). A done callback runs. Nothing is assumed of the camera, the
  network, or that calls are made or cancelled.
* `ServiceChange`, `FeatureChange`, `AccountChange`, `Livestream`, `PtzMove`: strong
  fairness of a task's steps. They abstract locks to an owner, and first come, first
  served locks make a task that keeps becoming able to take one take it in the end.
* `reception`: weak fairness of a request, without its deadline: the property is what
  the request does before that.
* `Cli`: weak fairness of each process's own step, deadlines, SIGKILL and reaping
  included. Nothing is assumed of a child that was not killed, of cameras, of
  interrupts, or of other processes; `CommandEnds` therefore excludes the commands
  that run as long as their child or their input does.

## Findings

* `transport_login`: `_request_unlocked` sets `_authenticated` after its login,
  although a concurrent `connect` may have replaced the session it logged in on
  (`transport_aiopppp.py` 1188). The next session is then taken for
  authenticated; `docs/getting-started.md` 208-210 promises the login "in the same
  session".
* `setters_wifi`: a cancellation during the `close` in the `finally` of `_set_wifi`
  (`camera.py` 1840-1841) replaces `WifiChangeUncertainError` by a plain
  `CancelledError`, in contradiction to `errors.py` 63 and `docs/python-api.md` 438.
* `cli_raw`: `_handle_raw` (`cli.py` 905-910) calls `send_raw_cgi` with its default
  `retry_requests=True`, and `camera.py` 430-434 refuses that for a command whose
  `retry_policy` is `one_shot`. The fixed known writes, such as the siren's, are
  one-shot, so that `raw` refuses them all; `docs/cli.md` 280 says "Fixed known
  writes and cataloged reads remain available."

Met on the way, without a run: the error "was sent once without retry" (`camera.py`
511-513) is also raised for a change whose login failed, so that it was never sent.

## The proofs

TLAPS proves these for every value of the constants, under the modules' ASSUMEs
only (bounds are naturals, the owner of a free lock is no task, and so on).

* **`ReceptionProofs`**, video: `TypeCorrect`, `NeverSplices`, `RefinesKeyframeSource`,
  `ReturnsCompleteKeyUnits`. The inductive invariant is that the open unit is the run of
  chunks from one safe boundary to the newest chunk, with the bytes to match;
  types alone do not say that what completes is one unit. For the last theorem a
  second invariant says that a unit whose chunks came in order so far is the one
  that is open.
* **`ReceptionProofs`**, CGI: `LimitsAreKept` (`CountersExact`), `ResponsesAreWhole`,
  `RetransmitsAreRejected`, `DroppedFragmentsFail`, all from `CgiInv`:
  * What is in a buffer was emitted, and a counter is what its buffer holds. `Bytes`
    counts a set of places, so that what an append adds and an eviction gives back
    follows from cardinalities instead of an induction over the buffer, and an eviction
    (`RoomIsMade`) stops at the least number of fragments that makes room.
  * What was received is in the cache for as long as the network can repeat it. Nothing
    is cached that was sent `Window` fragments before one cached ahead of it
    (`RecentInv`), hence the fragments behind one that may still arrive are fewer than
    `2 * Window - 1`, and by a count of their serials (`NotForgotten`) the eviction never
    gets to it. This is where the bounds of `WindowAssumption` come from.
  * Hence what waits is either a status frame or of the request in flight (`OwnInv`): an
    earlier request took the whole of its answer out of the network.
  * The indices of emitted fragments are distinct up to the wrap (`ContinuesInPlace`), so
    what continues a first part is the next fragment emitted, and `FramesInv` says
    of which frame that is. For `ResponsesAreWhole` alone this needs `Unambiguous`.
* **`AioppppTransportProofs`**: `TypeCorrect`, `HoldsOneSlot`,
  `ConnectedMeansUsable`, `NeverReusesAbandoned`, `LeasedSessionStays`,
  `AnswersBelongToRequests`, `DisconnectsAtItsEnd`. The invariant
  relates the locks to where their owners await: who opens or closes a session owns
  the lifecycle lock, so no session is current but the one it opens, and a
  frame is in flight only under the request lock, so the session it abandons is
  in no other request's use. `CorrelationInv` adds, without a request token in
  the protocol, why an answer is the right one: of each frame sent whose response
  could be taken, either the response was received already, or its session is
  abandoned, or a task has it in flight (`OutstandingInv`); so when a frame is sent
  everything earlier that could answer is drained or behind a closed session, and what
  is queued while it is in flight answers it or was volunteered (`QueueInv`).
* **`LivestreamProofs`**: `Invariant`, `TypeCorrect`, `NothingIsLeftBehind`,
  `CancellationIsTold`, `StopsFollowTheirStart`. The invariant says that a session under a
  lease is the current one, that a stream to be stopped has an operation at a place
  from which a stop follows, that an armed capture has a snapshot that will disarm it,
  and that a cancelled operation carries its error. The property on the free lock
  is not inductive: it is the case of this invariant in which there is no such operation.
* **`ServiceChangeProofs`**: `TypeCorrect`, `ChangesAreSentOnce`,
  `SentChangesAreNotDenied`, `ReadsRepeatOnNewSessions`. The invariant relates, for each
  call, the number of sends to its attempt and the sessions it used to the newest one.
* **`FeatureChangeProofs`**: `TypeCorrect`, `NoTimeUpdateIsLost`,
  `PartialChangesAreNotDenied`, `SuccessesAreApplied`. Under the lock, the values read
  are still the camera's and the first parameter of a transition still stands, since
  another setter of the feature that is inside would own the same lock.
* **`AccountChangeProofs`**: `TypeCorrect`, `StepsGoOutOnceInTurn`,
  `EnablesKeepTheirSession`, `SuccessesAreVerified`, `SentChangesAreNotDenied`. The
  invariant judges a call by its own commands: what it sent was acknowledged and
  ranks below the step it is at, is on the current session as long as nobody
  replaced that, and on an older one than the session it verifies on. Only the call
  inside the lock has commands, so what it verified still holds when it returns.
* **`PtzMoveProofs`**: `TypeCorrect`, `MotorIsAttended`, `SuccessfulMovesStop`,
  `MovesAreSerialized`. Between start and stop the motor moves for a task only in the
  direction its stop ends; earlier failures are accounted for.
* **`CliProofs`**: of `PrivateFile`, `PublishedFilesAreWhole` and
  `NothingIsClobbered`; their invariant says what a writer has done by its stage (it
  publishes only what is whole and synced) and that the writer of a published file
  writes no more. `ImplementsItsParts` (`Spec` implies `FileSpec` and
  `MediaSpec`) carries them over, as `ProfilesAreWhole` and
  `ProfilesAreKept`; `CleanupsEnd` and `RecordingsAreKept` from an invariant of the
  children (`MediaInv`: by the place of its operation, whether there is a
  child, and that an ended operation has none);
  `ProtectedWritesStayClosed`, `ConnectionsAreToTheProfile` and
  `FindingsAreUnambiguous` from `CliInv`, which ties a search to the profile it is
  for and says that what it has heard came from cameras, with their seeds, past its
  own filters. Without the tie a connection could be made from the finding of some
  other search. That a path sent by `raw` does not do what a protected write does is
  then a lemma about `RawVerdict` alone, by the command the path is taken for.

Every invariant and action property that a passing run checks is the statement
of a theorem. The inductive invariants were model-checked before they were proved.

Only model-checked: the liveness properties (`PatientGetsResponse`, `EveryCallReturns`,
`CallEnds`, `SetterReturns`, `ChangeEnds`, `OperationEnds`, `MoveReturns`,
`CommandEnds`), which rest on fairness and ENABLED, and TLAPS cannot reason about
ENABLED. The guarantees that one module takes from another (see *The modules*) are
theorems on either side; that the abstraction of the upper module is implemented by the
lower one is an argument in prose, except for `KeyframeSource` and for the parts of `Cli`.
No module that is proved about uses a RECURSIVE operator.

## The plan

Done, in order: the transport and the video assembler (everything else rests on
them), CGI reception, commands, livestream, PTZ, setters, account; files, media
children, discovery and the command gate, and their composition in the CLI; proofs
of every safety property.

Next, by what they would add:

1. The guarantees as abstract specifications. What `ServiceChange` takes from the
   transport could be a small module of its own that `AioppppTransport` is proved to
   implement, as `PpppVideo` implements `KeyframeSource`: `CorrelationInv` and
   `NeverReusesAbandoned` hold what its refinement needs.
2. Steps of liveness that need no ENABLED: for each place a task awaits at,
   that its own steps lead on and that no other step takes it back.
3. Pure algorithms against reference definitions over bounded inputs: the ADPCM
   encoder against a decoder (saturation), the assignment parser.

## Not modelled

* Single-command setters (sirens, lights, OSD, ...): one read or one one-shot write,
  which `ServiceChange` models; what they validate is data. The feature codecs
  parse and format single values, without state.
* Audio: the ADPCM encoder and the layout of a packet are a pure function on bytes.
* Response parsing and redaction, the syntax of a path (`cgi.py`), the YAML of the
  catalog, precedence and validation of settings, argument parsing and printing:
  text.
* Packet encryption and device profiles: byte arithmetic on what the models treat as
  a message.
* In the CLI: the commands that are one call of the facade; a second Ctrl-C
  while the first is being handled; a failing `unlink` of a temporary file; a
  directory that is not synced; a reply that two seeds decode; a configured
  broadcast address as a connection's host.
* ffmpeg, ffprobe, ffplay, the camera's firmware and `aiopppp` are external, and
  appear as environment.
