# TLA+ models of grove

This directory holds TLA+ models of grove, the terminal and worktree manager under
`src/grove`: its terminal daemon, the client and the host application that use it, and the
commands that keep a project's files. With them come the TLC runs that check the models on
small instances and TLAPS proofs of the main invariants of the daemon, its client, the host
and the project commands. `PROJECT.json` lists the
components, the runs, the mutants that show each property has teeth, the map from
definitions to source lines, the findings, the hazards and the theorems.

## 1. The repository and its parts

The repository (`src/`) is a collection of tools for people who work with coding agents.
Its largest part is **grove**. The terminals of grove live in **grove-daemon**, a process
of its own that outlives the app, the app's crashes and, through its disk history, its own.
**grove-core** is the library of the host application: it finds and starts the daemon,
talks to it, feeds panes, and runs git on projects, worktrees and missions.
**grove-agent** is the short-lived command behind the shims of coding agents.

| Component | State | Operations | Hard part |
|---|---|---|---|
| disk history (`grove-daemon/history.rs`) | one directory per session: `meta.json`, `checkpoint.json`, `output.log`, `.owner.lock`; a writer that mirrors generation and size of the log | open, reopen, append, checkpoint, stamp; cold restore | a crash or power loss between any two disk operations; torn files |
| checkpointer (`checkpointer.rs`) | registry by id, dirty versions, a notification, in-flight guards | `mark_dirty`, `run`, `tick`, `flush_all`, `shutdown_all`, `close_session` | readers, loop, flushes and closes interleave around every `await` |
| session map (`server.rs`) | a slot per id (absent, `Pending`, `Live`) | `createOrAttach`, `kill`, `reap`, `close_history` | concurrent calls for one id, reuse during teardown |
| session (`session.rs`) | ring, emulator, pending output, pause gate, child | `tee`, `snapshot`, `pause`, `resume`, `kill`, `emit_exit` | reader thread against RPCs, failsafes and a watchdog |
| hub and connections (`server.rs`) | one subscriber with a generation | hello, `run_control`, `run_stream` | a slow disconnect against a reconnect |
| client (`grove-core/daemon/client.rs`) | connection, pending requests, `known_alive`, owed resumes, cold cache | connect, request, notify, resync, disconnect | teardown against calls in flight; two reports of one death |
| supervisor (`supervisor.rs`, `global.rs`, `main.rs`) | socket, token and pid files | find, keep, replace or start a daemon | files removed by name; probes that time out |
| gc (`pty.rs`, `gc.rs`) | copies of registry, session list, directories | reap, kill, sweep, prune | acts on copies while panes open |
| pane (`pty.rs`, `session.rs`) | coalescer, flusher, replay gate, registry; input queue; mirror and snapshot file | create, flush, paint, close; write; save, remove, load | two sockets, one snapshot; deadlines; whole-file updates |
| agent status (`agent.rs`, `kernel.rs`) | claims per session | `agentClaim`, `agentEvent`, resolve, prune | events out of order, reused pids |
| emulator (`emulator.rs`, `mode_state.rs`) | modes, parked tail, frozen screen | process, snapshot | output cut anywhere |
| wire format (`framing.rs`) | the decoder's buffer | encode, feed, `next_frame` | frames cut anywhere |
| missions (`mission.rs`) | `missions.json`, directories, worktrees | create, add, remove, delete, load | slow git calls under a lock that loads do not take |
| configuration (`config.rs`) and projects (`git_project.rs`) | `config.json`, project directories | add, remove, reconcile, update | load-change-save without a lock |
| worktrees and refresh (`git_project.rs`) | branches, worktrees, stashes | add, stacked add, remove, refresh | git calls that fail half-way; two refreshes |
| agent launch (`grove-agent`, `tool_hooks.rs`) | launcher, shims, plugin files; PATH and chain in the environment | install, launch, resolve, plan | chains through version managers and copies |

`src-tauri`, `src-electron` and `grove/src` are the shells and the frontend. `whip` (tasks
and workspaces for agents), `claude-irc` with `shared/irclib` (file-based messages),
`vaultkey`, `redit`, `rewind`, `webform` and `pipemd` are separate programs in Go.

### How the modelled parts interact

* `createOrAttach` reserves the id in the session map, probes the disk history, spawns a
  session, registers it with the checkpointer, enables its tee and publishes it.
* A session's reader tees every chunk into ring, emulator, pending output and coalescer
  and calls `mark_dirty`, which wakes the checkpointer's loop. The checkpointer writes a
  full checkpoint or an append of the pending output.
* At EOF the reader waits for the child, joins the coalescer's flusher, emits the `Exit`
  frame, closes the history by id and reaps its map entry by identity.
* The host connects two sockets. Snapshots come back on the control socket, frames on the
  stream; the pane holds frames back until the snapshot is there and skips what it covers.
* A disconnect resumes every producer and flushes; the client's next call reconnects and
  resyncs.
* The app's collector reaps panes, sessions, processes and history folders that nothing
  refers to.

## 2. Modules

| Module | Models | Run |
|---|---|---|
| `HistoryStore` (+`Proofs`) | one session directory, its writer and reader, and what `persist` does to them | `history` |
| `Checkpointer` (+`Proofs`) | the dirty protocol over several sessions and ids | `checkpointer_flush`, `checkpointer_tick` |
| `SessionRegistry` (+`Proofs`) | the life of one id in the session map | `registry`, `registry_clobber` |
| `ProducerGate` (+`Proofs`) | flow control and teardown of one session | `gate` |
| `DaemonClient` (+`Proofs`) | the client composed with the daemon's hub and connections | `client`, `client_ends`, `client_exit` |
| `PaneHost` | a pane's output from the reader to the screen | `host` |
| `InputChannel`, `InputWriter` (+`Proofs`) | what the input path promises, and the queue that implements it | `registry` |
| `PaneSnapshots` | a pane's mirror and the snapshot file | `host` |
| `TerminalGc` | `run_terminal_gc` against what goes on meanwhile | `history` |
| `DaemonSupervisor` | an app finding, replacing and starting daemons | `host` |
| `AgentStatus` | claims, events and badges | `host` |
| `Missions` | missions under concurrent commands | `repo`, `mission_dirs` |
| `ProjectConfig` | `config.json` and project directories | `repo` |
| `Worktrees`, `SourceSync` | worktree commands and the refresh | `repo` |
| `ModeState`, `Emulator` | the output scanner and the screen it serves | `host` |
| `StreamFrames` | the stream's framing | `host` |
| `AgentLaunch` | installation and start of an agent | `host` |

`HostProofs` holds the theorems about `PaneHost`, `PaneSnapshots`, `TerminalGc`,
`DaemonSupervisor` and `AgentStatus`, `RepoProofs` those about `Missions`, `Worktrees`,
`SourceSync` and `ProjectConfig`. `MC...` modules give the constants their values.
`MCHistoryStore`, `MCSessionRegistry`, `MCHost` and `MCRepo` put parts that share no state
into one run: the variable `part` says which of them moves in a behaviour, and the others
stand still, so each part has its own state space and no product is explored. In
`MCSessionRegistry`, which has fairness, the part that stands still has no call, reader or
kill under way, so none of its fair actions is enabled and its fairness asks for nothing.

What each module keeps and leaves out:

* **HistoryStore** has the three files (`meta`, `cp`, `log`), an image of each that has
  certainly reached the platter (`dmeta`, `dcp`, `dlog`), the writer `w`, and the one disk
  operation in progress (`pc`, `op`). A persist is several steps, and `Crash` is possible
  between any two; `PowerLoss` reverts or cuts what was not fsynced. `Restore` is
  `detect_cold_restore` with its two ways (`RestoreFromLog`, `RestoreFromCheckpoint`), an
  operator of the files alone, so a property of `Restore` in every state is a property of
  every crash. Chunks of output are numbered. Left out: Resize records, the dirty protocol
  and closes while a persist is in flight (both are Checkpointer's), the `u32` wrap of the
  generation.
* **Checkpointer** has the registry (`entries`, `dirty`, `permit`), the loop (`loop`,
  `todo`, `ver`), a `job` per persisting task, the in-flight guards, and per session the
  reader's position in `tee` and `mark_dirty`. `disk[s]` is the set of chunks of `s` that a
  restore would find; `dir[i]` says whose directory the path of id `i` names. A close is
  one step here and two in SessionRegistry.
* **SessionRegistry** has the slot, the callers' positions in `createOrAttach`, numbered
  sessions with child, `alive` flag and reader position, and the history as far as
  ownership goes. A kill is taken to end the child's reader eventually; ProducerGate looks
  at that.
* **ProducerGate** has the gate, the sleeping failsafe threads with the generation each
  captured, the reader, the kill RPC and its watchdog, and the mutex of `Session.child`.
  Kernel and child are external.
* **DaemonClient** has the client's connection state, its pending requests, `known_alive`,
  `producer_paused`, owed resumes and cold cache, one record per calling task, and per
  connection the messages under way on both sockets and the daemon's end of them. The
  daemon's sessions are a set. Faults are resets, desyncs, timeouts and daemon deaths.
* **PaneHost** has the reader, the emulator's and the coalescer's counts, the flusher, the
  snapshot whose sequence number is read before its content, the stream, and the pane with
  its gate and held frames; `painted` has one piece for each write to the renderer. The
  degraded snapshot (ring tail) is left out.
* **InputWriter** has the calls in their two waiting phases, the queue with its byte count,
  the writer thread and the completion slots. `IC` instantiates `InputChannel` WITH the
  requests, arrivals and answers; queue, slots and deadlines are hidden.
* **PaneSnapshots** has the shell's output and directory, the frames in flight, the mirror,
  the clear command's stages, the file with its truncation, and the store's lock.
* **TerminalGc** has one action for each thing the collector reads (the layouts, the
  registry, the client gauge, the session list, the directories, the history folders, the
  directories and the layouts again), and for each of its acts: reaping, pruning, every
  single kill, the sweep and every single removal of a folder. Panes, sessions, folders,
  directories and a second app change between any two. A session that is cold-restored into
  its folder leaves it as old as it was until the first checkpoint. A read of one kind is
  one step also where it is several system calls; the removals of the files of the stale
  worktrees are one act that may stop half-way.
* **DaemonSupervisor** numbers daemon processes; the three files hold the number of the
  daemon that wrote them. One app runs at a time.
* **AgentStatus** has processes as a pid with a start time, the pane whose key each carries,
  claims, events under way and the badges shown.
* **Missions** has the store file, directories, worktrees, git's view of them, the lock and
  a job per command, which begins with its first read (under the lock, but for a list); a
  call that is refused changes nothing. A command that reads config.json while it is cut short finds no
  project. A `missions.json` that cannot be read, which the code takes for an empty store,
  is left out. **ProjectConfig** has the file as a load reads it, the repositories on
  disk, commands in progress and saves between truncation and write; a reorder arrives with
  any permutation, and unlisted folders are found in any order. **Worktrees** has
  branches, worktrees and stacked parents, with git calls that fail before or after their
  effect, saves that fail, and an undo each step of which may fail. A save that fails
  leaves the file as it was; one that leaves it cut short is ProjectConfig's. **SourceSync** has edits, the stash list and refreshes that hold a stash and a
  place in the list.
* **ModeState** has the scanner's automaton over classes of bytes; **Emulator** feeds it
  chunk by chunk and compares with `vt`, the external vt100 parser, for which chunks make no
  difference. vt100 has no cap on a sequence and the scanner has one, behind which it gives
  up tracking (`mode_state.rs:26`): a behaviour ends when a sequence is that long
  (`Abandoned`). The kitty keyboard flags are a stack; a snapshot carries only its top, and
  the title, beside the payload, and not the saved cursor (`emulator.rs:40`). The kitty
  forms that set or clear single bits are left out.
* **StreamFrames** has frames as cells, so that a payload may look like a header.
* **AgentLaunch** has what each place of the PATH holds, the files of the installation with
  their torn states, the chain of binaries in the environment and the user's arguments.

## 3. Runs

All runs have bounds on what the environment does: chunks, failures, closes, calls.
`CHECK_DEADLOCK FALSE` is set everywhere: the daemon may be down, the app idle and the
bounded environment finished.

### Expected to pass

* `history`: three chunks (the least that can have a hole), a ring and a pending buffer of
  one, so the ring wraps and the buffer overflows; two checkpoints, two incarnations, one
  clear, one failing disk operation or one power loss; crashes at will. `PairingInv`: a log is only ever replayed on
  the checkpoint it continues. `AckedRecoverable`: what a persist reported written
  survives. `IdleRestoreExact`: and nothing else comes back. `NoHole`: no chunk is missing
  from the middle. `OneIncarnation`: a reused id never replays the previous session. The
  collector (two panes of two sessions in one worktree, each with or without a layout and
  an old folder from before): `GcSparesLive`, what it reaps, kills and removes is not in
  use. Two panes are enough for one to be in the collector's copy and the other to be
  opened or reopened behind it. About five million states, two minutes.
* `checkpointer_flush`: one session with two chunks, the tick, a flush of a disconnect and
  one of a shutdown, a close, one failing write. `NoSplice`: no drained record leaves a
  hole. `NeverRolledBack`: no late write takes files back. `NoLostWakeup`: the loop never
  parks on dirt without a notification under way.
* `checkpointer_tick`: two sessions with ids of their own, no flush, one failing write.
  `EventuallyPersisted`: output reaches the disk. `LoopQuiesces`: the loop goes back to
  waiting.
* `registry`: two callers with three calls, a killer and a failing spawn, with or without
  history left behind by a crashed daemon. `OneLivePty`, `LiveIsReachable`, `CallsReturn`,
  `DeadIsReaped`. Input (two writers with two writes each, sizes below and above the
  queue's room): `OrderedChannel`, the refinement of `InputChannel`; `WritesReturn`.
* `gate`: three pauses, two resumes, three reads' worth of output, a kill, and a child that
  may close its terminal. `PauseTakesHold`, `PausedIsArmed`, `FailsafeEndsOwnPause`: three
  pauses are the least at which a failsafe can be two pauses late. `ParkedReaderWakes`,
  `KillEndsInExit`.
* `client`: two interchangeable callers, one session, two connections, one fault, one
  death. `OneClaimOneExit`: every `on_exit` removed an entry of `known_alive`.
  `PendingHasOwner`: a pending request has a connection that will answer or reject it.
  `SubscriberKept`: an old stream's end leaves a newer subscriber alone.
* `client_ends`: `RequestsEnd`, every request ends without its deadline. No symmetry here,
  since it is a liveness property.
* `host`, part by part. Pane (three chunks, a coalescer that holds two): `NothingLost`,
  `ExitedNotRegistered`. Supervisor (three daemons, two versions): `UsedIsFound`,
  `SessionsKept`. Agent (two panes, one pid used twice, two events): `NewestEventShows`,
  `BadgeIsReal`. Snapshots (two worktrees, two tasks): `SnapshotsKept`. Emulator (any
  output over one of three alphabets, in any chunks, with a tail cap of four):
  `SnapshotRestores`. Frames (ids and payloads up to and beyond the caps, payloads that
  look like headers, any pieces): `FramesArrive`. Launch (PATHs of up to four places, up to
  three arguments, with and without a launcher and an installation in progress):
  `AgentStarts`.
* `repo`, part by part. Configuration (two spellings of one repository, two commands):
  `OneEntryPerSource`. Missions (one mission, two projects of which one is registered
  later, two callers with any commands): `MissionsKept`, what was promised stays in
  `missions.json`. Worktrees (two names, two threads, a repository with or without an older
  branch that blocks one of the names): `FailedAddUndone`. Refresh (two edits, two
  refreshes, three stashes): `LocalWorkKept`. The two commands are interchangeable; the one
  temporal property, `LocalWorkKept`, is an action property, so the symmetry is sound.
  About four million states, two minutes and a half.

### Expected to be violated

Each states what a comment of the code says and shows a behaviour that contradicts it; the
lines are under `findings`.

* `client_exit`: `resync` computes who is gone from a session list that is older than
  `known_alive`, and reports a session dead that another caller has just created.
* `registry_clobber`: a dying session closes the history of its id after a successor has
  registered its own.
* `mission_dirs`: `load_missions` sweeps directories without the lock and removes the one
  that a `create_mission` has made and not yet saved.

### Other statements of the code that its model refutes

These definitions stand in their modules under the heading "Not kept by the code". TLC
finds a counterexample for each; no run is spent on them.

* `HistoryStore!ByteExactReplay` (`history.rs:800`): a full checkpoint does not drain the
  pending output, and a cold restore replays it twice. `FlushFailureKeepsAcks`
  (`checkpointer.rs:350`): `flush_all` ignores a checkpoint whose log reset failed, and
  later appends are acknowledged but never replayed.
* `Checkpointer!EventuallyPersisted` with a flusher: the `dirty.clear()` that ends a flush
  erases marks made during it; the chunk waits for the next output (`session.rs:416`).
* `ProducerGate!KillAlwaysEnds` (`session.rs:787`): a child that closes its terminal and
  runs on makes the reader wait with the child's mutex held, and the kill waits for it.
* `PaneHost!EarlyExitHonored` (`pty.rs:238`): the `Exit` frame of a session that this
  `createOrAttach` spawned is read before the answer; `dispatch_frame` finds it in no
  `known_alive` (`client.rs:1076`, filled only at `764`) and drops it, and the dead pane is
  registered, where the comment says that the exit "is recorded here and honored by
  `open_gate`". Until the collector reaps it the pane cannot be created again.
* `PaneHost!PaintedOnce`: the content of a snapshot may be ahead of its sequence number,
  and the held frame is painted again ("nothing is double-painted").
* `DaemonSupervisor!OnlySessionFreeKilled`: a daemon of another version is replaced with
  its sessions.
* `TerminalGc!LiveHasFolder` (`pty.rs:1666`, "the guard never races a live writer"): a
  session is cold-restored in its old folder after the collector has asked the daemon for
  its sessions; the collector finds the folder old, reads layouts that are being saved as
  none at all, and removes the live session's folder.
* `Missions!CleanupSparesAdds` (`mission.rs:119`, "cannot clobber a project a concurrent
  add committed"): `load_missions` reads config.json while a save has cut it short
  (`config.rs:284`, `302`), so it knows no project, and the cleanup under the lock takes
  out of `missions.json` what an add has committed after the unlocked read.
* `ProjectConfig!ListedKeepsRepo`: a failing clone's clean-up, or the removal of a project,
  removes the directory that an overlapping command has listed.
* `Worktrees!CleanUpSparesOthers`: the clean-up of a failed stacked add removes a worktree
  of that name which another command has added since.
* `Emulator!RegionNotInAlt`: the preamble emits a scroll region in front of an alternate
  screen ("It is never emitted in alt").
* `AgentLaunch!NeverInALoop` (`tool_hooks.rs:489`, "exec'd in a loop"): without
  `grove-agent` the shim and a copy of it on the PATH run each other for ever
  (`tool_hooks.rs:512` looks for another directory, not for the marker). A version manager
  in place of the copy does the same.
* `AgentLaunch!AgentStartsInside`: an agent started by another agent inherits the binaries
  its parent's chain has run and skips them ("The user always gets their agent").

Two more are visible in the modules without a definition of their own:
`clear_scrollback` says that the daemon's history and the pane's mirror "can never
disagree" (`pty.rs:1282`), but frames in flight are appended to the mirror before and after
it is cleared; and `install_claude_plugin` says that a racing launch never sees a
half-written hooks file (`tool_hooks.rs:373`), which does not hold for a second
installation, where the manifest of the first is still there.

### Exceptions the passing properties make

* `AckedRecoverable` and `IdleRestoreExact` except a log cut right behind a Batch frame
  (`TornLog`): `decode_log` then gives up the whole log, though `history.rs:428` says a torn
  final frame stops at the last complete one. They also except the failed flush above
  (`orphaned`), and a `meta.json` that is unreadable because a crash came between its
  truncation and its rewriting (`history.rs:263`).
* `NoHole` excepts output between a session's first checkpoint and `enable_history`
  (`gapped`): `register_history` registers first and enables afterwards.
* `NeverRolledBack` is about a session whose directory stays its own.
* `DeadIsReaped` excepts a session whose child and reader have ended before
  `createOrAttach` publishes it. It stays in the map until the id is used again.
* `KillEndsInExit` excepts a child that stays detached from its terminal.
* `ExitedNotRegistered` excepts the pane of a session that its own call spawned and whose
  `Exit` overtook the answer (`EarlyExitHonored`). A `createOrAttach` that is repeated
  after one that spawned the session and then failed attaches to a session that is not in
  `known_alive` either, and its `Exit` is dropped in the same way.
* `GcSparesLive` excepts the folder of a session that was reopened in it after the daemon
  was asked (`LiveHasFolder`). That a pane opened after the registry was copied loses its
  session when its worktree's directory is gone, as the code intends, is no exception: the
  second part is about sessions that were on the screen when the collection began.
* `MissionsKept` excepts members of a project that a list had not seen in config.json when
  it took them out: the file was cut short (`CleanupSparesAdds`), or the project was registered
  and added after the list had read the file. The git calls and directory removals of a
  removal may fail unnoticed; the property is about `missions.json`.
* `FailedAddUndone` is about an add that no other command and no git command of the user
  overlaps. What stays behind is what the undo's own step for it failed to remove; the code
  ignores those failures (`git_project.rs:1573`, `1581`, `1587`), and a branch that stays
  refuses the name from then on.
* `SnapshotRestores` is about output before a sequence too long to park, and about what the
  snapshot sends: the normal screen, the modes, the parked bytes, title and top kitty flags.
  A restored program that pops the kitty stack or restores the saved cursor does not get
  what it had, as `emulator.rs:40` and `267` say.
* `NothingLost` excepts what the coalescer's cap drops.
* `SnapshotsKept` excepts a file that the app's death cut short; later loads and saves
  refuse it.
* `LocalWorkKept` sets two windows apart: a stash made or dropped between the lookup of a
  stash's place and the drop, and an edit made between a stopped rebase and its abort.
* `AgentStarts` excepts a shim that is being rewritten at that moment; a missing launcher
  with a copy of the shim or a version manager on the PATH (`NeverInALoop`); version managers
  that stay on the PATH and are as many as the depth cap, of which one is then run again
  and runs itself by name for ever, though `resolve.rs:16` says it always terminates; and
  an agent inside an agent (`AgentStartsInside`).

Small things that the models leave out and no property rests on: in DaemonClient a
session's `Exit` frame and its removal from the map are one step (`session.rs:957` and
`968`); in ProducerGate the failsafe's thread always starts, where the code ignores a
failing spawn (`session.rs:731`), after which only a resume, a kill or a disconnect ends
the pause; in DaemonSupervisor a signal from outside is a death, without the clean-up a
SIGTERM would get.

### Fairness

Weak fairness of what runs by itself: a thread or task that is in the middle of something
goes on (the reader in `tee` and in its teardown, a call, a persist, a flush, a kill, the
watchdog, the tasks and readers of a connection), the loop's timer and the failsafes fire,
and a signalled child dies. A waiting input call ends when its slot is filled or its
deadline passes; the terminal owes it nothing. In `client_ends` the daemon serves what has
arrived and a broken connection's readers notice it; deadlines have no fairness, so no
request is ended by its timeout. The environment owes nothing: output, exits, calls, kills,
pauses, resumes, flushes and closes have no fairness. The `WaitPending` poll of a call
needs only weak fairness because the reservation it waits for is given up and the bounded
calls cannot take it for ever; with endless callers the code gives no order among the
pollers.

## 4. Proofs

TLAPS proves, for every value of the constants that satisfies the named assumptions
(bounds are naturals, capacities are positive where the code's are, `IdOf` maps sessions
to ids):

* `HistoryStoreProofs!TypeCorrect`, `[]TypeOK`; and `PairingHolds`, `[]PairingInv`.
  The pairing of the written files is not inductive: a restart may find any mix of written
  and durable files, and a new checkpoint takes the number after the one its writer knows.
  `PairingIInv` therefore says that each pair of images is paired (`AllPaired`), that no
  image of the log is ahead of a writer that has resolved it (`WriterAhead`), that a
  writer which has not yet resolved the log finds it as it is on the platter
  (`UnresolvedIsDurable`), and where the operation in progress stands (`Progress`).
* `HistoryStoreProofs!RestoresOneIncarnation`, `[]OneIncarnation`, rests on `PairingIInv`:
  a log is replayed only on the checkpoint it continues. `OneInv` adds that what the
  session and the operation in progress hold is of this incarnation (`MemoryIsNew`); that
  no file is from the future, and a checkpoint about to be renamed has a number no log has
  (`Ages`); that each checkpoint image with each log image that continues it lies on one
  side of `epoch`, and above the floor of every meta image the checkpoint is not older
  than (`AllOfOne`); and that a writer that appends made its log and the checkpoint under
  it itself (`OwnLog`). All images are needed, since a power loss picks one of each file.
* `HistoryStoreProofs!AckedOutputRecoverable` and `RestoreIsExact`, `[]AckedRecoverable`
  and `[]IdleRestoreExact`, from `AckInv` over the two invariants above. It compares what
  checkpoint and log give back (`Kept`) with what persists reported as written: the same
  while a writer is registered and the log is not being restarted (`Exact`), and always no
  less than what was not wiped since (`Safe`). An append keeps this only if the writer's
  log decodes and its byte count is the log's (`SureLog`); a power loss, only if the
  checkpoint is durable and of this session (`OwnCheckpoint`) and a Clear takes nothing
  away but what was wiped or comes again behind it, be the Clear still pending, drained
  (`Clears`), or the last thing in any prefix of the log that the loss may leave
  (`LogClears`). `Buffers` and `Sessions` say what is buffered and what `meta.json` holds
  at each step. The lemmas below it say that replaying one sequence of frames behind
  another is replaying the second over what the first leaves (`ReplayedJoined`), that the
  byte counts add up (`BytesJoined`, `DecodesGrown`), and that a part of a batch leaves
  the log torn (`BatchTears`).
* `HistoryStoreProofs!NoHoleInRestore`, `[]NoHole`, from `HoleInv` over all of the above.
  A persist drains the pending output, builds the checkpoint and writes at different
  moments, so a chunk may be both in a checkpoint and in the log behind it; what must not
  happen is a chunk that is in neither. `Chain(s, a, b)` says that `s` continues what ends
  at chunk `a` without a hole and brings it to `b`, and chains compose (`ChainJoined`). The
  invariant: ring and pending output end with the newest chunk (`SessionLinked`); the
  pending output continues a checkpoint being written (`CheckpointLinked`); what a writer
  will append, and the pending output behind it, continue its log, unless the tick has
  dropped something and is on its way to a full checkpoint (`LogLinked`); each image of
  the checkpoint is linked to each image of a log that continues it (`FilesLinked`); and
  after an ignored failure the log is not the checkpoint's (`Estranged`), or the appends
  that go on there would be a hole.
* `CheckpointerProofs!TypeCorrect`, from `TypeInv`: the types, and that a task in the
  middle of a persist has a session (`JobsHaveSessions`), without which its write would
  have no target. `WakeupNotLost`, `[]NoLostWakeup`, is inductive with the types: only
  two steps can make something dirty, and each leaves a permit or a reader about to
  notify; only `TickEnd` parks the loop, and it looks at the map first.
* `CheckpointerProofs!NothingSpliced` and `DiskNeverRolledBack`, `[]NoSplice` and
  `NeverRolledBack`, under the hypothesis `IdsOwn`: no id is used by two sessions. (With
  reuse a tick can hold the writer of a directory that a close has removed and a successor
  has made anew, see the hazard at `checkpointer.rs:277`, and neither property holds.) Both
  rest on `DiskInv`. The in-flight guard makes a session's persist exclusive
  (`Exclusive`), so what a persist has read of a session is not overtaken by another one:
  a checkpoint about to be written has every chunk that is not pending (`FullsHaveAll`), the drained records
  continue what is on disk (`AppendFits`), and a chunk that is neither on disk nor pending
  is with the persist that drained it, or the next persist is a full one
  (`NothingDropped`). The last one is fix F5: without the forced anchor after a failed
  append it breaks.
* `SessionRegistryProofs!AtMostOneLivePty` and `LiveSessionIsReachable`, from `MapInv`:
  at most one call is between reservation and publication and the slot is `Pending` for as
  long (`Exclusive`); a live session's reader still reads (`LiveIsRead`), so it neither
  closes nor reaps; and a live session is in the slot or in such a call's hands. Two live
  sessions would have to share the slot or the reservation.
* `ProducerGateProofs!PauseStaysArmed` and `FailsafeIsCancelled`, from `GateInv`: no
  failsafe holds a generation above the current one, and one that holds the current
  generation of a pause is that of the latest pause (`ArmedBehind`). `PauseHolds`,
  `[]PauseTakesHold`, from `OneReadLeft`: a reader past the gate of a paused producer has
  not read since the pause; the one that has is before the gate.
* `InputWriterProofs!WriterImplementsChannel`: `InputSpec` implies `OrderedChannel`, the
  refinement of `InputChannel`. A call that begins maps to `Began`, bytes that land to
  `Arrives`, a call that returns to `Answers`; every other step maps to a stutter. That
  needs `InputInv`: a job still waiting for room is nowhere but with its caller, a queued
  one is queued once, unseen by the writer thread, and is the one its caller waits for
  (`QueuedOnce`), the job being written is not older than what arrived of its caller
  (`WritesInOrder`), and an ok in a slot means that the bytes are there (`OkArrived`). A
  deadline that withdraws a job is the step where an invariant about the queue alone fails.
* `DaemonClientProofs!OneClaimOneExitTheorem` is inductive with the types of its counters:
  the `Exit` frame and the resync report through the same removal. `SubscriberKeptTheorem`
  from `HubInv`: the subscriber is a stream that runs, and no stream is ahead of the last
  connection's number. `PendingHasOwnerTheorem` from `PendingInv`: only the holder of
  `connect_lock` connects, and it found no connection (`OneConnects`), so a connection
  never replaces one whose teardown has not begun.
* `HostProofs!SnapshotsKeptTheorem` from `SnapshotInv`: only the task with the store's lock
  is at the file, and what it is about to write is what the last update left with its own
  worktree's change (`OwnChangeOnly`). `GcSparesLiveTheorem` from `GcInv`: what makes stale
  copies harmless is that a pane of the copy cannot be opened again (`CopyOpened`), that an
  attached one was at the daemon when it was asked (`AttachedWasListed`), and that a session
  the daemon got later has a young folder or was reopened (`NewIsYoung`), so that the
  folders found old and planned for removal are of dead or reopened sessions (`FoldersDead`). `UsedIsFoundTheorem` and
  `SessionsKeptTheorem` from `SupervisorInv`: daemons do not overlap (`OneLives`,
  `PredecessorGone`), so files removed by name are one's own (`FilesAreOwn`), and each
  stage on the way to a kill carries its reason (`EndedForReason`). `ExitedNotRegisteredTheorem` from
  `PaneInv`: an `Exit` that was read has found its session in `known_alive` (`KnownAlive`) and
  is recorded in the closed gate or has taken the pane out (`ExitRecorded`), or it has overtaken the answer of a call that
  spawned the session.
  `NothingLostTheorem` from `FlowInv`, which follows the chunks' numbers from the reader to
  the screen: the coalescer's batch and the pending output continue what was sent
  (`FlowCounts`), the frames on the stream are adjacent and start at a chunk `n`, the held
  ones span `g` to `n` with `g` not after the snapshot's sequence number, and what is
  painted has no gap and shows all of `1..n` (`Flow`). A snapshot counts its chunks before
  it reads them, so its content may be ahead of its number but never behind, and cutting
  the held frames at that number leaves no gap.
  `NewestEventShowsTheorem` and `BadgeIsRealTheorem`: a claim has the phase of the newest of
  its events that was delivered, and what a badge shows was confirmed in the same step that
  changed it.
* `RepoProofs!MissionsKeptTheorem` from `MissionInv`: a command between load and save holds
  the lock (`WriterHoldsLock`), and its copy holds everything promised but what it was asked
  to remove or a list had stripped (`CommandsFit`); a list's save takes out a promised member
  only if its project is one that the list missed (`ListsCount`). `FailedAddUndoneTheorem` from
  `WorktreeInv`: how much of a stacked add that nobody overlapped is there at each of its
  stages, but for what a step of the undo failed to take away (`FailuresUndone`).
  `LocalWorkKeptTheorem` from `SyncInv`: a stash's number tells it apart (`Numbered`), the
  edits of an applied stash are in the tree or in a stash no drop to come is about
  (`AppliedKept`), and the place a refresh has found still is its stash's (`SelectorRight`);
  the last two outside of the property's two windows. `OneEntryPerSourceTheorem` from
  `ConfigInv`: not only the file but every copy that a command may still save lists each
  folder and each id once (`CopiesListed`), and a repository is in the folder of its URL
  (`OwnFolder`). Reconciliation, removal and reordering pick distinct places of a copy, and
  what they add has new ids and folders that are not listed; the one thing assumed of the
  constants beyond types is that there are finitely many folders.

TLC checked each inductive invariant on a run's instance before it was proved.

Only model-checked:

* the liveness properties, which are out of the prover's reach;
* `SnapshotRestores`, `FramesArrive` and `AgentStarts`: a scanner, a decoder and a
  resolution that walk their input, which needs induction over data as well.

The violation runs show counterexamples and need no proof.

## 5. What is not modelled, and the plan

Next, in order of importance:

1. Splitting `tee` and `clear_history` into their locks in HistoryStore; the degraded
   snapshot in PaneHost.
2. Two apps that start together in DaemonSupervisor.
3. `whip`'s task store and life cycle, `irclib`'s inbox files.

Not modelled: `git_diff.rs` (parsing of git's text), file and process utilities, resize and
geometry, preferences and layouts of the configuration, the shells and the frontend, and
the small tools; their entries in `PROJECT.json` say why.
