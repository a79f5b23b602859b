--------------------------- MODULE PaneSnapshots ----------------------------
(***************************************************************************)
(* What the host keeps of its panes to restore them: the mirror of a       *)
(* pane's output and its working directory (pty.rs), and the file          *)
(* terminal-session-snapshots.json with one snapshot per worktree          *)
(* (config.rs).  Saves, removals and loads run as concurrent tasks of one  *)
(* process; a save awaits the daemon between reading a pane and writing    *)
(* the file, and writing is a truncation and a write.                      *)
(*                                                                         *)
(* LiveTree is the worktree with a pane on the screen; panes of the others *)
(* have no PTY.  Output is the chunks 1, 2, ... of the pane's shell; what  *)
(* the daemon holds of it is `ring'.  A directory is a number, 0 for none. *)
(***************************************************************************)
EXTENDS Integers, Sequences, FiniteSetsExt

CONSTANTS SnapWorktrees, LiveTree, SnapTasks,
          MaxPrints,    \* chunks the shell prints
          MirrorCap,    \* MAX_SCROLLBACK_BYTES, in chunks
          MaxMoves      \* changes of the shell's directory

ASSUME SnapshotAssumption ==
  /\ LiveTree \in SnapWorktrees /\ {MaxPrints, MirrorCap, MaxMoves} \subseteq Nat
  /\ "free" \notin SnapTasks

VARIABLES
  printed, ring, cwd,  \* the shell's output, what the daemon holds of it, its OSC 7 directory
  inflight,  \* frames on their way to the host
  clear,     \* where clear_scrollback is: "idle", "asked", "done" at the daemon
  mirror,    \* the registry's entry of the pane
  file,      \* the snapshot file
  storeLock, \* the task that holds terminal_session_snapshot_store_lock, or "free"
  saver,     \* saver[t]: where a command is, and what it holds
  last       \* ghost: per worktree, what the last finished update asked for

shellVars == <<printed, ring, cwd, inflight>>
snapshotVars == <<shellVars, clear, mirror, file, storeLock, saver, last>>

NoSnapshot == [some |-> FALSE, text |-> <<>>, cwd |-> 0]
NoMirror == [on |-> FALSE, text |-> <<>>, cwd |-> 0]
Command(at, op, w, snap) == [at |-> at, op |-> op, wt |-> w, snap |-> snap, store |-> <<>>]
Asleep == Command("idle", "none", LiveTree, NoSnapshot)

\* The newest output up to the cap.
Capped(text) == SubSeq(text, Len(text) - Min({Len(text), MirrorCap}) + 1, Len(text))

\* Two processes that wrote at once leave one's store with the other's tail behind it.
SnapshotInit ==
  /\ printed = 0 /\ ring = <<>> /\ cwd = 0 /\ inflight = <<>> /\ clear = "idle"
  /\ mirror = NoMirror
  /\ file \in [kind : {"whole", "trailing"}, store : {[w \in SnapWorktrees |-> NoSnapshot]}]
  /\ storeLock = "free" /\ saver = [t \in SnapTasks |-> Asleep] /\ last = file.store

-----------------------------------------------------------------------------
(* The pane                                                                *)

Prints ==
  /\ printed < MaxPrints
  /\ printed' = printed + 1
  /\ ring' = Append(ring, printed') /\ inflight' = Append(inflight, printed')
  /\ UNCHANGED <<cwd, clear, mirror, file, storeLock, saver, last>>

ChangeDirectory ==
  /\ cwd < MaxMoves /\ cwd' = cwd + 1
  /\ UNCHANGED <<printed, ring, inflight, clear, mirror, file, storeLock, saver, last>>

\* create adopts the session: the mirror is seeded with what the daemon holds, frames
\* that are part of it are dropped, and no directory is cached yet.
AttachPane ==
  /\ ~mirror.on
  /\ mirror' = [on |-> TRUE, text |-> Capped(ring), cwd |-> 0]
  /\ inflight' = <<>>
  /\ UNCHANGED <<printed, ring, cwd, clear, file, storeLock, saver, last>>

Ingest ==
  /\ inflight # <<>> /\ inflight' = Tail(inflight)
  /\ mirror' = [mirror EXCEPT !.text = IF mirror.on THEN Capped(Append(@, Head(inflight))) ELSE @]
  /\ UNCHANGED <<printed, ring, cwd, clear, file, storeLock, saver, last>>

\* clear_scrollback: the daemon first; the mirror when the daemon has answered.  A call
\* that fails, before or behind the daemon's clear, leaves the mirror.
AskClear ==
  /\ clear = "idle" /\ mirror.on /\ clear' = "asked"
  /\ UNCHANGED <<shellVars, mirror, file, storeLock, saver, last>>

DaemonClears ==
  /\ clear = "asked"
  /\ \/ ring' = <<>> /\ clear' \in {"done", "idle"}
     \/ clear' = "idle" /\ UNCHANGED ring
  /\ UNCHANGED <<printed, cwd, inflight, mirror, file, storeLock, saver, last>>

MirrorClears ==
  /\ clear = "done" /\ clear' = "idle"
  /\ mirror' = IF mirror.on THEN [mirror EXCEPT !.text = <<>>] ELSE mirror
  /\ UNCHANGED <<shellVars, file, storeLock, saver, last>>

-----------------------------------------------------------------------------
(* Saving a snapshot                                                       *)

Goes(t, at) == saver' = [saver EXCEPT ![t].at = at]
GoesWith(t, at, store) == saver' = [saver EXCEPT ![t].at = at, ![t].store = store]

\* save_terminal_session_snapshot with panes: the runtime state of a registered pane is
\* copied; a pane without one has its launch directory only.
BeginSave(t, w) ==
  /\ saver[t].at = "idle"
  /\ saver' = [saver EXCEPT ![t] =
       IF w = LiveTree /\ mirror.on
       THEN Command("cwd", "save", w, [some |-> TRUE, text |-> mirror.text, cwd |-> mirror.cwd])
       ELSE Command("lock", "save", w, [NoSnapshot EXCEPT !.some = TRUE])]
  /\ UNCHANGED <<shellVars, clear, mirror, file, storeLock, last>>

\* daemon_session_cwd: the daemon's answer, or none on any failure; the cached directory
\* stands in for it.
AskCwd(t) ==
  /\ saver[t].at = "cwd"
  /\ \E answer \in {0, cwd} :
       saver' = [saver EXCEPT ![t].at = "cache", ![t].snap.cwd = IF answer = 0 THEN @ ELSE answer]
  /\ UNCHANGED <<shellVars, clear, mirror, file, storeLock, last>>

CacheCwd(t) ==
  /\ saver[t].at = "cache"
  /\ mirror' = IF mirror.on /\ saver[t].snap.cwd # 0
               THEN [mirror EXCEPT !.cwd = saver[t].snap.cwd] ELSE mirror
  /\ Goes(t, "lock")
  /\ UNCHANGED <<shellVars, clear, file, storeLock, last>>

\* A save without panes, a removed worktree, the collector: the worktree's entry goes.
BeginRemove(t, w) ==
  /\ saver[t].at = "idle"
  /\ saver' = [saver EXCEPT ![t] = Command("lock", "remove", w, NoSnapshot)]
  /\ UNCHANGED <<shellVars, clear, mirror, file, storeLock, last>>

BeginLoad(t) ==
  /\ saver[t].at = "idle"
  /\ saver' = [saver EXCEPT ![t] = Command("lock", "load", LiveTree, NoSnapshot)]
  /\ UNCHANGED <<shellVars, clear, mirror, file, storeLock, last>>

-----------------------------------------------------------------------------
(* The file                                                                *)

\* Mutant: an update does not wait for the one that holds the lock.
LockStoreShared(t) ==
  /\ saver[t].at = "lock"
  /\ storeLock' = t /\ Goes(t, "load")
  /\ UNCHANGED <<shellVars, clear, mirror, file, last>>

LockStore(t) ==
  /\ saver[t].at = "lock" /\ storeLock = "free"
  /\ storeLock' = t /\ Goes(t, "load")
  /\ UNCHANGED <<shellVars, clear, mirror, file, last>>

Gives(t) == storeLock' = "free" /\ saver' = [saver EXCEPT ![t] = Asleep]

\* What is written back once the store is loaded.
Updated(t, store) ==
  IF saver[t].op = "load" THEN store ELSE [store EXCEPT ![saver[t].wt] = saver[t].snap]

\* A store with a tail behind it is written back first; an empty file cannot be parsed,
\* and ends the command, whichever it is.
LoadStore(t) ==
  /\ saver[t].at = "load"
  /\ \/ /\ file.kind = "whole" /\ saver[t].op = "load" /\ Gives(t)
     \/ /\ file.kind = "whole" /\ saver[t].op # "load" /\ UNCHANGED storeLock
        /\ GoesWith(t, "truncate", Updated(t, file.store))
     \/ /\ file.kind = "trailing" /\ UNCHANGED storeLock
        /\ GoesWith(t, "recover", file.store)
     \/ file.kind = "empty" /\ Gives(t)
  /\ UNCHANGED <<shellVars, clear, mirror, file, last>>

\* save_json_file: fs::write truncates the file and then writes it; it may fail before.
Truncates(t, from, to) ==
  /\ saver[t].at = from
  /\ \/ file' = [file EXCEPT !.kind = "empty"] /\ Goes(t, to) /\ UNCHANGED storeLock
     \/ Gives(t) /\ UNCHANGED file
  /\ UNCHANGED <<shellVars, clear, mirror, last>>

RecoverTruncates(t) == Truncates(t, "recover", "rewrite")

RecoverWrites(t) ==
  /\ saver[t].at = "rewrite"
  /\ file' = [kind |-> "whole", store |-> saver[t].store]
  /\ IF saver[t].op = "load" THEN Gives(t)
     ELSE GoesWith(t, "truncate", Updated(t, saver[t].store)) /\ UNCHANGED storeLock
  /\ UNCHANGED <<shellVars, clear, mirror, last>>

SaveTruncatesStore(t) == Truncates(t, "truncate", "write")

SaveWritesStore(t) ==
  /\ saver[t].at = "write"
  /\ file' = [kind |-> "whole", store |-> saver[t].store]
  /\ last' = [last EXCEPT ![saver[t].wt] = saver[t].snap]
  /\ Gives(t)
  /\ UNCHANGED <<shellVars, clear, mirror>>

\* The app dies; the daemon and the file stay as they are.
AppDies ==
  /\ saver' = [t \in SnapTasks |-> Asleep] /\ storeLock' = "free"
  /\ mirror' = NoMirror /\ inflight' = <<>> /\ clear' = "idle"
  /\ UNCHANGED <<printed, ring, cwd, file, last>>

SnapshotNext ==
  \/ Prints \/ ChangeDirectory \/ AttachPane \/ Ingest
  \/ AskClear \/ DaemonClears \/ MirrorClears \/ AppDies
  \/ \E t \in SnapTasks :
       \/ \E w \in SnapWorktrees : BeginSave(t, w) \/ BeginRemove(t, w)
       \/ BeginLoad(t) \/ AskCwd(t) \/ CacheCwd(t)
       \/ LockStore(t) \/ LoadStore(t) \/ RecoverTruncates(t) \/ RecoverWrites(t)
       \/ SaveTruncatesStore(t) \/ SaveWritesStore(t)

SnapshotSpec == SnapshotInit /\ [][SnapshotNext]_snapshotVars

-----------------------------------------------------------------------------
(* Properties                                                              *)

\* A saved snapshot stays until its own worktree is saved again or removed, whatever
\* other worktrees' saves, removals and recovering loads run beside it: every update works
\* on the store as the last one left it, and a load that repairs the file loses none.
\* (A file cut short by the app's death is unreadable from then on.)
SnapshotsKept == storeLock = "free" /\ file.kind # "empty" => file.store = last
=============================================================================
