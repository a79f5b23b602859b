------------------------------ MODULE Checkpointer ------------------------------
(***************************************************************************)
(* The dirty protocol of checkpointer.rs: the reader threads that mark a   *)
(* session dirty, the run loop that ticks while anything is dirty, and the *)
(* flushes of a client disconnect, of checkpointAll and of shutdown, all   *)
(* persisting sessions through handles cloned out of the registry.         *)
(*                                                                         *)
(* A chunk stands for any record a session logs.  What a file of the       *)
(* session directory holds is HistoryStore's subject; here disk[s] is the  *)
(* set of chunks of s a restore would find.                                *)
(***************************************************************************)
EXTENDS Naturals, FiniteSets

CONSTANTS
    Sessions,    \* session objects (Arc<Session>), each with its own HistoryWriter
    Ids,         \* session ids, the keys of the registry and the directory names
    IdOf,        \* the id of a session; a reused id has several sessions
    NoSession,
    Tick,        \* the run loop's task
    Flushers,    \* tasks that call flush_all
    Stoppers,    \* those of them that go on to shutdown_all
    PendingMax,  \* PENDING_OUTPUT_MAX_BYTES, in chunks
    MaxOut,      \* bound: chunks per session
    MaxCloses,   \* bound: calls of close_session from outside
    MaxFails     \* bound: failing disk operations

ASSUME ConstantsAssumption ==
    /\ IdOf \in [Sessions -> Ids]
    /\ NoSession \notin Sessions /\ Tick \notin Flushers /\ Stoppers \subseteq Flushers
    /\ PendingMax \in Nat /\ MaxOut \in Nat /\ MaxCloses \in Nat /\ MaxFails \in Nat

VARIABLES
    entries,   \* Checkpointer.sessions: the session registered under an id
    dirty,     \* Checkpointer.dirty: version per id, 0 when the id is not in the map
    permit,    \* dirty_notify holds a permit
    loop,      \* where run stands
    todo,      \* ids and versions the current tick has still to visit
    ver,       \* the version the tick read for the session it persists
    job,       \* the persist a task is in
    handles,   \* sessions a flush_all has cloned and not yet persisted
    inflight,  \* which task holds a session's in-flight guard
    closing,   \* ids a shutdown_all has still to close
    opened,    \* where createOrAttach stands with a session
    alive,     \* Session.alive
    rd,        \* where a session's reader thread stands in tee
    out,       \* chunks in a session's ring
    pend,      \* Session.pending: chunks
    over,      \* Session.pending: overflowed
    quiet,     \* ghost: chunks that the tee did not log, history being off
    anchor,    \* HistoryWriter.needs_full_anchor
    disk,      \* chunks of a session that its files hold
    dir,       \* whose directory an id's path names, NoSession when there is none
    closes,    \* calls of close_session from outside so far
    fails,     \* failed disk operations so far
    down       \* trigger_shutdown was called

registry == <<entries, dirty, permit>>
runloop  == <<loop, todo, ver>>
tasks    == <<job, handles, inflight, closing>>
sessions == <<opened, alive, rd, out, pend, over, quiet>>
files    == <<anchor, disk, dir>>
vars     == <<registry, runloop, tasks, sessions, files, closes, fails, down>>

Tasks == Flushers \cup {Tick}
NoJob == [pc |-> "off", h |-> NoSession, recs |-> {}, hi |-> 0, res |-> "ok"]
Jobs  == [pc : {"off", "next", "begin", "rebuild", "full", "append", "finish", "stop"},
          h : Sessions \cup {NoSession}, recs : SUBSET Nat, hi : Nat,
          res : {"ok", "retry", "disabled"}]

Init ==
    /\ entries = [i \in Ids |-> NoSession] /\ dirty = [i \in Ids |-> 0] /\ permit = FALSE
    /\ loop = "parked" /\ todo = {} /\ ver = 0
    /\ job = [p \in Tasks |-> NoJob] /\ handles = [f \in Flushers |-> {}]
    /\ inflight = [s \in Sessions |-> FALSE] /\ closing = {}
    /\ opened = [s \in Sessions |-> "none"] /\ alive = [s \in Sessions |-> FALSE]
    /\ rd = [s \in Sessions |-> "idle"] /\ out = [s \in Sessions |-> 0]
    /\ pend = [s \in Sessions |-> {}] /\ over = [s \in Sessions |-> FALSE]
    /\ quiet = [s \in Sessions |-> {}]
    /\ anchor = [s \in Sessions |-> TRUE] /\ disk = [s \in Sessions |-> {}]
    /\ dir = [i \in Ids |-> NoSession]
    /\ closes = 0 /\ fails = 0 /\ down = FALSE

(***************************************************************************)
(* createOrAttach's winner: spawn, open a writer, register, enable         *)
(***************************************************************************)
\* The Pending reservation admits one spawner per id, and only when the id's
\* previous session is dead.
Spawn(s) ==
    /\ opened[s] = "none"
    /\ \A t \in Sessions \ {s} : IdOf[t] = IdOf[s] =>
          ~alive[t] /\ opened[t] \in {"none", "enabled", "plain"}
    /\ opened' = [opened EXCEPT ![s] = "spawned"]
    /\ alive' = [alive EXCEPT ![s] = TRUE]
    /\ UNCHANGED <<registry, runloop, tasks, rd, out, pend, over, quiet, files,
                   closes, fails, down>>

\* A writer lives, and with it its flock, while anything refers to it.
WriterHeld(s) ==
    \/ entries[IdOf[s]] = s \/ opened[s] = "locked"
    \/ \E p \in Tasks : job[p].h = s
    \/ \E f \in Flushers : s \in handles[f]

\* HistoryWriter::open_session.  The lock is on the file, so a directory that was
\* removed and made again is free whoever held the old one.
OpenSession(s) ==
    /\ opened[s] = "spawned"
    /\ IF dir[IdOf[s]] # NoSession /\ WriterHeld(dir[IdOf[s]])
         THEN opened' = [opened EXCEPT ![s] = "plain"] /\ UNCHANGED files
         ELSE /\ opened' = [opened EXCEPT ![s] = "locked"]
              /\ dir' = [dir EXCEPT ![IdOf[s]] = s]
              /\ UNCHANGED <<anchor, disk>>
    /\ UNCHANGED <<registry, runloop, tasks, alive, rd, out, pend, over, quiet,
                   closes, fails, down>>

InsertEntry(s) ==
    /\ opened[s] = "locked"
    /\ opened' = [opened EXCEPT ![s] = "inserted"]
    /\ entries' = [entries EXCEPT ![IdOf[s]] = s]
    /\ UNCHANGED <<dirty, permit, runloop, tasks, alive, rd, out, pend, over, quiet,
                   files, closes, fails, down>>

\* mark_dirty, as the opener calls it.
MarkOpened(s) ==
    /\ opened[s] = "inserted"
    /\ opened' = [opened EXCEPT ![s] = "marked"]
    /\ IF entries[IdOf[s]] = NoSession
         THEN UNCHANGED <<dirty, permit>>
         ELSE /\ dirty' = [dirty EXCEPT ![IdOf[s]] = @ + 1]
              /\ permit' = TRUE
    /\ UNCHANGED <<entries, runloop, tasks, alive, rd, out, pend, over, quiet,
                   files, closes, fails, down>>

EnableHistory(s) ==
    /\ opened[s] = "marked"
    /\ opened' = [opened EXCEPT ![s] = "enabled"]
    /\ UNCHANGED <<registry, runloop, tasks, alive, rd, out, pend, over, quiet,
                   files, closes, fails, down>>

(***************************************************************************)
(* A session's reader thread: Session::tee and mark_dirty                  *)
(***************************************************************************)
TeeRing(s) ==
    /\ alive[s] /\ rd[s] = "idle" /\ out[s] < MaxOut
    /\ out' = [out EXCEPT ![s] = @ + 1]
    /\ rd' = [rd EXCEPT ![s] = "fed"]
    /\ UNCHANGED <<registry, runloop, tasks, opened, alive, pend, over, quiet,
                   files, closes, fails, down>>

\* push_output, when history is enabled.
TeePush(s) ==
    /\ rd[s] = "fed"
    /\ IF opened[s] # "enabled"
         THEN /\ rd' = [rd EXCEPT ![s] = "idle"]
              /\ quiet' = [quiet EXCEPT ![s] = @ \cup {out[s]}]
              /\ UNCHANGED <<pend, over>>
         ELSE /\ rd' = [rd EXCEPT ![s] = "pushed"]
              /\ LET full == over[s] \/ Cardinality(pend[s]) + 1 > PendingMax
                 IN /\ over' = [over EXCEPT ![s] = full]
                    /\ pend' = [pend EXCEPT ![s] = IF full THEN {} ELSE @ \cup {out[s]}]
              /\ UNCHANGED quiet
    /\ UNCHANGED <<registry, runloop, tasks, opened, alive, out, files, closes, fails, down>>

\* mark_dirty looks the id up under one lock and bumps its version under another.
MarkDirtyCheck(s) ==
    /\ rd[s] = "pushed"
    /\ rd' = [rd EXCEPT ![s] = IF entries[IdOf[s]] = NoSession THEN "idle" ELSE "bump"]
    /\ UNCHANGED <<registry, runloop, tasks, opened, alive, out, pend, over, quiet,
                   files, closes, fails, down>>

MarkDirtyBump(s) ==
    /\ rd[s] = "bump"
    /\ rd' = [rd EXCEPT ![s] = "notify"]
    /\ dirty' = [dirty EXCEPT ![IdOf[s]] = @ + 1]
    /\ UNCHANGED <<entries, permit, runloop, tasks, opened, alive, out, pend, over, quiet,
                   files, closes, fails, down>>

MarkDirtyNotify(s) ==
    /\ rd[s] = "notify"
    /\ rd' = [rd EXCEPT ![s] = "idle"]
    /\ permit' = TRUE
    /\ UNCHANGED <<entries, dirty, runloop, tasks, opened, alive, out, pend, over, quiet,
                   files, closes, fails, down>>

\* The child exits and the reader thread ends; what it does then to the registry
\* is a Close.
Exit(s) ==
    /\ alive[s] /\ rd[s] = "idle"
    /\ alive' = [alive EXCEPT ![s] = FALSE]
    /\ UNCHANGED <<registry, runloop, tasks, opened, rd, out, pend, over, quiet,
                   files, closes, fails, down>>

(***************************************************************************)
(* close_session                                                           *)
(***************************************************************************)
RemoveEntry(i) ==
    /\ entries' = [entries EXCEPT ![i] = NoSession]
    /\ dirty' = [dirty EXCEPT ![i] = 0]

\* The kill RPC and the end of a reader thread close by id, at any time.
Close(i) ==
    /\ closes < MaxCloses
    /\ closes' = closes + 1
    /\ RemoveEntry(i)
    /\ dir' = [dir EXCEPT ![i] = NoSession]
    /\ UNCHANGED <<permit, runloop, tasks, sessions, anchor, disk, fails, down>>

(***************************************************************************)
(* persist, by the task p that holds the in-flight guard of job[p].h       *)
(***************************************************************************)
Target(p) == job[p].h
IdFor(p)  == IdOf[job[p].h]

Acquire(p, s) ==
    /\ ~inflight[s]
    /\ inflight' = [inflight EXCEPT ![s] = TRUE]
    /\ job' = [job EXCEPT ![p] = [NoJob EXCEPT !.pc = "begin", !.h = s]]

ToFull(p) == job' = [job EXCEPT ![p] = [@ EXCEPT !.pc = "full", !.hi = out[Target(p)]]]
ToAppend(p, recs) == job' = [job EXCEPT ![p] = [@ EXCEPT !.pc = "append", !.recs = recs]]
Done(p, r) == job' = [job EXCEPT ![p] = [@ EXCEPT !.pc = "finish", !.res = r]]

\* The choice between a full checkpoint and an increment, with take_pending.
PersistBegin(p) ==
    /\ job[p].pc = "begin"
    /\ LET s == Target(p)
           forced == p \in Flushers \/ anchor[s]
       IN /\ IF forced \/ over[s] THEN ToFull(p)
             ELSE IF pend[s] = {} THEN Done(p, "ok")
             ELSE ToAppend(p, pend[s])
          /\ pend' = IF forced THEN pend ELSE [pend EXCEPT ![s] = {}]
          /\ over' = IF forced THEN over ELSE [over EXCEPT ![s] = FALSE]
    /\ UNCHANGED <<registry, runloop, handles, inflight, closing, opened, alive, rd, out,
                   quiet, files, closes, fails, down>>

\* The full checkpoint that follows NeedsCheckpoint is built from a later ring.
Rebuild(p) ==
    /\ job[p].pc = "rebuild"
    /\ ToFull(p)
    /\ UNCHANGED <<registry, runloop, handles, inflight, closing, sessions, files,
                   closes, fails, down>>

\* A write goes to the path: into the directory that is there, if any.
DirThere(p) == dir[IdFor(p)] # NoSession
DirOwn(p)   == dir[IdFor(p)] = Target(p)
WriteFails(fit) == IF fit THEN fails < MaxFails /\ fails' = fails + 1 ELSE fails' = fails

\* HistoryWriter::checkpoint.  A writer whose directory was taken over replaces the
\* checkpoint of the session that owns it now.
WriteFull(p) ==
    /\ job[p].pc = "full" /\ DirThere(p)
    /\ Done(p, "ok")
    /\ disk' = [disk EXCEPT ![dir[IdFor(p)]] =
                   IF DirOwn(p) THEN 1 .. job[p].hi ELSE {}]
    /\ anchor' = [anchor EXCEPT ![Target(p)] = FALSE]
    /\ UNCHANGED <<registry, runloop, handles, inflight, closing, sessions, dir,
                   closes, fails, down>>

WriteFullFails(p) ==
    /\ job[p].pc = "full" /\ WriteFails(DirThere(p))
    /\ Done(p, "disabled")
    /\ UNCHANGED <<registry, runloop, handles, inflight, closing, sessions, files,
                   closes, down>>

\* HistoryWriter::append_increments: appended, or nothing written at the log's cap.  A
\* batch appended to another session's log does not fit its sequence numbers, and what
\* that log held is lost to the reader; where there is no log yet the append fails.
WriteAppend(p) ==
    /\ job[p].pc = "append" /\ DirThere(p)
    /\ Done(p, "ok")
    /\ \E kept \in SUBSET disk[dir[IdFor(p)]] :
          /\ DirOwn(p) => kept = disk[Target(p)]
          /\ disk' = [disk EXCEPT ![dir[IdFor(p)]] =
                         IF DirOwn(p) THEN kept \cup job[p].recs ELSE kept]
    /\ UNCHANGED <<registry, runloop, handles, inflight, closing, sessions, anchor, dir,
                   closes, fails, down>>

WriteAppendCapped(p) ==
    /\ job[p].pc = "append"
    /\ job' = [job EXCEPT ![p] = [@ EXCEPT !.pc = "rebuild"]]
    /\ UNCHANGED <<registry, runloop, handles, inflight, closing, sessions, files,
                   closes, fails, down>>

\* Mutant: the failed append is retried as an append.
WriteAppendFailsNoAnchor(p) ==
    /\ job[p].pc = "append" /\ WriteFails(DirOwn(p))
    /\ Done(p, "retry")
    /\ UNCHANGED <<registry, runloop, handles, inflight, closing, sessions, files,
                   closes, down>>
\* on_append_failure: the drained records are gone, so the next persist is full.
WriteAppendFails(p) ==
    /\ job[p].pc = "append" /\ WriteFails(DirOwn(p))
    /\ Done(p, "retry")
    /\ anchor' = [anchor EXCEPT ![Target(p)] = TRUE]
    /\ UNCHANGED <<registry, runloop, handles, inflight, closing, sessions, disk, dir,
                   closes, down>>

Persist(p) ==
    \/ PersistBegin(p) \/ Rebuild(p) \/ WriteFull(p) \/ WriteFullFails(p)
    \/ WriteAppend(p) \/ WriteAppendCapped(p) \/ WriteAppendFails(p)

(***************************************************************************)
(* run and tick                                                            *)
(***************************************************************************)
Wake ==
    /\ loop = "parked" /\ permit
    /\ loop' = "sleep" /\ permit' = FALSE
    /\ UNCHANGED <<entries, dirty, todo, ver, tasks, sessions, files, closes, fails, down>>

DirtyIds == {i \in Ids : dirty[i] # 0}

\* The interval has passed: dirty_snapshot.
TickStart ==
    /\ loop = "sleep"
    /\ loop' = "pass" /\ todo' = {<<i, dirty[i]>> : i \in DirtyIds}
    /\ UNCHANGED <<registry, ver, tasks, sessions, files, closes, fails, down>>

Ticking == loop = "pass" /\ job[Tick].pc = "off"

\* Mutant: an id that is no longer registered stays in the map.
TickUnregisteredKept(iv) ==
    /\ Ticking /\ iv \in todo /\ entries[iv[1]] = NoSession
    /\ todo' = todo \ {iv}
    /\ UNCHANGED <<registry, loop, ver, tasks, sessions, files, closes, fails, down>>
TickUnregistered(iv) ==
    /\ Ticking /\ iv \in todo /\ entries[iv[1]] = NoSession
    /\ todo' = todo \ {iv}
    /\ dirty' = [dirty EXCEPT ![iv[1]] = 0]
    /\ UNCHANGED <<entries, permit, loop, ver, tasks, sessions, files, closes, fails, down>>

\* A write is in flight: this session is left for the next pass.
TickBusy(iv) ==
    /\ Ticking /\ iv \in todo /\ entries[iv[1]] # NoSession
    /\ inflight[entries[iv[1]]]
    /\ todo' = todo \ {iv}
    /\ UNCHANGED <<registry, loop, ver, tasks, sessions, files, closes, fails, down>>

TickSession(iv) ==
    /\ Ticking /\ iv \in todo /\ entries[iv[1]] # NoSession
    /\ Acquire(Tick, entries[iv[1]])
    /\ todo' = todo \ {iv} /\ ver' = iv[2]
    /\ UNCHANGED <<registry, loop, handles, closing, sessions, files, closes, fails, down>>

\* The outcome of the persist: clear_dirty_if_unchanged, keep dirty, or
\* remove_session, which goes by id.
TickFinish ==
    /\ job[Tick].pc = "finish"
    /\ LET i == IdFor(Tick)
       IN CASE job[Tick].res = "ok" ->
                 /\ dirty' = IF dirty[i] = ver THEN [dirty EXCEPT ![i] = 0] ELSE dirty
                 /\ entries' = entries
            [] job[Tick].res = "retry" -> UNCHANGED <<dirty, entries>>
            [] job[Tick].res = "disabled" -> RemoveEntry(i)
    /\ inflight' = [inflight EXCEPT ![Target(Tick)] = FALSE]
    /\ job' = [job EXCEPT ![Tick] = NoJob]
    /\ UNCHANGED <<permit, runloop, handles, closing, sessions, files, closes, fails, down>>

\* Mutant: the loop parks after every pass.
TickEndParks ==
    /\ Ticking /\ todo = {}
    /\ loop' = "parked"
    /\ UNCHANGED <<registry, todo, ver, tasks, sessions, files, closes, fails, down>>
TickEnd ==
    /\ Ticking /\ todo = {}
    /\ loop' = IF DirtyIds = {} THEN "parked" ELSE "sleep"
    /\ UNCHANGED <<registry, todo, ver, tasks, sessions, files, closes, fails, down>>

Loop ==
    \/ Wake \/ TickStart \/ TickFinish \/ TickEnd
    \/ \E iv \in todo : TickUnregistered(iv) \/ TickBusy(iv) \/ TickSession(iv)

(***************************************************************************)
(* flush_all and shutdown_all                                              *)
(***************************************************************************)
FlushStart(f) ==
    /\ job[f].pc = "off" /\ ~down
    /\ job' = [job EXCEPT ![f] = [@ EXCEPT !.pc = "next"]]
    /\ handles' = [handles EXCEPT ![f] = {s \in Sessions : entries[IdOf[s]] = s}]
    /\ UNCHANGED <<registry, runloop, inflight, closing, sessions, files, closes, fails, down>>

\* Mutant: the flush does not wait for the write in flight.
FlushSessionUnguarded(f, s) ==
    /\ job[f].pc = "next" /\ s \in handles[f]
    /\ inflight' = [inflight EXCEPT ![s] = TRUE]
    /\ job' = [job EXCEPT ![f] = [NoJob EXCEPT !.pc = "begin", !.h = s]]
    /\ handles' = [handles EXCEPT ![f] = @ \ {s}]
    /\ UNCHANGED <<registry, runloop, closing, sessions, files, closes, fails, down>>
FlushSession(f, s) ==
    /\ job[f].pc = "next" /\ s \in handles[f]
    /\ Acquire(f, s)
    /\ handles' = [handles EXCEPT ![f] = @ \ {s}]
    /\ UNCHANGED <<registry, runloop, closing, sessions, files, closes, fails, down>>

\* The outcome is not acted on.
FlushFinish(f) ==
    /\ job[f].pc = "finish"
    /\ inflight' = [inflight EXCEPT ![Target(f)] = FALSE]
    /\ job' = [job EXCEPT ![f] = [NoJob EXCEPT !.pc = "next"]]
    /\ UNCHANGED <<registry, runloop, handles, closing, sessions, files, closes, fails, down>>

\* The whole dirty map is cleared; shutdown_all then lists the ids to close.
FlushEnd(f) ==
    /\ job[f].pc = "next" /\ handles[f] = {}
    /\ dirty' = [i \in Ids |-> 0]
    /\ job' = [job EXCEPT ![f] = [NoJob EXCEPT !.pc = IF f \in Stoppers THEN "stop" ELSE "off"]]
    /\ closing' = IF f \in Stoppers THEN {i \in Ids : entries[i] # NoSession} ELSE closing
    /\ UNCHANGED <<entries, permit, runloop, handles, inflight, sessions, files,
                   closes, fails, down>>

StopClose(f, i) ==
    /\ job[f].pc = "stop" /\ i \in closing
    /\ closing' = closing \ {i}
    /\ RemoveEntry(i)
    /\ dir' = [dir EXCEPT ![i] = NoSession]
    /\ UNCHANGED <<permit, runloop, job, handles, inflight, sessions, anchor, disk,
                   closes, fails, down>>

\* trigger_shutdown: notify_waiters reaches the loop only where it waits.
StopEnd(f) ==
    /\ job[f].pc = "stop" /\ closing = {}
    /\ job' = [job EXCEPT ![f] = NoJob]
    /\ down' = TRUE
    /\ loop' = IF loop \in {"parked", "sleep"} THEN "stopped" ELSE loop
    /\ UNCHANGED <<registry, todo, ver, handles, inflight, closing, sessions, files,
                   closes, fails>>

Flush(f) ==
    \/ FlushFinish(f) \/ FlushEnd(f) \/ StopEnd(f)
    \/ \E s \in Sessions : FlushSession(f, s)
    \/ \E i \in Ids : StopClose(f, i)

Reader(s) == TeePush(s) \/ MarkDirtyCheck(s) \/ MarkDirtyBump(s) \/ MarkDirtyNotify(s)
Opener(s) == OpenSession(s) \/ InsertEntry(s) \/ MarkOpened(s) \/ EnableHistory(s)

Next ==
    \/ \E s \in Sessions : Spawn(s) \/ TeeRing(s) \/ Exit(s) \/ Reader(s) \/ Opener(s)
    \/ \E i \in Ids : Close(i)
    \/ \E p \in Tasks : Persist(p)
    \/ Loop
    \/ \E f \in Flushers : FlushStart(f) \/ Flush(f)

\* Threads and tasks that have started something carry on; output, exits, closes,
\* flushes and new sessions come or do not come.
Fairness ==
    /\ \A s \in Sessions : WF_vars(Reader(s)) /\ WF_vars(Opener(s))
    /\ \A p \in Tasks : WF_vars(Persist(p))
    /\ WF_vars(Loop)
    /\ \A f \in Flushers : WF_vars(Flush(f))

Spec == Init /\ [][Next]_vars /\ Fairness

(***************************************************************************)
(* Properties                                                              *)
(***************************************************************************)
\* Types of the registry, the tasks, the sessions and the files.
TypeOK ==
    /\ entries \in [Ids -> Sessions \cup {NoSession}] /\ dirty \in [Ids -> Nat]
    /\ permit \in BOOLEAN
    /\ loop \in {"parked", "sleep", "pass", "stopped"}
    /\ todo \subseteq Ids \X Nat /\ ver \in Nat
    /\ job \in [Tasks -> Jobs] /\ handles \in [Flushers -> SUBSET Sessions]
    /\ inflight \in [Sessions -> BOOLEAN] /\ closing \subseteq Ids
    /\ opened \in [Sessions -> {"none", "spawned", "locked", "inserted", "marked",
                                "enabled", "plain"}]
    /\ alive \in [Sessions -> BOOLEAN]
    /\ rd \in [Sessions -> {"idle", "fed", "pushed", "bump", "notify"}]
    /\ out \in [Sessions -> Nat] /\ pend \in [Sessions -> SUBSET Nat]
    /\ over \in [Sessions -> BOOLEAN] /\ quiet \in [Sessions -> SUBSET Nat]
    /\ anchor \in [Sessions -> BOOLEAN] /\ disk \in [Sessions -> SUBSET Nat]
    /\ dir \in [Ids -> Sessions \cup {NoSession}]
    /\ closes \in Nat /\ fails \in Nat /\ down \in BOOLEAN

\* No lost wake-up (run, mark_dirty): whenever the run loop waits for a
\* notification while something is dirty, a notification is stored or about to be
\* sent by the reader that made it dirty.
NoLostWakeup ==
    loop = "parked" /\ DirtyIds # {} =>
        permit \/ \E s \in Sessions : rd[s] = "notify"

\* While the directory stays a session's own, what it has on disk stays.
KeepsDisk ==
    \A s \in Sessions : dir[IdOf[s]] = s /\ dir'[IdOf[s]] = s => disk[s] \subseteq disk'[s]

\* What a session has on disk is never taken back (the in-flight guard): a write
\* that was begun early and lands late never rolls a session back behind what a
\* tick or a flush has already written, while the directory is its own.
NeverRolledBack == [][KeepsDisk]_vars

\* No splice (fix F5, take_pending, on_append_failure): what is on disk has no hole
\* below its newest chunk, save for chunks that came before history was enabled;
\* whichever of tick and flush drained the records, and whichever failed.
NoSplice ==
    \A s \in Sessions : \A c \in disk[s] : (1 .. c) \ quiet[s] \subseteq disk[s]

\* Logged chunks of a session that its files do not hold yet.
Unsaved(s) == {c \in 1 .. out[s] : c \notin quiet[s] \cup disk[s]}

\* Output gets persisted (tee, fix F2): a chunk logged while its session is
\* registered reaches the disk, without help from later output, unless its child
\* exits, the session is closed, its history is disabled or the daemon is shut down.
EventuallyPersisted ==
    \A s \in Sessions : \A c \in 1 .. MaxOut :
        (entries[IdOf[s]] = s /\ c \in Unsaved(s))
            ~> (c \notin Unsaved(s) \/ entries[IdOf[s]] # s \/ ~alive[s] \/ down)

\* Idle sessions never wake work (run, design D8): once nothing happens any more the
\* loop goes back to waiting, whatever failed, was closed or was never registered.
LoopQuiesces == <>[](loop \in {"parked", "stopped"})
================================================================================
