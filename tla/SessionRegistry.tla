---------------------------- MODULE SessionRegistry -----------------------------
(***************************************************************************)
(* The life of one session id in grove-daemon: createOrAttach calls that   *)
(* race for the id's slot of the session map, the PTYs they spawn, the     *)
(* reader threads that tear a session down when its child exits, and kill  *)
(* RPCs.  The map lock is held for one step at a time; between two steps   *)
(* of a call or of a teardown everything else may run.                     *)
(*                                                                         *)
(* Sessions are numbered in the order they are spawned; 0 is no session,   *)
(* and the predecessor a crashed daemon may have left on disk.             *)
(***************************************************************************)
EXTENDS Naturals, FiniteSets

CONSTANTS
    Callers,        \* tasks that call createOrAttach
    Killers,        \* tasks that call kill
    MaxCalls,       \* bound: createOrAttach calls
    MaxSpawnFails   \* bound: spawns that fail

ASSUME BoundsAssumption == MaxCalls \in Nat /\ MaxSpawnFails \in Nat

VARIABLES
    slot,      \* Daemon.sessions[id]
    call,      \* where a createOrAttach call stands
    mine,      \* the session a call has spawned
    cold,      \* a call's cold-restore probe found history
    kills,     \* where a kill RPC stands
    victim,    \* the session a kill RPC signals
    spawned,   \* sessions spawned so far
    child,     \* the child process of a session
    alive,     \* Session.alive
    rd,        \* where a session's reader thread stands
    exits,     \* sessions whose Exit frame was emitted
    reg,       \* the session the checkpointer has registered for the id
    owner,     \* the session whose writer holds the flock of the id's directory
    dir,       \* the id's history directory
    kept,      \* ghost: sessions whose register_history succeeded
    ncalls, nfails

server  == <<slot, call, mine, cold, kills, victim>>
session == <<spawned, child, alive, rd, exits>>
history == <<reg, owner, dir, kept>>
vars    == <<server, session, history, ncalls, nfails>>

Sessions == 1 .. MaxCalls
NoSlot   == [st |-> "none", s |-> 0]
Pending  == [st |-> "pending", s |-> 0]
Live(s)  == [st |-> "live", s |-> s]
Slots    == [st : {"none", "pending", "live"}, s : Nat]

\* The directory, by what its meta.json says, and the session whose content it holds.
Dirs  == [meta : {"no dir", "none", "unclean", "ended"}, of : Nat]
NoDir == [meta |-> "no dir", of |-> 0]
LeftBehind == [meta |-> "unclean", of |-> 0]
DirThere == dir.meta # "no dir"

Init ==
    /\ slot = NoSlot
    /\ call = [c \in Callers |-> "idle"] /\ mine = [c \in Callers |-> 0]
    /\ cold = [c \in Callers |-> FALSE]
    /\ kills = [k \in Killers |-> "idle"] /\ victim = [k \in Killers |-> 0]
    /\ spawned = 0
    /\ child = [s \in Sessions |-> "none"] /\ alive = [s \in Sessions |-> FALSE]
    /\ rd = [s \in Sessions |-> "none"] /\ exits = {}
    /\ reg = 0 /\ owner = 0 /\ dir \in {NoDir, LeftBehind} /\ kept = {}
    /\ ncalls = 0 /\ nfails = 0

(***************************************************************************)
(* createOrAttach                                                          *)
(***************************************************************************)
CallArrives(c) ==
    /\ call[c] = "idle" /\ ncalls < MaxCalls
    /\ ncalls' = ncalls + 1
    /\ call' = [call EXCEPT ![c] = "resolve"]
    /\ UNCHANGED <<slot, mine, cold, kills, victim, session, history, nfails>>

\* Mutant: a reservation is not respected.
ResolveIgnoresPending(c) ==
    /\ call[c] = "resolve"
    /\ IF slot.st = "live" /\ alive[slot.s]
         THEN call' = [call EXCEPT ![c] = "attach"] /\ slot' = slot
         ELSE call' = [call EXCEPT ![c] = "probe"] /\ slot' = Pending
    /\ UNCHANGED <<mine, cold, kills, victim, session, history, ncalls, nfails>>
\* The decision under the map lock: attach to a live session, wait while the id is
\* reserved (the call stays where it is and looks again), else reserve it.
Resolve(c) ==
    /\ call[c] = "resolve" /\ slot.st # "pending"
    /\ IF slot.st = "live" /\ alive[slot.s]
         THEN call' = [call EXCEPT ![c] = "attach"] /\ slot' = slot
         ELSE call' = [call EXCEPT ![c] = "probe"] /\ slot' = Pending
    /\ UNCHANGED <<mine, cold, kills, victim, session, history, ncalls, nfails>>

\* The session is looked up again; the snapshot, or session_not_found.
Attach(c) ==
    /\ call[c] = "attach"
    /\ call' = [call EXCEPT ![c] = "idle"]
    /\ UNCHANGED <<slot, mine, cold, kills, victim, session, history, ncalls, nfails>>

\* The owner lock is tried; a directory that is there, free and not ended is restored.
Probe(c) ==
    /\ call[c] = "probe"
    /\ cold' = [cold EXCEPT ![c] = owner = 0 /\ dir.meta = "unclean"]
    /\ call' = [call EXCEPT ![c] = "spawn"]
    /\ UNCHANGED <<slot, mine, kills, victim, session, history, ncalls, nfails>>

SpawnPty(c) ==
    /\ call[c] = "spawn" /\ spawned < MaxCalls
    /\ spawned' = spawned + 1
    /\ mine' = [mine EXCEPT ![c] = spawned + 1]
    /\ child' = [child EXCEPT ![spawned + 1] = "running"]
    /\ alive' = [alive EXCEPT ![spawned + 1] = TRUE]
    /\ rd' = [rd EXCEPT ![spawned + 1] = "read"]
    /\ call' = [call EXCEPT ![c] = "open"]
    /\ UNCHANGED <<slot, cold, kills, victim, exits, history, ncalls, nfails>>

\* Mutant: the reservation is not released.
SpawnFailsKeepsPending(c) ==
    /\ call[c] = "spawn" /\ nfails < MaxSpawnFails
    /\ nfails' = nfails + 1
    /\ call' = [call EXCEPT ![c] = "idle"]
    /\ UNCHANGED <<slot, mine, cold, kills, victim, session, history, ncalls>>
SpawnFails(c) ==
    /\ call[c] = "spawn" /\ nfails < MaxSpawnFails
    /\ nfails' = nfails + 1
    /\ slot' = NoSlot
    /\ call' = [call EXCEPT ![c] = "idle"]
    /\ UNCHANGED <<mine, cold, kills, victim, session, history, ncalls>>

\* register_history opens the writer: open_session unlinks what the directory holds,
\* reopen_session keeps it and clears ended_at, if there is a meta.json.  A held lock
\* leaves the session without history.
OpenWriter(c) ==
    /\ call[c] = "open"
    /\ IF DirThere /\ owner # 0
         THEN call' = [call EXCEPT ![c] = "publish"] /\ UNCHANGED <<owner, dir>>
         ELSE /\ call' = [call EXCEPT ![c] = "register"]
              /\ owner' = mine[c]
              /\ dir' = IF ~cold[c] THEN [meta |-> "unclean", of |-> mine[c]]
                        ELSE IF dir.meta \in {"unclean", "ended"} THEN [dir EXCEPT !.meta = "unclean"]
                        ELSE [meta |-> "none", of |-> mine[c]]
    /\ UNCHANGED <<slot, mine, cold, kills, victim, session, reg, kept, ncalls, nfails>>

Register(c) ==
    /\ call[c] = "register"
    /\ reg' = mine[c]
    /\ kept' = kept \cup {mine[c]}
    /\ call' = [call EXCEPT ![c] = "publish"]
    /\ UNCHANGED <<slot, mine, cold, kills, victim, session, owner, dir, ncalls, nfails>>

\* The map entry is written whether or not the session is still alive.
Publish(c) ==
    /\ call[c] = "publish"
    /\ slot' = Live(mine[c])
    /\ mine' = [mine EXCEPT ![c] = 0] /\ cold' = [cold EXCEPT ![c] = FALSE]
    /\ call' = [call EXCEPT ![c] = "idle"]
    /\ UNCHANGED <<kills, victim, session, history, ncalls, nfails>>

Serve(c) ==
    \/ Resolve(c) \/ Attach(c) \/ Probe(c) \/ SpawnPty(c) \/ SpawnFails(c)
    \/ OpenWriter(c) \/ Register(c) \/ Publish(c)

(***************************************************************************)
(* close_session of the checkpointer: by id, in two parts                  *)
(***************************************************************************)
\* The entry is removed, ended_at stamped and the writer dropped, with its flock.
Deregister ==
    /\ reg' = 0
    /\ owner' = IF reg # 0 /\ owner = reg THEN 0 ELSE owner
    /\ dir' = IF reg # 0 /\ dir.meta = "unclean" THEN [dir EXCEPT !.meta = "ended"] ELSE dir

\* remove_dir_all, which takes the lock file along.
RemoveDir == dir' = NoDir /\ owner' = 0

(***************************************************************************)
(* The child and the reader thread of session s: run_reader's end          *)
(***************************************************************************)
ChildExits(s) ==
    /\ child[s] = "running"
    /\ child' = [child EXCEPT ![s] = "exited"]
    /\ UNCHANGED <<server, spawned, alive, rd, exits, history, ncalls, nfails>>

ReadEof(s) ==
    /\ rd[s] = "read" /\ child[s] = "exited"
    /\ alive' = [alive EXCEPT ![s] = FALSE]
    /\ rd' = [rd EXCEPT ![s] = "exit"]
    /\ UNCHANGED <<server, spawned, child, exits, history, ncalls, nfails>>

EmitExit(s) ==
    /\ rd[s] = "exit"
    /\ exits' = exits \cup {s}
    /\ rd' = [rd EXCEPT ![s] = "close"]
    /\ UNCHANGED <<server, spawned, child, alive, history, ncalls, nfails>>

CloseHistory(s) ==
    /\ rd[s] = "close"
    /\ Deregister
    /\ rd' = [rd EXCEPT ![s] = "rmdir"]
    /\ UNCHANGED <<server, spawned, child, alive, exits, kept, ncalls, nfails>>

RemoveHistory(s) ==
    /\ rd[s] = "rmdir"
    /\ RemoveDir
    /\ rd' = [rd EXCEPT ![s] = "reap"]
    /\ UNCHANGED <<server, spawned, child, alive, exits, reg, kept, ncalls, nfails>>

\* Mutant: the slot is freed whoever is in it.
ReapById(s) ==
    /\ rd[s] = "reap"
    /\ slot' = IF slot.st = "live" THEN NoSlot ELSE slot
    /\ rd' = [rd EXCEPT ![s] = "done"]
    /\ UNCHANGED <<call, mine, cold, kills, victim, spawned, child, alive, exits, history,
                   ncalls, nfails>>
\* Mutant: the slot is left to the next createOrAttach.
ReapNever(s) ==
    /\ rd[s] = "reap"
    /\ rd' = [rd EXCEPT ![s] = "done"]
    /\ UNCHANGED <<server, spawned, child, alive, exits, history, ncalls, nfails>>
\* SessionReaper::reap.
Reap(s) ==
    /\ rd[s] = "reap"
    /\ slot' = IF slot = Live(s) THEN NoSlot ELSE slot
    /\ rd' = [rd EXCEPT ![s] = "done"]
    /\ UNCHANGED <<call, mine, cold, kills, victim, spawned, child, alive, exits, history,
                   ncalls, nfails>>

Reader(s) ==
    ReadEof(s) \/ EmitExit(s) \/ CloseHistory(s) \/ RemoveHistory(s) \/ Reap(s)

(***************************************************************************)
(* kill                                                                    *)
(***************************************************************************)
KillArrives(k) ==
    /\ kills[k] = "idle"
    /\ victim' = [victim EXCEPT ![k] = slot.s]
    /\ kills' = [kills EXCEPT ![k] = IF slot.st = "live" THEN "signal" ELSE "close"]
    /\ UNCHANGED <<slot, call, mine, cold, session, history, ncalls, nfails>>

\* Session::kill.  A child that outlives the signal loses its terminal to the
\* watchdog, which ends its reader all the same.
KillChild(k) ==
    /\ kills[k] = "signal"
    /\ child' = [child EXCEPT ![victim[k]] = "exited"]
    /\ kills' = [kills EXCEPT ![k] = "close"]
    /\ UNCHANGED <<slot, call, mine, cold, victim, spawned, alive, rd, exits, history,
                   ncalls, nfails>>

KillCloses(k) ==
    /\ kills[k] = "close"
    /\ Deregister
    /\ kills' = [kills EXCEPT ![k] = "rmdir"]
    /\ UNCHANGED <<slot, call, mine, cold, victim, session, kept, ncalls, nfails>>

KillRemovesDir(k) ==
    /\ kills[k] = "rmdir"
    /\ RemoveDir
    /\ kills' = [kills EXCEPT ![k] = "done"]
    /\ UNCHANGED <<slot, call, mine, cold, victim, session, reg, kept, ncalls, nfails>>

Kill(k) == KillChild(k) \/ KillCloses(k) \/ KillRemovesDir(k)

Next ==
    \/ \E c \in Callers : CallArrives(c) \/ Serve(c)
    \/ \E s \in Sessions : ChildExits(s) \/ Reader(s)
    \/ \E k \in Killers : KillArrives(k) \/ Kill(k)

\* A call, a teardown or a kill that has begun goes on; children exit, and calls and
\* kills arrive, or not.
Fairness ==
    /\ \A c \in Callers : WF_vars(Serve(c))
    /\ \A s \in Sessions : WF_vars(Reader(s))
    /\ \A k \in Killers : WF_vars(Kill(k))

Spec == Init /\ [][Next]_vars /\ Fairness

(***************************************************************************)
(* Properties                                                              *)
(***************************************************************************)
\* Types of the map entry, the calls, the sessions and the history.
TypeOK ==
    /\ slot \in Slots
    /\ call \in [Callers -> {"idle", "resolve", "attach", "probe", "spawn", "open",
                             "register", "publish"}]
    /\ mine \in [Callers -> Nat] /\ cold \in [Callers -> BOOLEAN]
    /\ kills \in [Killers -> {"idle", "signal", "close", "rmdir", "done"}]
    /\ victim \in [Killers -> Nat]
    /\ spawned \in Nat
    /\ child \in [Sessions -> {"none", "running", "exited"}]
    /\ alive \in [Sessions -> BOOLEAN]
    /\ rd \in [Sessions -> {"none", "read", "exit", "close", "rmdir", "reap", "done"}]
    /\ exits \subseteq Sessions
    /\ reg \in Nat /\ owner \in Nat /\ dir \in Dirs /\ kept \subseteq Nat
    /\ ncalls \in Nat /\ nfails \in Nat

\* One PTY per id (fix #4): however calls, exits and takeovers interleave, an id never
\* has two sessions alive.
OneLivePty == \A s, t \in Sessions : alive[s] /\ alive[t] => s = t

\* Where a call holds the id's reservation, and where it has spawned as well.
Reserving == {"probe", "spawn", "open", "register", "publish"}
Spawning == {"open", "register", "publish"}

\* A live session can be found (fix #3): it is in the map, or the call that spawned it
\* is about to put it there; no reap and no takeover ever drops it, or the shell would
\* run on where no attach and no kill reaches it.
LiveIsReachable ==
    \A s \in Sessions : alive[s] =>
        slot = Live(s) \/ \E c \in Callers : mine[c] = s /\ call[c] \in Spawning

\* A call is answered: the reservation a caller waits for is always given up, by a
\* publication or a failed spawn.
CallsReturn == \A c \in Callers : call[c] = "resolve" ~> call[c] = "idle"

\* A dead session leaves the map (fix #3): one that is in the map when its child exits
\* and its reader still has to end does not stay there.  A session that was published
\* after its reader had ended is excepted: nobody reaps it but the next call.
DeadIsReaped ==
    \A s \in Sessions :
        (slot = Live(s) /\ ~alive[s] /\ rd[s] # "done") ~> slot # Live(s)

\* The successor is not clobbered (run_reader, reap): a live session whose history was
\* registered keeps it until somebody asks for its end.
SuccessorKeepsHistory ==
    \A s \in Sessions :
        alive[s] /\ slot = Live(s) /\ s \in kept => reg = s /\ owner = s /\ DirThere
================================================================================
