---------------------------- MODULE DaemonClient ----------------------------
(***************************************************************************)
(* The daemon's client (grove-core/src/daemon/client.rs) and the           *)
(* connection side of the daemon it talks to (grove-daemon/src/server.rs). *)
(*                                                                         *)
(* A connection is two sockets: control (requests, notifies, replies) and  *)
(* stream (frames).  Connections are numbered by the client's generation.  *)
(* Tasks call the client concurrently; a call connects when it has to, and *)
(* the connecting task resyncs what the client believes about sessions.    *)
(* The daemon's sessions are only a set here (SessionRegistry, Checkpointer*)
(* and ProducerGate look inside), and every session has a subscriber.      *)
(***************************************************************************)
EXTENDS Integers, Sequences, FiniteSets, SequencesExt

CONSTANTS Tasks,       \* callers of the client
          Sessions,    \* session ids
          Ops,         \* the operations the callers use
          MaxGen,      \* connections established
          MaxCalls,    \* calls of all tasks together
          MaxOut,      \* Data frames of all sessions together
          MaxDeaths,   \* sessions that exit, all together
          MaxFaults,   \* desyncs, resets, timeouts and daemon deaths
          CacheMax     \* COLD_CACHE_MAX_ENTRIES

Nobody == "nobody"                        \* connect_lock is free

ASSUME ClientAssumption ==
  /\ {MaxGen, MaxCalls, MaxOut, MaxDeaths, MaxFaults} \subseteq Nat
  /\ CacheMax \in Nat \ {0}
  /\ Sessions # {} /\ Nobody \notin Tasks
  /\ Ops \subseteq {"create", "kill", "call", "pause", "resume", "ack"}

Gens == 1..MaxGen
Rpcs == {"create", "kill", "call"}        \* awaited; the others are notifies

VARIABLES
  \* the client
  connected, generation,    \* ConnState and Shared.generation
  connectLock,              \* the task that holds connect_lock
  task,                     \* where each caller is
  pending,                  \* per task: the generation its request is stamped with, 0 for none
  known, paused, owed,      \* known_alive, producer_paused, producer_resumes_owed
  cold,                     \* ColdRestoreCache in insertion order
  sr,                       \* per generation: stream_reader
  teardown,                 \* per generation: how far handle_disconnect is
  \* the sockets
  up, down, frames,         \* per generation: requests, replies, stream frames
  \* the daemon
  ds, hs,                   \* per generation: run_control and run_stream
  hub,                      \* StreamHub: the generation that is subscribed, 0 for none
  live, parked,             \* sessions in the map, and those with a paused producer
  restorable,               \* sessions that a dead daemon left behind on disk
  \* bounds and history
  calls, outs, faults,
  died, exits, claims       \* per session: deaths, on_exit calls, entries into known_alive

conn == <<connected, generation, connectLock>>
beliefs == <<known, paused, owed, cold>>
readers == <<sr, teardown>>
wire == <<up, down, frames>>
daemon == <<ds, hs, hub, live, parked, restorable>>
counts == <<calls, outs, faults>>
history == <<died, exits, claims>>
vars == <<conn, task, pending, beliefs, readers, wire, daemon, counts, history>>

NoReply == [kind |-> "none", listed |-> {}]
Idle == [pc |-> "idle", op |-> "call", s |-> CHOOSE s \in Sessions : TRUE, rid |-> 0,
         got |-> NoReply, gone |-> {}]

PCs == {"idle", "lockwait", "connect", "list", "listing", "gone", "send", "awaiting", "note"}

Init ==
  /\ connected = FALSE /\ generation = 0 /\ connectLock = Nobody
  /\ task = [t \in Tasks |-> Idle] /\ pending = [t \in Tasks |-> 0]
  /\ known = {} /\ paused = {} /\ owed = {} /\ cold = <<>>
  /\ sr = [g \in Gens |-> "none"]
  /\ teardown = [g \in Gens |-> "none"]
  /\ up = [g \in Gens |-> <<>>] /\ down = [g \in Gens |-> <<>>]
  /\ frames = [g \in Gens |-> <<>>]
  /\ ds = [g \in Gens |-> "none"] /\ hs = [g \in Gens |-> "none"] /\ hub = 0
  /\ live \in SUBSET Sessions       \* an earlier app may have left sessions running
  /\ parked = {} /\ restorable = {}
  /\ calls = 0 /\ outs = 0 /\ faults = 0
  /\ died = [s \in Sessions |-> 0] /\ exits = [s \in Sessions |-> 0]
  /\ claims = [s \in Sessions |-> 0]

-----------------------------------------------------------------------------
(* Small pieces of the client                                              *)

At(t, pc) == task[t].pc = pc
Goto(t, pc) == task' = [task EXCEPT ![t].pc = pc, ![t].got = NoReply,
                                    ![t].op = IF pc = "idle" THEN "call" ELSE @]

\* Queued for the control writer of the current connection.
Send(msgs) == up' = [up EXCEPT ![generation] = @ \o msgs]
Note(op, s) == [op |-> op, s |-> s, rid |-> 0]

Believe(S) ==
  /\ known' = known \cup S
  /\ claims' = [s \in Sessions |-> IF s \in S \ known THEN claims[s] + 1 ELSE claims[s]]

\* Mutant: on_exit is called whether or not the id could be claimed.
ClaimExitAlways(s) ==
  /\ known' = known \ {s} /\ paused' = paused \ {s} /\ owed' = owed \ {s}
  /\ exits' = [exits EXCEPT ![s] = @ + 1]

\* Removing the id from known_alive is the claim on its exit: whoever removes it
\* prunes the rest and calls on_exit.
ClaimExit(s) ==
  IF s \in known
  THEN /\ known' = known \ {s} /\ paused' = paused \ {s} /\ owed' = owed \ {s}
       /\ exits' = [exits EXCEPT ![s] = @ + 1]
  ELSE UNCHANGED <<known, paused, owed, exits>>

CacheSet(s) ==
  cold' = IF s \in ToSet(cold) THEN cold
          ELSE LET c == Append(cold, s)
               IN IF Len(c) > CacheMax THEN Tail(c) ELSE c
CacheRemove(s) == cold' = SelectSeq(cold, LAMBDA x : x # s)

\* Where a call goes when its message was queued, or could not be: resume_pty
\* clears its sets whatever happened, pause_pty records only what was queued.
AfterNotify(t, sent) ==
  IF task[t].op = "resume" \/ (task[t].op = "pause" /\ sent) THEN "note" ELSE "idle"

-----------------------------------------------------------------------------
(* Callers: ensure_connected and resync                                    *)

\* An operation starts: a retained cold restore answers createOrAttach by itself;
\* otherwise the call goes on with a live connection or queues for connect_lock.
Begin(t, op, s) ==
  /\ At(t, "idle") /\ calls < MaxCalls
  /\ calls' = calls + 1
  /\ IF op = "create" /\ s \in ToSet(cold)
     THEN UNCHANGED <<task, cold>>
     ELSE /\ task' = [task EXCEPT ![t].pc = IF connected THEN "send" ELSE "lockwait",
                                  ![t].op = op, ![t].s = s]
          /\ IF op = "ack" THEN CacheRemove(s) ELSE UNCHANGED cold
  /\ UNCHANGED <<conn, pending, known, paused, owed, readers, wire, daemon, outs, faults, history>>

\* The holder of the lock connects; those who waited look again first.
AcquireConnect(t) ==
  /\ At(t, "lockwait") /\ connectLock = Nobody
  /\ IF connected THEN Goto(t, "send") /\ UNCHANGED connectLock
     ELSE Goto(t, "connect") /\ connectLock' = t
  /\ UNCHANGED <<connected, generation, pending, beliefs, readers, wire, daemon, counts, history>>

\* do_connect: control and stream socket, hello and ack on each, then the connection
\* is published and its readers start.  The daemon runs run_control at once; it
\* acknowledges the stream before run_stream subscribes to the hub.
Connect(t) ==
  /\ At(t, "connect") /\ generation < MaxGen
  /\ generation' = generation + 1 /\ connected' = TRUE
  /\ ds' = [ds EXCEPT ![generation'] = "run"]
  /\ hs' = [hs EXCEPT ![generation'] = "acked"]
  /\ sr' = [sr EXCEPT ![generation'] = "run"]
  /\ Goto(t, "list")
  /\ UNCHANGED <<connectLock, pending, beliefs, teardown, wire, hub, live, parked, restorable,
                 counts, history>>

\* No token or daemon, a refused or unanswered hello: the call fails and the lock
\* is released; whatever socket was open closes with nothing sent on it.
ConnectFails(t) ==
  /\ At(t, "connect")
  /\ connectLock' = Nobody
  /\ Goto(t, AfterNotify(t, FALSE))
  /\ UNCHANGED <<connected, generation, pending, beliefs, readers, wire, daemon, counts, history>>

\* request_raw: generation, sender and the pending entry under one state lock.
Request(t, op, next) ==
  /\ connected
  /\ pending' = [pending EXCEPT ![t] = generation]
  /\ Send(<<[op |-> op, s |-> task[t].s, rid |-> task[t].rid + 1, t |-> t]>>)
  /\ task' = [task EXCEPT ![t].pc = next, ![t].got = NoReply, ![t].rid = @ + 1]

\* resync starts with listSessions on this connection.
RequestList(t) ==
  /\ At(t, "list")
  /\ \/ Request(t, "list", "listing") /\ UNCHANGED connectLock
     \/ ~connected /\ Goto(t, "send") /\ connectLock' = Nobody /\ UNCHANGED <<pending, up>>
  /\ UNCHANGED <<connected, generation, beliefs, readers, down, frames, daemon, counts, history>>

\* With the list: what is believed alive and not listed died meanwhile.  Without
\* it resync leaves everything as it is.
ResyncGone(t) ==
  /\ At(t, "listing") /\ task[t].got # NoReply
  /\ IF task[t].got.kind = "list"
     THEN /\ task' = [task EXCEPT ![t].pc = "gone", ![t].gone = known \ task[t].got.listed]
          /\ UNCHANGED connectLock
     ELSE Goto(t, "send") /\ connectLock' = Nobody
  /\ UNCHANGED <<connected, generation, pending, beliefs, readers, wire, daemon, counts, history>>

\* One synthetic exit for each of them, if it is still there to be claimed.
ResyncClaim(t) ==
  /\ At(t, "gone")
  /\ \E s \in task[t].gone :
       /\ ClaimExit(s)
       /\ task' = [task EXCEPT ![t].gone = @ \ {s}]
  /\ UNCHANGED <<conn, pending, cold, readers, wire, daemon, counts, died, claims>>

\* Then what was listed is believed alive, and the owed resumes go out on the
\* current connection, if there still is one.
ResyncFinish(t) ==
  /\ At(t, "gone") /\ task[t].gone = {}
  /\ Believe(task[t].got.listed)
  /\ IF connected THEN Send(SetToSeq({Note("resume", s) : s \in owed})) ELSE UNCHANGED up
  /\ owed' = {} /\ paused' = paused \ owed
  /\ Goto(t, "send") /\ connectLock' = Nobody
  /\ UNCHANGED <<connected, generation, pending, cold, readers, down, frames, daemon,
                 counts, died, exits>>

-----------------------------------------------------------------------------
(* Callers: requests and notifies                                          *)

SendRequest(t) ==
  /\ At(t, "send") /\ task[t].op \in Rpcs
  /\ \/ Request(t, task[t].op, "awaiting")
     \/ ~connected /\ Goto(t, "idle") /\ UNCHANGED <<pending, up>>
  /\ UNCHANGED <<conn, beliefs, readers, down, frames, daemon, counts, history>>

SendNotify(t) ==
  /\ At(t, "send") /\ task[t].op \notin Rpcs
  /\ IF connected THEN Send(<<Note(task[t].op, task[t].s)>>) ELSE UNCHANGED up
  /\ Goto(t, AfterNotify(t, connected))
  /\ UNCHANGED <<conn, pending, beliefs, readers, down, frames, daemon, counts, history>>

\* The bookkeeping of pause_pty and resume_pty follows the notify, in a lock of its own.
NoteProducer(t) ==
  /\ At(t, "note")
  /\ IF task[t].op = "pause"
     THEN paused' = paused \cup {task[t].s} /\ UNCHANGED owed
     ELSE paused' = paused \ {task[t].s} /\ owed' = owed \ {task[t].s}
  /\ Goto(t, "idle")
  /\ UNCHANGED <<conn, pending, known, cold, readers, wire, daemon, counts, history>>

\* The reply or the rejection reaches the caller.  createOrAttach records the
\* session as alive and keeps a cold restore.
Returned(t) ==
  /\ At(t, "awaiting") /\ task[t].got # NoReply
  /\ IF task[t].op = "create" /\ task[t].got.kind # "lost"
     THEN Believe({task[t].s})
     ELSE UNCHANGED <<known, claims>>
  /\ IF task[t].got.kind = "cold" THEN CacheSet(task[t].s) ELSE UNCHANGED cold
  /\ Goto(t, "idle")
  /\ UNCHANGED <<conn, pending, paused, owed, readers, wire, daemon, counts, died, exits>>

\* The request's deadline: its pending entry goes, and a late reply finds nothing.
TimesOut(t) ==
  /\ task[t].pc \in {"awaiting", "listing"} /\ pending[t] # 0 /\ faults < MaxFaults
  /\ faults' = faults + 1
  /\ pending' = [pending EXCEPT ![t] = 0]
  /\ task' = [task EXCEPT ![t].got = [kind |-> "lost", listed |-> {}]]
  /\ UNCHANGED <<conn, beliefs, readers, wire, daemon, calls, outs, history>>

-----------------------------------------------------------------------------
(* Connection tasks of the client                                          *)

\* control_reader: a reply whose request is still pending reaches its caller.
ReadReply(g) ==
  /\ down[g] # <<>>
  /\ down' = [down EXCEPT ![g] = Tail(@)]
  /\ LET m == Head(down[g]) IN
     IF pending[m.t] # 0 /\ task[m.t].rid = m.rid
     THEN /\ pending' = [pending EXCEPT ![m.t] = 0]
          /\ task' = [task EXCEPT ![m.t].got = m.reply]
     ELSE UNCHANGED <<pending, task>>
  /\ UNCHANGED <<conn, beliefs, readers, up, frames, daemon, counts, history>>

\* stream_reader: the next frame goes to its subscriber.
DispatchFrame(g) ==
  /\ sr[g] = "run" /\ frames[g] # <<>>
  /\ frames' = [frames EXCEPT ![g] = Tail(@)]
  /\ LET f == Head(frames[g]) IN
     IF f.kind = "data"
     THEN CacheRemove(f.s) /\ UNCHANGED <<known, paused, owed, exits>>
     ELSE ClaimExit(f.s) /\ UNCHANGED cold
  /\ UNCHANGED <<conn, task, pending, readers, up, down, daemon, counts, died, claims>>

\* handle_disconnect, its first lock: a stale generation, or one the sibling reader
\* has already torn down, is none of this reader's business.
Disconnect(g) ==
  IF generation = g /\ connected
  THEN connected' = FALSE /\ teardown' = [teardown EXCEPT ![g] = "begun"]
  ELSE UNCHANGED <<connected, teardown>>

\* control_reader's end matters to the current connection only.
ControlReaderEnds(g) ==
  /\ connected /\ generation = g /\ down[g] = <<>> /\ ds[g] = "ended"
  /\ Disconnect(g)
  /\ UNCHANGED <<generation, connectLock, task, pending, beliefs, sr, wire, daemon, counts, history>>

\* End of file, or a desync: frames not yet read are lost with the socket.
StreamReaderEnds(g) ==
  /\ sr[g] = "run"
  /\ \/ frames[g] = <<>> /\ hs[g] = "ended" /\ UNCHANGED faults
     \/ faults < MaxFaults /\ faults' = faults + 1
  /\ sr' = [sr EXCEPT ![g] = "ended"]
  /\ Disconnect(g)
  /\ UNCHANGED <<generation, connectLock, task, pending, beliefs, wire, daemon, calls, outs, history>>

\* reset_connection: the same teardown, asked for by the host.
ResetConnection ==
  /\ connected /\ faults < MaxFaults /\ faults' = faults + 1
  /\ Disconnect(generation)
  /\ UNCHANGED <<generation, connectLock, task, pending, beliefs, sr, wire, daemon, calls,
                 outs, history>>

\* Mutants: the requests rejected are those of newer connections, or of none.
RejectedNewer(g) == {t \in Tasks : pending[t] > g}
RejectedNone(g) == {}

\* The rest of handle_disconnect: what was paused is owed a resume, and the requests
\* of this generation fail.
Rejected(g) == {t \in Tasks : pending[t] = g}

FinishDisconnect(g) ==
  /\ teardown[g] = "begun"
  /\ teardown' = [teardown EXCEPT ![g] = "done"]
  /\ owed' = owed \cup paused /\ paused' = {}
  /\ pending' = [t \in Tasks |-> IF t \in Rejected(g) THEN 0 ELSE pending[t]]
  /\ task' = [t \in Tasks |-> IF t \in Rejected(g)
                              THEN [task[t] EXCEPT !.got = [kind |-> "lost", listed |-> {}]]
                              ELSE task[t]]
  /\ UNCHANGED <<conn, known, cold, sr, wire, daemon, counts, history>>

-----------------------------------------------------------------------------
(* The daemon                                                              *)

\* Push a frame to the subscriber; without one it is dropped.
Emit(f) ==
  frames' = IF hub = 0 THEN frames ELSE [frames EXCEPT ![hub] = Append(@, f)]

\* run_stream subscribes: the subscriber it replaces drains its queue and ends.
Subscribe(g) ==
  /\ hs[g] = "acked"
  /\ hub' = g /\ hs' = [hs EXCEPT ![g] = "run"]
  /\ UNCHANGED <<conn, task, pending, beliefs, readers, wire, ds, live, parked, restorable, counts,
                 history>>

Reply(g, m, reply) ==
  down' = [down EXCEPT ![g] = Append(@, [t |-> m.t, rid |-> m.rid, reply |-> reply])]
Ok(kind) == [kind |-> kind, listed |-> {}]
ListSessions == [kind |-> "list", listed |-> live]

\* dispatch_rpc.  kill ends the child (ChildExits reports it) and its history;
\* createOrAttach adopts a live session or starts one, cold when the disk has one.
ServeRequest(g) ==
  /\ ds[g] = "run" /\ up[g] # <<>>
  /\ LET m == Head(up[g]) IN
     /\ m.op \in Rpcs \cup {"list"}
     /\ up' = [up EXCEPT ![g] = Tail(@)]
     /\ live' = IF m.op = "create" THEN live \cup {m.s} ELSE live
     /\ restorable' = IF m.op \in {"create", "kill"} THEN restorable \ {m.s} ELSE restorable
     /\ Reply(g, m, CASE m.op = "list" -> ListSessions
                      [] m.op = "create" /\ m.s \notin live /\ m.s \in restorable -> Ok("cold")
                      [] OTHER -> Ok("ok"))
  /\ UNCHANGED <<conn, task, pending, beliefs, readers, frames, ds, hs, hub, parked, counts,
                 history>>

\* dispatch_notify: a session that is not there is ignored; ackColdRestore does nothing.
ServeNotify(g) ==
  /\ ds[g] = "run" /\ up[g] # <<>>
  /\ LET m == Head(up[g]) IN
     /\ m.op \notin Rpcs \cup {"list"}
     /\ up' = [up EXCEPT ![g] = Tail(@)]
     /\ parked' = CASE m.op = "pause" -> parked \cup ({m.s} \cap live)
                    [] m.op = "resume" -> parked \ {m.s}
                    [] OTHER -> parked
  /\ UNCHANGED <<conn, task, pending, beliefs, readers, down, frames, ds, hs, hub, live, restorable,
                 counts, history>>

\* Mutant: a stream that leaves clears the hub whoever is subscribed.
StreamLeavesClearing(g) ==
  /\ hs[g] = "run" /\ (sr[g] = "ended" \/ hub # g)
  /\ hs' = [hs EXCEPT ![g] = "ended"]
  /\ hub' = 0 /\ parked' = {}
  /\ UNCHANGED <<conn, task, pending, beliefs, readers, wire, ds, live, restorable, counts, history>>

\* StreamHub::clear only ends the subscription of the stream that leaves, and then
\* nobody is left to resume a producer: resume_all_producers.
ClearHub(g) == IF hub = g THEN hub' = 0 /\ parked' = {} ELSE UNCHANGED <<hub, parked>>

\* run_stream leaves its loop when the client closed its end, or when a newer
\* subscriber dropped this one's sender.
StreamLeaves(g) ==
  /\ hs[g] = "run" /\ (sr[g] = "ended" \/ hub # g)
  /\ hs' = [hs EXCEPT ![g] = "ended"]
  /\ ClearHub(g)
  /\ UNCHANGED <<conn, task, pending, beliefs, readers, wire, ds, live, restorable, counts, history>>

\* A session's child ends: it leaves the map and its Exit frame is emitted.
ChildExits(s) ==
  /\ s \in live /\ died[s] < MaxDeaths
  /\ live' = live \ {s} /\ parked' = parked \ {s}
  /\ died' = [died EXCEPT ![s] = @ + 1]
  /\ Emit([kind |-> "exit", s |-> s])
  /\ UNCHANGED <<conn, task, pending, beliefs, readers, up, down, ds, hs, hub, restorable, counts,
                 exits, claims>>

Output(s) ==
  /\ s \in live \ parked /\ outs < MaxOut /\ outs' = outs + 1
  /\ Emit([kind |-> "data", s |-> s])
  /\ UNCHANGED <<conn, task, pending, beliefs, readers, up, down, daemon, calls, faults, history>>

\* The daemon dies and is replaced: its connections end, its sessions are gone and
\* their histories can be restored.
DaemonDies ==
  /\ faults < MaxFaults /\ faults' = faults + 1
  /\ ds' = [g \in Gens |-> IF ds[g] = "run" THEN "ended" ELSE ds[g]]
  /\ hs' = [g \in Gens |-> IF hs[g] = "none" THEN "none" ELSE "ended"]
  /\ hub' = 0 /\ live' = {} /\ parked' = {} /\ restorable' = restorable \cup live
  /\ up' = [g \in Gens |-> <<>>]
  /\ died' = [s \in Sessions |-> IF s \in live THEN died[s] + 1 ELSE died[s]]
  /\ UNCHANGED <<conn, task, pending, beliefs, readers, down, frames, calls, outs, exits, claims>>

-----------------------------------------------------------------------------

CallerStep(t) ==
  \/ AcquireConnect(t) \/ Connect(t) \/ ConnectFails(t)
  \/ RequestList(t) \/ ResyncGone(t) \/ ResyncClaim(t) \/ ResyncFinish(t)
  \/ SendRequest(t) \/ SendNotify(t) \/ NoteProducer(t) \/ Returned(t)

ConnectionStep(g) ==
  \/ ReadReply(g) \/ DispatchFrame(g) \/ ControlReaderEnds(g) \/ FinishDisconnect(g)
  \/ Subscribe(g) \/ ServeRequest(g) \/ ServeNotify(g) \/ StreamLeaves(g)

Next ==
  \/ \E t \in Tasks, op \in Ops, s \in Sessions : Begin(t, op, s)
  \/ \E t \in Tasks : CallerStep(t) \/ TimesOut(t)
  \/ \E g \in Gens : ConnectionStep(g) \/ StreamReaderEnds(g)
  \/ \E s \in Sessions : ChildExits(s) \/ Output(s)
  \/ ResetConnection \/ DaemonDies

\* The runtimes do not stop while one of their tasks can run; deadlines, faults,
\* exits, output and new calls need not happen.  Calls are bounded, so fairness to
\* the tasks together is enough.
Progress ==
  \/ \E t \in Tasks : CallerStep(t)
  \/ \E g \in Gens : ConnectionStep(g) \/ (hs[g] = "ended" /\ StreamReaderEnds(g))

Fairness == WF_vars(Progress)

Spec == Init /\ [][Next]_vars /\ Fairness

-----------------------------------------------------------------------------
(* Properties                                                              *)

\* A call ends: it gets its reply, or the rejection of its connection's teardown,
\* without the help of its deadline ("so no caller hangs on a dead socket").
RequestsEnd == \A t \in Tasks : task[t].pc \in {"awaiting", "listing"} ~>
                                task[t].pc \notin {"awaiting", "listing"}

\* A new stream takes the subscription, or its own stream has left.
KeepsSubscriber ==
  hub' # hub => \/ hub' # 0 /\ hs[hub'] = "acked"
                \/ hub' = 0 /\ hs'[hub] = "ended"

\* The subscription changes hands only when a new stream takes it or its own stream
\* leaves: the slow teardown of an older stream cannot null a newer one's.
SubscriberKept == [][KeepsSubscriber]_vars

\* Every on_exit is paid for by an entry into known_alive that it removed: the Exit
\* frame and the resync that race for one death report it once.
OneClaimOneExit ==
  \A s \in Sessions : exits[s] + (IF s \in known THEN 1 ELSE 0) = claims[s]

\* A session's end is reported at most once per death (client.rs: "exactly one
\* `on_exit` per session, ever").
ExitOnce == \A s \in Sessions : exits[s] <= died[s]

\* A pending request belongs to a connection that still has somebody to answer or
\* to reject it.
PendingHasOwner ==
  \A t \in Tasks : pending[t] # 0 =>
    LET g == pending[t] IN
    \/ connected /\ generation = g
    \/ teardown[g] = "begun"
=============================================================================
