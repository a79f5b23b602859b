------------------------- MODULE DaemonClientProofs -------------------------
(***************************************************************************)
(* What the daemon's client promises its callers and its subscribers,      *)
(* proved for any number of tasks, sessions, connections, calls and        *)
(* faults.                                                                 *)
(***************************************************************************)
EXTENDS DaemonClient, TLAPS

-----------------------------------------------------------------------------
(* One on_exit for every entry into known_alive                            *)

ClaimInv == exits \in [Sessions -> Nat] /\ claims \in [Sessions -> Nat] /\ OneClaimOneExit

\* Whoever takes an id out of known_alive calls on_exit, and nobody else does.
LEMMA ClaimExitPays ==
  ASSUME ClaimInv, NEW s, ClaimExit(s), claims' = claims PROVE ClaimInv'
<1>1. CASE s \in known
  <2>1. /\ known' = known \ {s} /\ exits' = [exits EXCEPT ![s] = exits[s] + 1]
        BY <1>1 DEF ClaimExit
  <2>2. exits' \in [Sessions -> Nat]
    <3>1. CASE s \in Sessions BY <2>1, <3>1 DEF ClaimInv
    <3>2. CASE s \notin Sessions BY <2>1, <3>2 DEF ClaimInv
    <3> QED BY <3>1, <3>2
  <2>3. \A z \in Sessions : exits'[z] + (IF z \in known' THEN 1 ELSE 0) = claims[z]
        BY <1>1, <2>1 DEF ClaimInv, OneClaimOneExit
  <2> QED BY <2>2, <2>3 DEF ClaimInv, OneClaimOneExit
<1>2. CASE s \notin known BY <1>2 DEF ClaimExit, ClaimInv, OneClaimOneExit
<1> QED BY <1>1, <1>2

\* An entry is counted when it is new.
LEMMA BelieveCounts ==
  ASSUME ClaimInv, NEW S, Believe(S), exits' = exits PROVE ClaimInv'
<1>1. claims' \in [Sessions -> Nat] BY DEF Believe, ClaimInv
<1>2. \A z \in Sessions : exits[z] + (IF z \in known' THEN 1 ELSE 0) = claims'[z]
      BY DEF Believe, ClaimInv, OneClaimOneExit
<1> QED BY <1>1, <1>2 DEF ClaimInv, OneClaimOneExit

\* The Exit frame and the resync claim through the same removal.
LEMMA StepKeepsClaimInv == ASSUME ClaimInv, [Next]_vars PROVE ClaimInv'
<1>1. CASE UNCHANGED <<known, exits, claims>> BY <1>1 DEF ClaimInv, OneClaimOneExit
<1>2. ASSUME NEW t \in Tasks, ResyncClaim(t) PROVE ClaimInv'
      BY <1>2, ClaimExitPays DEF ResyncClaim
<1>3. ASSUME NEW t \in Tasks, ResyncFinish(t) PROVE ClaimInv'
      BY <1>3, BelieveCounts DEF ResyncFinish
<1>4. ASSUME NEW t \in Tasks, Returned(t) PROVE ClaimInv'
      BY <1>1, <1>4, BelieveCounts DEF Returned
<1>5. ASSUME NEW g \in Gens, DispatchFrame(g) PROVE ClaimInv'
      BY <1>1, <1>5, ClaimExitPays DEF DispatchFrame
<1>6. ASSUME NEW t \in Tasks, AcquireConnect(t) \/ Connect(t) \/ ConnectFails(t) \/ RequestList(t) \/ ResyncGone(t)
      PROVE  UNCHANGED <<known, exits, claims>>
      BY <1>6 DEF AcquireConnect, Connect, ConnectFails, RequestList, ResyncGone, beliefs, history
<1>7. ASSUME NEW t \in Tasks, SendRequest(t) \/ SendNotify(t) \/ NoteProducer(t) \/ TimesOut(t)
      PROVE  UNCHANGED <<known, exits, claims>>
      BY <1>7 DEF SendRequest, SendNotify, NoteProducer, TimesOut, beliefs, history
<1>8. ASSUME NEW g \in Gens, ReadReply(g) \/ ControlReaderEnds(g) \/ FinishDisconnect(g) \/ StreamReaderEnds(g)
      PROVE  UNCHANGED <<known, exits, claims>>
      BY <1>8 DEF ReadReply, ControlReaderEnds, FinishDisconnect, StreamReaderEnds, beliefs, history
<1>9. ASSUME NEW g \in Gens, Subscribe(g) \/ ServeRequest(g) \/ ServeNotify(g) \/ StreamLeaves(g)
      PROVE  UNCHANGED <<known, exits, claims>>
      BY <1>9 DEF Subscribe, ServeRequest, ServeNotify, StreamLeaves, beliefs, history
<1>10. ASSUME NEW s \in Sessions, ChildExits(s) \/ Output(s)
       PROVE  UNCHANGED <<known, exits, claims>>
       BY <1>10 DEF ChildExits, Output, beliefs, history
<1>11. ASSUME NEW t \in Tasks, NEW op \in Ops, NEW s \in Sessions, Begin(t, op, s)
       PROVE  UNCHANGED <<known, exits, claims>>
       BY <1>11 DEF Begin, history
<1>12. CASE ResetConnection \/ DaemonDies \/ UNCHANGED vars
       BY <1>1, <1>12 DEF ResetConnection, DaemonDies, vars, beliefs, history
<1> QED BY <1>1, <1>2, <1>3, <1>4, <1>5, <1>6, <1>7, <1>8, <1>9, <1>10, <1>11, <1>12
        DEF Next, CallerStep, ConnectionStep

\* OneClaimOneExit: an on_exit is paid for by an entry into known_alive that it removed,
\* whoever else races to report the same death.
THEOREM OneClaimOneExitTheorem == Spec => []OneClaimOneExit
<1>1. Init => ClaimInv BY DEF Init, ClaimInv, OneClaimOneExit
<1>2. ClaimInv => OneClaimOneExit BY DEF ClaimInv
<1> QED BY <1>1, <1>2, StepKeepsClaimInv, PTL DEF Spec

-----------------------------------------------------------------------------
(* The stream subscription                                                 *)

StreamStates == {"none", "acked", "run", "ended"}

\* The subscriber is a stream that runs, and no connection is ahead of its number.
HubInv ==
  /\ hs \in [Gens -> StreamStates] /\ generation \in 0..MaxGen
  /\ hub # 0 => hub \in Gens /\ hs[hub] = "run"
  /\ \A g \in Gens : g > generation => hs[g] = "none"

\* Every step keeps the hub's generations in order and a newer subscriber in its slot.
LEMMA StepKeepsHubInv == ASSUME HubInv, [Next]_vars PROVE HubInv' /\ KeepsSubscriber
<1> USE ClientAssumption DEF HubInv, KeepsSubscriber, Gens, StreamStates
<1>1. CASE UNCHANGED <<hs, hub, generation>> BY <1>1
<1>2. ASSUME NEW t \in Tasks, Connect(t) PROVE HubInv' /\ KeepsSubscriber
  <2>1. /\ generation < MaxGen /\ generation' = generation + 1 /\ hub' = hub
        /\ hs' = [hs EXCEPT ![generation + 1] = "acked"]
        BY <1>2 DEF Connect
  <2> QED BY <2>1
<1>3. ASSUME NEW g \in Gens, Subscribe(g) PROVE HubInv' /\ KeepsSubscriber
      BY <1>3 DEF Subscribe, conn
<1>4. ASSUME NEW g \in Gens, StreamLeaves(g) PROVE HubInv' /\ KeepsSubscriber
      BY <1>4 DEF StreamLeaves, ClearHub, conn
<1>5. CASE DaemonDies
  <2>1. /\ hs' = [g \in Gens |-> IF hs[g] = "none" THEN "none" ELSE "ended"]
        /\ hub' = 0 /\ generation' = generation
        BY <1>5 DEF DaemonDies, conn
  <2> QED BY <2>1
<1>6. ASSUME NEW t \in Tasks, \/ AcquireConnect(t) \/ ConnectFails(t) \/ RequestList(t) \/ ResyncGone(t)
                              \/ ResyncClaim(t) \/ ResyncFinish(t)
      PROVE  UNCHANGED <<hs, hub, generation>>
      BY <1>6 DEF AcquireConnect, ConnectFails, RequestList, ResyncGone, ResyncClaim, ResyncFinish,
                  conn, daemon
<1>7. ASSUME NEW t \in Tasks, SendRequest(t) \/ SendNotify(t) \/ NoteProducer(t) \/ Returned(t) \/ TimesOut(t)
      PROVE  UNCHANGED <<hs, hub, generation>>
      BY <1>7 DEF SendRequest, SendNotify, NoteProducer, Returned, TimesOut, conn, daemon
<1>8. ASSUME NEW g \in Gens, \/ ReadReply(g) \/ DispatchFrame(g) \/ ControlReaderEnds(g) \/ FinishDisconnect(g)
                             \/ StreamReaderEnds(g) \/ ServeRequest(g) \/ ServeNotify(g)
      PROVE  UNCHANGED <<hs, hub, generation>>
      BY <1>8 DEF ReadReply, DispatchFrame, ControlReaderEnds, FinishDisconnect, StreamReaderEnds,
                  ServeRequest, ServeNotify, conn, daemon
<1>9. ASSUME NEW s \in Sessions, ChildExits(s) \/ Output(s) PROVE UNCHANGED <<hs, hub, generation>>
      BY <1>9 DEF ChildExits, Output, conn, daemon
<1>10. ASSUME NEW t \in Tasks, NEW op \in Ops, NEW s \in Sessions, Begin(t, op, s)
       PROVE  UNCHANGED <<hs, hub, generation>>
       BY <1>10 DEF Begin, conn, daemon
<1>11. CASE ResetConnection \/ UNCHANGED vars
       BY <1>1, <1>11 DEF ResetConnection, vars, conn, daemon
<1> QED BY <1>1, <1>2, <1>3, <1>4, <1>5, <1>6, <1>7, <1>8, <1>9, <1>10, <1>11
        DEF Next, CallerStep, ConnectionStep

\* SubscriberKept: the subscription changes hands only when a new stream takes it or its
\* own stream has left.
THEOREM SubscriberKeptTheorem == Spec => SubscriberKept
<1>1. Init => HubInv BY ClientAssumption DEF Init, HubInv, StreamStates, Gens
<1>2. HubInv /\ [Next]_vars => HubInv' /\ [KeepsSubscriber]_vars BY StepKeepsHubInv
<1> QED BY <1>1, <1>2, PTL DEF Spec, SubscriberKept

-----------------------------------------------------------------------------
(* Somebody answers every pending request                                  *)

TaskRecord(r) ==
  r = [pc |-> r.pc, op |-> r.op, s |-> r.s, rid |-> r.rid, got |-> r.got, gone |-> r.gone]

ClientTypes ==
  /\ generation \in 0..MaxGen /\ (connected => generation # 0) /\ connected \in BOOLEAN
  /\ task = [t \in Tasks |-> task[t]] /\ \A t \in Tasks : TaskRecord(task[t])
  /\ pending \in [Tasks -> 0..MaxGen]
  /\ teardown \in [Gens -> {"none", "begun", "done"}]

\* Only the holder of connect_lock connects, and it found no connection.
OneConnects ==
  \A t \in Tasks : /\ task[t].pc \in {"connect", "list", "listing", "gone"} => connectLock = t
                   /\ task[t].pc = "connect" => ~connected

PendingInv == ClientTypes /\ OneConnects /\ PendingHasOwner

\* What the steps of a caller make of its record.
AfterGoto(r, pc, got, op) == [r EXCEPT !.pc = pc, !.got = got, !.op = op]
AfterBegin(r, pc, op, s) == [r EXCEPT !.pc = pc, !.op = op, !.s = s]
AfterRequest(r, pc, got, rid) == [r EXCEPT !.pc = pc, !.got = got, !.rid = rid]
AfterList(r, pc, gone) == [r EXCEPT !.pc = pc, !.gone = gone]
AfterClaim(r, gone) == [r EXCEPT !.gone = gone]
AfterReply(r, got) == [r EXCEPT !.got = got]

\* The record keeps its shape, and is at pc when pc was set.
LEMMA RecordMoves ==
  ASSUME NEW r, TaskRecord(r), NEW x, NEW y, NEW z
  PROVE  /\ TaskRecord(AfterGoto(r, x, y, z)) /\ AfterGoto(r, x, y, z).pc = x
         /\ TaskRecord(AfterBegin(r, x, y, z)) /\ AfterBegin(r, x, y, z).pc = x
         /\ TaskRecord(AfterRequest(r, x, y, z)) /\ AfterRequest(r, x, y, z).pc = x
         /\ TaskRecord(AfterList(r, x, y)) /\ AfterList(r, x, y).pc = x
         /\ TaskRecord(AfterClaim(r, x)) /\ AfterClaim(r, x).pc = r.pc
         /\ TaskRecord(AfterReply(r, x)) /\ AfterReply(r, x).pc = r.pc
<1>1. TaskRecord(AfterGoto(r, x, y, z)) /\ AfterGoto(r, x, y, z).pc = x
  <2> DEFINE q1 == [r EXCEPT !.pc = x]
             q2 == [q1 EXCEPT !.got = y]
             q3 == [q2 EXCEPT !.op = z]
  <2>1. AfterGoto(r, x, y, z) = q3 BY DEF AfterGoto
  <2>2. TaskRecord(q1) /\ q1.pc = x BY DEF TaskRecord
  <2> HIDE DEF q1
  <2>3. TaskRecord(q2) /\ q2.pc = x BY <2>2 DEF TaskRecord
  <2> HIDE DEF q2
  <2>4. TaskRecord(q3) /\ q3.pc = x BY <2>3 DEF TaskRecord
  <2> HIDE DEF q3
  <2> QED BY <2>1, <2>4
<1>2. TaskRecord(AfterBegin(r, x, y, z)) /\ AfterBegin(r, x, y, z).pc = x
  <2> DEFINE q1 == [r EXCEPT !.pc = x]
             q2 == [q1 EXCEPT !.op = y]
             q3 == [q2 EXCEPT !.s = z]
  <2>1. AfterBegin(r, x, y, z) = q3 BY DEF AfterBegin
  <2>2. TaskRecord(q1) /\ q1.pc = x BY DEF TaskRecord
  <2> HIDE DEF q1
  <2>3. TaskRecord(q2) /\ q2.pc = x BY <2>2 DEF TaskRecord
  <2> HIDE DEF q2
  <2>4. TaskRecord(q3) /\ q3.pc = x BY <2>3 DEF TaskRecord
  <2> HIDE DEF q3
  <2> QED BY <2>1, <2>4
<1>3. TaskRecord(AfterRequest(r, x, y, z)) /\ AfterRequest(r, x, y, z).pc = x
  <2> DEFINE q1 == [r EXCEPT !.pc = x]
             q2 == [q1 EXCEPT !.got = y]
             q3 == [q2 EXCEPT !.rid = z]
  <2>1. AfterRequest(r, x, y, z) = q3 BY DEF AfterRequest
  <2>2. TaskRecord(q1) /\ q1.pc = x BY DEF TaskRecord
  <2> HIDE DEF q1
  <2>3. TaskRecord(q2) /\ q2.pc = x BY <2>2 DEF TaskRecord
  <2> HIDE DEF q2
  <2>4. TaskRecord(q3) /\ q3.pc = x BY <2>3 DEF TaskRecord
  <2> HIDE DEF q3
  <2> QED BY <2>1, <2>4
<1>4. TaskRecord(AfterList(r, x, y)) /\ AfterList(r, x, y).pc = x
  <2> DEFINE q1 == [r EXCEPT !.pc = x]
             q2 == [q1 EXCEPT !.gone = y]
  <2>1. AfterList(r, x, y) = q2 BY DEF AfterList
  <2>2. TaskRecord(q1) /\ q1.pc = x BY DEF TaskRecord
  <2> HIDE DEF q1
  <2>3. TaskRecord(q2) /\ q2.pc = x BY <2>2 DEF TaskRecord
  <2> HIDE DEF q2
  <2> QED BY <2>1, <2>3
<1>5. TaskRecord(AfterClaim(r, x)) /\ AfterClaim(r, x).pc = r.pc BY DEF AfterClaim, TaskRecord
<1>6. TaskRecord(AfterReply(r, x)) /\ AfterReply(r, x).pc = r.pc BY DEF AfterReply, TaskRecord
<1> QED BY <1>1, <1>2, <1>3, <1>4, <1>5, <1>6

\* One caller moves to pc, the others stand still.
Moved(t, pc) ==
  /\ \E r : TaskRecord(r) /\ r.pc = pc /\ task' = [task EXCEPT ![t] = r]

\* A task that moves leaves the others where they are.
LEMMA MovedKeepsOthers ==
  ASSUME ClientTypes, NEW t \in Tasks, NEW pc, Moved(t, pc)
  PROVE  /\ task' = [u \in Tasks |-> task'[u]] /\ \A u \in Tasks : TaskRecord(task[u])'
         /\ task'[t].pc = pc /\ \A u \in Tasks : u # t => task'[u] = task[u]
<1>1. PICK r : TaskRecord(r) /\ r.pc = pc /\ task' = [task EXCEPT ![t] = r] BY DEF Moved
<1>2. task'[t] = r /\ \A u \in Tasks : u # t => task'[u] = task[u] BY <1>1 DEF ClientTypes
<1>3. \A u \in Tasks : TaskRecord(task'[u]) BY <1>1, <1>2 DEF ClientTypes
<1>4. task' = [u \in Tasks |-> task'[u]] BY <1>1 DEF ClientTypes
<1> QED BY <1>1, <1>2, <1>3, <1>4 DEF TaskRecord

\* Goto moves its task ...
LEMMA GotoMoves == ASSUME ClientTypes, NEW t \in Tasks, NEW pc, Goto(t, pc) PROVE Moved(t, pc)
<1> DEFINE r == AfterGoto(task[t], pc, NoReply, IF pc = "idle" THEN "call" ELSE task[t].op)
<1>1. task' = [task EXCEPT ![t] = r] BY DEF Goto, ClientTypes, AfterGoto
<1>2. TaskRecord(task[t]) BY DEF ClientTypes
<1>3. TaskRecord(r) /\ r.pc = pc BY <1>2, RecordMoves
<1> HIDE DEF r
<1> QED BY <1>1, <1>3 DEF Moved

\* ... and so does a request, which is pending on the connection of that moment.
LEMMA RequestMoves ==
  ASSUME ClientTypes, NEW t \in Tasks, NEW op, NEW next, Request(t, op, next)
  PROVE  Moved(t, next) /\ connected /\ pending' = [pending EXCEPT ![t] = generation]
<1> DEFINE r == AfterRequest(task[t], next, NoReply, task[t].rid + 1)
<1>1. task' = [task EXCEPT ![t] = r] BY DEF Request, ClientTypes, AfterRequest
<1>2. TaskRecord(task[t]) BY DEF ClientTypes
<1>3. TaskRecord(r) /\ r.pc = next BY <1>2, RecordMoves
<1> HIDE DEF r
<1> QED BY <1>1, <1>3 DEF Moved, Request

Connecting == {"connect", "list", "listing", "gone"}

\* A caller moves, and keeps or gives back the lock.
LEMMA MoveKeepsPendingInv ==
  ASSUME PendingInv, NEW t \in Tasks, NEW pc, Moved(t, pc), pc # "connect",
         UNCHANGED <<connected, generation, pending, teardown>>,
         \/ connectLock' = connectLock /\ (pc \in Connecting => connectLock = t)
         \/ connectLock = t /\ pc \notin Connecting
  PROVE  PendingInv'
<1>1. ClientTypes' BY MovedKeepsOthers DEF PendingInv, ClientTypes
<1>2. OneConnects' BY MovedKeepsOthers DEF PendingInv, OneConnects, Connecting
<1>3. PendingHasOwner' BY DEF PendingInv, PendingHasOwner
<1> QED BY <1>1, <1>2, <1>3 DEF PendingInv

\* Replies, deadlines and rejections: callers stay where they are, and a request that is
\* no longer pending needs nobody.
LEMMA ReplyKeepsPendingInv ==
  ASSUME PendingInv, UNCHANGED <<connected, generation, connectLock, teardown>>,
         pending' \in [Tasks -> 0..MaxGen], \A t \in Tasks : pending'[t] \in {0, pending[t]},
         task' = [t \in Tasks |-> task'[t]],
         \A t \in Tasks : task'[t] = task[t] \/ \E got : task'[t] = AfterReply(task[t], got)
  PROVE  PendingInv'
<1>1. \A t \in Tasks : TaskRecord(task'[t]) /\ task'[t].pc = task[t].pc
      BY RecordMoves DEF PendingInv, ClientTypes
<1>2. ClientTypes'
  <2>1. \A t \in Tasks : TaskRecord(task[t])' BY <1>1 DEF TaskRecord
  <2> QED BY <2>1 DEF PendingInv, ClientTypes
<1>3. OneConnects' BY <1>1 DEF PendingInv, OneConnects
<1>4. PendingHasOwner' BY DEF PendingInv, PendingHasOwner
<1> QED BY <1>2, <1>3, <1>4 DEF PendingInv

\* A request is stamped with the connection it is queued on.
LEMMA RequestKeepsPendingInv ==
  ASSUME PendingInv, NEW t \in Tasks, NEW op, NEW next, Request(t, op, next), next # "connect",
         UNCHANGED <<connected, generation, connectLock, teardown>>,
         next \in Connecting => connectLock = t
  PROVE  PendingInv'
<1>0. ClientTypes BY DEF PendingInv
<1>1. Moved(t, next) /\ connected /\ pending' = [pending EXCEPT ![t] = generation]
      BY <1>0, RequestMoves
<1>2. ClientTypes' BY <1>0, <1>1, MovedKeepsOthers DEF ClientTypes
<1>3. OneConnects' BY <1>0, <1>1, MovedKeepsOthers DEF PendingInv, OneConnects, Connecting
<1>4. PendingHasOwner' BY <1>0, <1>1 DEF PendingInv, PendingHasOwner, ClientTypes
<1> QED BY <1>2, <1>3, <1>4 DEF PendingInv

\* An answer or a rejection ends one pending request.
LEMMA OneReplied ==
  ASSUME PendingInv, UNCHANGED <<connected, generation, connectLock, teardown>>,
         NEW t \in Tasks, NEW got, pending' = [pending EXCEPT ![t] = 0],
         task' = [task EXCEPT ![t] = AfterReply(task[t], got)]
  PROVE  PendingInv'
<1>1. ClientTypes BY DEF PendingInv
<1>2. pending' \in [Tasks -> 0..MaxGen] /\ \A u \in Tasks : pending'[u] \in {0, pending[u]}
      BY <1>1, ClientAssumption DEF ClientTypes
<1>3. task' = [u \in Tasks |-> task'[u]] BY <1>1 DEF ClientTypes
<1>4. \A u \in Tasks : task'[u] = task[u] \/ \E x : task'[u] = AfterReply(task[u], x)
      BY <1>1 DEF ClientTypes
<1> QED BY <1>2, <1>3, <1>4, ReplyKeepsPendingInv

\* handle_disconnect's first half makes the connection's requests the teardown's.
LEMMA DisconnectKeepsPendingInv ==
  ASSUME PendingInv, NEW g \in Gens, Disconnect(g), UNCHANGED <<generation, connectLock, task, pending>>
  PROVE  PendingInv'
<1>1. CASE UNCHANGED <<connected, teardown>>
      BY <1>1 DEF PendingInv, ClientTypes, OneConnects, PendingHasOwner, TaskRecord
<1>2. CASE /\ generation = g /\ connected /\ connected' = FALSE
           /\ teardown' = [teardown EXCEPT ![g] = "begun"]
  <2>1. ClientTypes' BY <1>2 DEF PendingInv, ClientTypes, TaskRecord
  <2>2. OneConnects' BY <1>2 DEF PendingInv, OneConnects
  <2>3. PendingHasOwner'
    <3> SUFFICES ASSUME NEW t \in Tasks, pending[t] # 0 PROVE teardown'[pending[t]] = "begun"
        BY DEF PendingHasOwner
    <3>1. pending[t] = g \/ teardown[pending[t]] = "begun" BY <1>2 DEF PendingInv, PendingHasOwner
    <3>2. pending[t] \in Gens BY ClientAssumption DEF PendingInv, ClientTypes, Gens
    <3> QED BY <1>2, <3>1, <3>2 DEF PendingInv, ClientTypes
  <2> QED BY <2>1, <2>2, <2>3 DEF PendingInv
<1> QED BY <1>1, <1>2 DEF Disconnect

\* The callers' own steps.
LEMMA CallerKeepsPendingInv ==
  ASSUME PendingInv, NEW t \in Tasks, CallerStep(t) PROVE PendingInv'
<1> USE DEF At
<1>0. ClientTypes BY DEF PendingInv
<1>1. CASE AcquireConnect(t)
  <2>1. CASE connected BY <1>0, <1>1, <2>1, GotoMoves, MoveKeepsPendingInv DEF AcquireConnect, Connecting, readers
  <2>2. CASE ~connected
    <3>1. /\ Goto(t, "connect") /\ connectLock = Nobody /\ connectLock' = t
          /\ UNCHANGED <<connected, generation, pending, teardown>>
          BY <1>1, <2>2 DEF AcquireConnect, readers
    <3>2. Moved(t, "connect") BY <1>0, <3>1, GotoMoves
    <3>3. ClientTypes' BY <1>0, <3>1, <3>2, MovedKeepsOthers DEF ClientTypes
    <3>4. \A u \in Tasks : u # t => task[u].pc \notin Connecting
          BY <3>1, ClientAssumption DEF PendingInv, OneConnects, Connecting
    <3>5. OneConnects' BY <1>0, <2>2, <3>1, <3>2, <3>4, MovedKeepsOthers DEF OneConnects, Connecting
    <3>6. PendingHasOwner' BY <3>1 DEF PendingInv, PendingHasOwner
    <3> QED BY <3>3, <3>5, <3>6 DEF PendingInv
  <2> QED BY <2>1, <2>2
<1>2. CASE Connect(t)
  <2>1. /\ Goto(t, "list") /\ task[t].pc = "connect" /\ generation < MaxGen
        /\ generation' = generation + 1 /\ connected' = TRUE
        /\ UNCHANGED <<connectLock, pending, teardown>>
        BY <1>2 DEF Connect
  <2>2. Moved(t, "list") BY <1>0, <2>1, GotoMoves
  <2>3. connectLock = t /\ ~connected BY <2>1 DEF PendingInv, OneConnects
  <2>4. ClientTypes' BY <1>0, <2>1, <2>2, MovedKeepsOthers, ClientAssumption DEF ClientTypes
  <2>5. OneConnects' BY <1>0, <2>1, <2>2, <2>3, MovedKeepsOthers DEF PendingInv, OneConnects
  <2>6. PendingHasOwner' BY <2>1, <2>3 DEF PendingInv, PendingHasOwner
  <2> QED BY <2>4, <2>5, <2>6 DEF PendingInv
<1>3. CASE ConnectFails(t)
  <2>1. /\ Goto(t, AfterNotify(t, FALSE)) /\ connectLock = t
        /\ UNCHANGED <<connected, generation, pending, teardown>>
        BY <1>3 DEF ConnectFails, readers, PendingInv, OneConnects
  <2>2. AfterNotify(t, FALSE) \in {"note", "idle"} BY DEF AfterNotify
  <2> QED BY <1>0, <2>1, <2>2, GotoMoves, MoveKeepsPendingInv DEF Connecting
<1>4. CASE RequestList(t)
  <2>0. connectLock = t BY <1>4 DEF RequestList, PendingInv, OneConnects
  <2>1. CASE Request(t, "list", "listing") /\ UNCHANGED connectLock
    <3>1. UNCHANGED <<connected, generation, teardown>> BY <1>4 DEF RequestList, readers
    <3> QED BY <2>0, <2>1, <3>1, RequestKeepsPendingInv DEF Connecting
  <2>2. CASE ~connected /\ Goto(t, "send") /\ UNCHANGED pending
    <3>1. UNCHANGED <<connected, generation, teardown>> BY <1>4 DEF RequestList, readers
    <3> QED BY <1>0, <2>0, <2>2, <3>1, GotoMoves, MoveKeepsPendingInv DEF Connecting
  <2> QED BY <1>4, <2>1, <2>2 DEF RequestList
<1>5. CASE ResyncGone(t)
  <2>0. /\ connectLock = t /\ UNCHANGED <<connected, generation, pending, teardown>>
        BY <1>5 DEF ResyncGone, PendingInv, OneConnects, readers
  <2>1. CASE Goto(t, "send") BY <1>0, <2>0, <2>1, GotoMoves, MoveKeepsPendingInv DEF Connecting
  <2>2. CASE /\ task' = [task EXCEPT ![t].pc = "gone", ![t].gone = known \ task[t].got.listed]
             /\ UNCHANGED connectLock
    <3> DEFINE r == AfterList(task[t], "gone", known \ task[t].got.listed)
    <3>1. task' = [task EXCEPT ![t] = r] BY <1>0, <2>2 DEF ClientTypes, AfterList
    <3>2. TaskRecord(task[t]) BY <1>0 DEF ClientTypes
    <3>3. TaskRecord(r) /\ r.pc = "gone" BY <3>2, RecordMoves
    <3> HIDE DEF r
    <3>4. Moved(t, "gone") BY <3>1, <3>3 DEF Moved
    <3> QED BY <2>0, <2>2, <3>4, MoveKeepsPendingInv
  <2> QED BY <1>5, <2>1, <2>2 DEF ResyncGone
<1>6. CASE ResyncClaim(t)
  <2>0. /\ connectLock = t /\ task[t].pc = "gone"
        /\ UNCHANGED <<connected, generation, connectLock, pending, teardown>>
        BY <1>6 DEF ResyncClaim, PendingInv, OneConnects, readers, conn
  <2>1. PICK z : task' = [task EXCEPT ![t].gone = @ \ {z}] BY <1>6 DEF ResyncClaim
  <2> DEFINE r == AfterClaim(task[t], task[t].gone \ {z})
  <2>2. task' = [task EXCEPT ![t] = r] BY <1>0, <2>1 DEF ClientTypes, AfterClaim
  <2>3. TaskRecord(task[t]) BY <1>0 DEF ClientTypes
  <2>4. TaskRecord(r) /\ r.pc = "gone" BY <2>0, <2>3, RecordMoves
  <2> HIDE DEF r
  <2>5. Moved(t, "gone") BY <2>2, <2>4 DEF Moved
  <2> QED BY <2>0, <2>5, MoveKeepsPendingInv
<1>7. CASE ResyncFinish(t)
  <2>1. /\ connectLock = t /\ Goto(t, "send") /\ UNCHANGED <<connected, generation, pending, teardown>>
        BY <1>7 DEF ResyncFinish, PendingInv, OneConnects, readers
  <2> QED BY <1>0, <2>1, GotoMoves, MoveKeepsPendingInv DEF Connecting
<1>8. CASE SendRequest(t)
  <2>0. UNCHANGED <<connected, generation, connectLock, teardown>> BY <1>8 DEF SendRequest, readers, conn
  <2>1. CASE Request(t, task[t].op, "awaiting")
        BY <2>0, <2>1, RequestKeepsPendingInv DEF Connecting
  <2>2. CASE Goto(t, "idle") /\ UNCHANGED pending
        BY <1>0, <2>0, <2>2, GotoMoves, MoveKeepsPendingInv DEF Connecting
  <2> QED BY <1>8, <2>1, <2>2 DEF SendRequest
<1>9. CASE SendNotify(t)
  <2>1. /\ Goto(t, AfterNotify(t, connected))
        /\ UNCHANGED <<connected, generation, connectLock, pending, teardown>>
        BY <1>9 DEF SendNotify, readers, conn
  <2>2. AfterNotify(t, connected) \in {"note", "idle"} BY DEF AfterNotify
  <2> QED BY <1>0, <2>1, <2>2, GotoMoves, MoveKeepsPendingInv DEF Connecting
<1>10. CASE NoteProducer(t) \/ Returned(t)
  <2>1. Goto(t, "idle") /\ UNCHANGED <<connected, generation, connectLock, pending, teardown>>
        BY <1>10 DEF NoteProducer, Returned, readers, conn
  <2> QED BY <1>0, <2>1, GotoMoves, MoveKeepsPendingInv DEF Connecting
<1> QED BY <1>1, <1>2, <1>3, <1>4, <1>5, <1>6, <1>7, <1>8, <1>9, <1>10 DEF CallerStep

\* Every step keeps the invariant.
LEMMA StepKeepsPendingInv == ASSUME PendingInv, [Next]_vars PROVE PendingInv'
<1>0. ClientTypes BY DEF PendingInv
<1>1. CASE UNCHANGED <<connected, generation, connectLock, task, pending, teardown>>
      BY <1>1 DEF PendingInv, ClientTypes, OneConnects, PendingHasOwner, TaskRecord
<1>2. ASSUME NEW t \in Tasks, NEW op \in Ops, NEW s \in Sessions, Begin(t, op, s) PROVE PendingInv'
  <2>1. UNCHANGED <<connected, generation, connectLock, pending, teardown>>
        BY <1>2 DEF Begin, conn, readers
  <2>2. CASE UNCHANGED task BY <1>1, <2>1, <2>2
  <2>3. ASSUME NEW pc, pc \in {"send", "lockwait"},
               task' = [task EXCEPT ![t].pc = pc, ![t].op = op, ![t].s = s]
        PROVE  PendingInv'
    <3> DEFINE r == AfterBegin(task[t], pc, op, s)
    <3>1. task' = [task EXCEPT ![t] = r] BY <1>0, <2>3 DEF ClientTypes, AfterBegin
    <3>2. TaskRecord(task[t]) BY <1>0 DEF ClientTypes
    <3>3. TaskRecord(r) /\ r.pc = pc BY <3>2, RecordMoves
    <3> HIDE DEF r
    <3>4. Moved(t, pc) BY <3>1, <3>3 DEF Moved
    <3> QED BY <2>1, <2>3, <3>4, MoveKeepsPendingInv DEF Connecting
  <2> QED BY <1>2, <2>2, <2>3 DEF Begin
<1>3. ASSUME NEW t \in Tasks, TimesOut(t) PROVE PendingInv'
  <2> DEFINE lost == [kind |-> "lost", listed |-> {}]
  <2>1. /\ UNCHANGED <<connected, generation, connectLock, teardown>>
        /\ pending' = [pending EXCEPT ![t] = 0] /\ task' = [task EXCEPT ![t].got = lost]
        BY <1>3 DEF TimesOut, conn, readers
  <2>2. task' = [task EXCEPT ![t] = AfterReply(task[t], lost)] BY <1>0, <2>1 DEF ClientTypes, AfterReply
  <2> QED BY <2>1, <2>2, <1>0, OneReplied
<1>4. ASSUME NEW g \in Gens, ReadReply(g) PROVE PendingInv'
  <2> DEFINE m == Head(down[g])
  <2>1. UNCHANGED <<connected, generation, connectLock, teardown>> BY <1>4 DEF ReadReply, conn, readers
  <2>2. CASE UNCHANGED <<pending, task>> BY <1>1, <2>1, <2>2
  <2>3. CASE pending' = [pending EXCEPT ![m.t] = 0] /\ task' = [task EXCEPT ![m.t].got = m.reply]
    <3>1. CASE m.t \in Tasks
      <4>1. task' = [task EXCEPT ![m.t] = AfterReply(task[m.t], m.reply)]
            BY <1>0, <2>3, <3>1 DEF ClientTypes, AfterReply
      <4> QED BY <1>0, <2>1, <2>3, <3>1, <4>1, OneReplied
    <3>2. CASE m.t \notin Tasks
      <4>1. UNCHANGED <<pending, task>> BY <1>0, <2>3, <3>2 DEF ClientTypes
      <4> QED BY <1>1, <2>1, <4>1
    <3> QED BY <3>1, <3>2
  <2> QED BY <1>4, <2>2, <2>3 DEF ReadReply
<1>5. ASSUME NEW g \in Gens, ControlReaderEnds(g) \/ StreamReaderEnds(g) PROVE PendingInv'
      BY <1>5, DisconnectKeepsPendingInv DEF ControlReaderEnds, StreamReaderEnds
<1>6. CASE ResetConnection
  <2>1. generation \in Gens BY <1>0, <1>6, ClientAssumption DEF ResetConnection, ClientTypes, Gens
  <2> QED BY <1>6, <2>1, DisconnectKeepsPendingInv DEF ResetConnection
<1>7. ASSUME NEW g \in Gens, FinishDisconnect(g) PROVE PendingInv'
  <2> DEFINE lost == [kind |-> "lost", listed |-> {}]
  <2>1. /\ UNCHANGED <<connected, generation, connectLock>>
        /\ teardown' = [teardown EXCEPT ![g] = "done"]
        /\ pending' = [t \in Tasks |-> IF t \in Rejected(g) THEN 0 ELSE pending[t]]
        /\ task' = [t \in Tasks |-> IF t \in Rejected(g) THEN [task[t] EXCEPT !.got = lost] ELSE task[t]]
        BY <1>7 DEF FinishDisconnect, conn
  <2>2. \A t \in Tasks : task'[t] = task[t] \/ task'[t] = AfterReply(task[t], lost)
        BY <2>1 DEF AfterReply
  <2>3. \A t \in Tasks : TaskRecord(task'[t]) /\ task'[t].pc = task[t].pc
        BY <1>0, <2>2, RecordMoves DEF ClientTypes
  <2>4. ClientTypes'
    <3>1. \A t \in Tasks : TaskRecord(task[t])' BY <2>3 DEF TaskRecord
    <3>2. task' = [t \in Tasks |-> task'[t]] BY <2>1
    <3> QED BY <1>0, <2>1, <3>1, <3>2, ClientAssumption, SMTT(30) DEF ClientTypes
  <2>5. OneConnects' BY <2>1, <2>3 DEF PendingInv, OneConnects
  <2>6. PendingHasOwner'
    <3> SUFFICES ASSUME NEW t \in Tasks, pending'[t] # 0
                 PROVE  (connected /\ generation = pending'[t]) \/ teardown'[pending'[t]] = "begun"
        BY <2>1 DEF PendingHasOwner
    <3>1. pending'[t] = pending[t] /\ pending[t] # g BY <2>1 DEF Rejected
    <3> QED BY <1>0, <2>1, <3>1 DEF PendingInv, PendingHasOwner, ClientTypes
  <2> QED BY <2>4, <2>5, <2>6 DEF PendingInv
<1>8. ASSUME NEW g \in Gens, DispatchFrame(g) \/ Subscribe(g) \/ ServeRequest(g) \/ ServeNotify(g) \/ StreamLeaves(g)
      PROVE  PendingInv'
      BY <1>1, <1>8 DEF DispatchFrame, Subscribe, ServeRequest, ServeNotify, StreamLeaves, conn, readers
<1>9. ASSUME NEW s \in Sessions, ChildExits(s) \/ Output(s) PROVE PendingInv'
      BY <1>1, <1>9 DEF ChildExits, Output, conn, readers
<1>10. CASE DaemonDies \/ UNCHANGED vars BY <1>1, <1>10 DEF DaemonDies, vars, conn, readers
<1> QED BY <1>2, <1>3, <1>4, <1>5, <1>6, <1>7, <1>8, <1>9, <1>10, CallerKeepsPendingInv
        DEF Next, ConnectionStep

\* PendingHasOwner: a request that waits is stamped with the connection that is up, or
\* with one whose teardown has still to reject it: none is left to its deadline.
THEOREM PendingHasOwnerTheorem == Spec => []PendingHasOwner
<1>1. ASSUME Init PROVE PendingInv
  <2>1. task = [t \in Tasks |-> Idle] /\ TaskRecord(Idle) /\ Idle.pc = "idle"
        BY <1>1 DEF Init, Idle, TaskRecord
  <2>2. ClientTypes
    <3>1. task = [t \in Tasks |-> task[t]] /\ \A t \in Tasks : TaskRecord(task[t]) BY <2>1
    <3>2. connected = FALSE /\ generation = 0 /\ generation \in 0..MaxGen BY <1>1, ClientAssumption DEF Init
    <3>3. pending \in [Tasks -> 0..MaxGen] BY <1>1, ClientAssumption DEF Init
    <3>4. teardown \in [Gens -> {"none", "begun", "done"}] BY <1>1 DEF Init
    <3> QED BY <3>1, <3>2, <3>3, <3>4 DEF ClientTypes
  <2> QED BY <1>1, <2>1, <2>2 DEF Init, PendingInv, OneConnects, PendingHasOwner
<1>2. PendingInv => PendingHasOwner BY DEF PendingInv
<1> QED BY <1>1, <1>2, StepKeepsPendingInv, PTL DEF Spec
=============================================================================
