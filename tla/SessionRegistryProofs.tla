-------------------------- MODULE SessionRegistryProofs -------------------------
(***************************************************************************)
(* One PTY per id, and none that cannot be found, proved for any number of *)
(* callers, kills and sessions.                                            *)
(***************************************************************************)
EXTENDS SessionRegistry, TLAPS

CallStates == {"idle", "resolve", "attach", "probe", "spawn", "open", "register", "publish"}
ReaderStates == {"none", "read", "exit", "close", "rmdir", "reap", "done"}

\* The types the argument needs.
MapTypes ==
    /\ slot \in Slots /\ call \in [Callers -> CallStates] /\ mine \in [Callers -> Nat]
    /\ spawned \in Nat
    /\ alive \in [Sessions -> BOOLEAN] /\ rd \in [Sessions -> ReaderStates]

\* One call at a time holds the reservation, and the slot says so.
Exclusive ==
    /\ \A c, d \in Callers : call[c] \in Reserving /\ call[d] \in Reserving => c = d
    /\ \A c \in Callers : call[c] \in Reserving => slot.st = "pending"

\* The reader of a live session is still reading, so it neither closes nor reaps.
LiveIsRead == \A s \in Sessions : alive[s] => rd[s] = "read"

MapInv == MapTypes /\ Exclusive /\ LiveIsRead /\ LiveIsReachable

\* A step that leaves the map, the calls and the sessions alone keeps the invariant.
LEMMA MapUntouched ==
    ASSUME MapInv, UNCHANGED <<slot, call, mine, spawned, alive, rd>>
    PROVE  MapInv'
BY DEF MapInv, MapTypes, Exclusive, LiveIsRead, LiveIsReachable

\* A call that moves within its reservation, with its session, keeps the invariant.
LEMMA ReservationKept ==
    ASSUME MapInv, NEW c \in Callers, NEW to \in Reserving,
           call[c] \in Reserving, call[c] \in Spawning => to \in Spawning,
           call' = [call EXCEPT ![c] = to], UNCHANGED <<slot, mine, spawned, alive, rd>>
    PROVE  MapInv'
<1>1. MapTypes' BY DEF MapInv, MapTypes, Reserving, CallStates
<1>2. Exclusive' BY DEF MapInv, MapTypes, Exclusive
<1>3. LiveIsRead' BY DEF MapInv, LiveIsRead
<1>4. LiveIsReachable' BY DEF MapInv, MapTypes, LiveIsReachable
<1> QED BY <1>1, <1>2, <1>3, <1>4 DEF MapInv

\* Every step of a createOrAttach call keeps the invariant.
LEMMA CallKeepsInv ==
    ASSUME MapInv, NEW c \in Callers, CallArrives(c) \/ Serve(c)
    PROVE  MapInv'
<1> USE DEF MapInv, MapTypes
<1>1. CASE CallArrives(c) \/ Attach(c)
  <2>1. /\ call[c] \notin Reserving /\ UNCHANGED <<slot, mine, spawned, alive, rd>>
        /\ \E to \in CallStates \ Reserving : call' = [call EXCEPT ![c] = to]
        BY <1>1 DEF CallArrives, Attach, session, Reserving, CallStates
  <2>2. MapTypes' BY <2>1
  <2>3. Exclusive' BY <2>1 DEF Exclusive
  <2>4. LiveIsRead' BY <2>1 DEF LiveIsRead
  <2>5. LiveIsReachable' BY <2>1 DEF LiveIsReachable, Reserving, Spawning
  <2> QED BY <2>2, <2>3, <2>4, <2>5
<1>2. CASE Resolve(c)
  <2>0. UNCHANGED <<mine, spawned, alive, rd>> /\ slot.st # "pending" /\ call[c] = "resolve"
        BY <1>2 DEF Resolve, session
  <2>1. \A d \in Callers : call[d] \notin Reserving BY <2>0 DEF Exclusive
  <2>2. CASE slot.st = "live" /\ alive[slot.s]
    <3>1. call' = [call EXCEPT ![c] = "attach"] /\ slot' = slot BY <1>2, <2>2 DEF Resolve
    <3>2. MapTypes' BY <2>0, <3>1 DEF CallStates
    <3>3. Exclusive' BY <2>0, <2>1, <3>1 DEF Exclusive, Reserving
    <3>4. LiveIsRead' BY <2>0 DEF LiveIsRead
    <3>5. LiveIsReachable' BY <2>0, <2>1, <3>1 DEF LiveIsReachable, Reserving, Spawning
    <3> QED BY <3>2, <3>3, <3>4, <3>5
  <2>3. CASE ~(slot.st = "live" /\ alive[slot.s])
    <3>1. call' = [call EXCEPT ![c] = "probe"] /\ slot' = Pending BY <1>2, <2>3 DEF Resolve
    <3>2. MapTypes'
      <4>1. Pending \in Slots BY DEF Pending, Slots
      <4> QED BY <2>0, <3>1, <4>1 DEF CallStates
    <3>3. Exclusive'
      <4>1. slot'.st = "pending" BY <3>1 DEF Pending
      <4> QED BY <2>0, <2>1, <3>1, <4>1 DEF Exclusive
    <3>4. LiveIsRead' BY <2>0 DEF LiveIsRead
    <3>5. ASSUME NEW s \in Sessions, alive[s] PROVE FALSE
      <4>1. slot = Live(s) BY <2>1, <3>5 DEF LiveIsReachable, Reserving, Spawning
      <4> QED BY <2>3, <3>5, <4>1 DEF Live
    <3>6. LiveIsReachable' BY <2>0, <3>5 DEF LiveIsReachable
    <3> QED BY <3>2, <3>3, <3>4, <3>6
  <2> QED BY <2>2, <2>3
<1>3. CASE Probe(c)
      BY <1>3, ReservationKept DEF Probe, session, Reserving, Spawning
<1>4. CASE SpawnPty(c)
  <2> DEFINE n == spawned + 1
  <2>1. /\ call[c] = "spawn" /\ n \in Sessions /\ slot' = slot /\ spawned' = n
        /\ mine' = [mine EXCEPT ![c] = n] /\ call' = [call EXCEPT ![c] = "open"]
        /\ alive' = [alive EXCEPT ![n] = TRUE] /\ rd' = [rd EXCEPT ![n] = "read"]
        BY <1>4, BoundsAssumption DEF SpawnPty, Sessions
  <2> HIDE DEF n
  <2>2. MapTypes'
    <3>1. n \in Nat BY <2>1 DEF Sessions
    <3>2. call' \in [Callers -> CallStates] /\ mine' \in [Callers -> Nat] /\ spawned' \in Nat
          BY <2>1, <3>1 DEF CallStates
    <3>3. alive' \in [Sessions -> BOOLEAN] BY <2>1
    <3>4. rd' \in [Sessions -> ReaderStates] BY <2>1 DEF ReaderStates
    <3> QED BY <2>1, <3>2, <3>3, <3>4
  <2>3. Exclusive' BY <2>1 DEF Exclusive, Reserving
  <2>4. LiveIsRead' BY <2>1 DEF LiveIsRead
  <2>5. ASSUME NEW s \in Sessions, alive[s] PROVE FALSE
    <3>1. slot.st = "pending" BY <2>1 DEF Exclusive, Reserving
    <3>2. slot # Live(s) BY <3>1 DEF Live
    <3>3. PICK d \in Callers : mine[d] = s /\ call[d] \in Spawning
          BY <2>5, <3>2 DEF LiveIsReachable
    <3>4. d = c BY <2>1, <3>3 DEF Exclusive, Reserving, Spawning
    <3> QED BY <2>1, <3>3, <3>4 DEF Spawning
  <2>6. ASSUME NEW s \in Sessions, alive'[s]
        PROVE  mine'[c] = s /\ call'[c] \in Spawning
    <3>1. s = n BY <2>1, <2>5, <2>6
    <3> QED BY <2>1, <3>1 DEF Spawning
  <2>7. LiveIsReachable' BY <2>6 DEF LiveIsReachable
  <2> QED BY <2>2, <2>3, <2>4, <2>7
<1>5. CASE SpawnFails(c)
  <2>1. /\ call[c] = "spawn" /\ slot' = NoSlot /\ call' = [call EXCEPT ![c] = "idle"]
        /\ UNCHANGED <<mine, spawned, alive, rd>>
        BY <1>5 DEF SpawnFails, session
  <2>2. \A d \in Callers : d # c => call[d] \notin Reserving
        BY <2>1 DEF Exclusive, Reserving
  <2>3. MapTypes'
    <3>1. NoSlot \in Slots BY DEF NoSlot, Slots
    <3> QED BY <2>1, <3>1 DEF CallStates
  <2>4. Exclusive' BY <2>1, <2>2 DEF Exclusive, Reserving
  <2>5. LiveIsRead' BY <2>1 DEF LiveIsRead
  <2>6. ASSUME NEW s \in Sessions, alive[s] PROVE FALSE
    <3>1. slot.st = "pending" BY <2>1 DEF Exclusive, Reserving
    <3>2. slot # Live(s) BY <3>1 DEF Live
    <3> QED BY <2>1, <2>2, <2>6, <3>2 DEF LiveIsReachable, Reserving, Spawning
  <2>7. LiveIsReachable' BY <2>1, <2>6 DEF LiveIsReachable
  <2> QED BY <2>3, <2>4, <2>5, <2>7
<1>6. CASE OpenWriter(c)
      BY <1>6, ReservationKept DEF OpenWriter, session, Reserving, Spawning
<1>7. CASE Register(c)
      BY <1>7, ReservationKept DEF Register, session, Reserving, Spawning
<1>8. CASE Publish(c)
  <2>1. /\ call[c] = "publish" /\ slot' = Live(mine[c]) /\ call' = [call EXCEPT ![c] = "idle"]
        /\ mine' = [mine EXCEPT ![c] = 0] /\ UNCHANGED <<spawned, alive, rd>>
        BY <1>8 DEF Publish, session
  <2>2. \A d \in Callers : d # c => call[d] \notin Reserving
        BY <2>1 DEF Exclusive, Reserving
  <2>3. MapTypes'
    <3>1. Live(mine[c]) \in Slots BY DEF Live, Slots
    <3> QED BY <2>1, <3>1 DEF CallStates
  <2>4. Exclusive' BY <2>1, <2>2 DEF Exclusive, Reserving
  <2>5. LiveIsRead' BY <2>1 DEF LiveIsRead
  <2>6. ASSUME NEW s \in Sessions, alive[s] PROVE slot' = Live(s)
    <3>1. slot.st = "pending" BY <2>1 DEF Exclusive, Reserving
    <3>2. slot # Live(s) BY <3>1 DEF Live
    <3>3. PICK d \in Callers : mine[d] = s /\ call[d] \in Spawning
          BY <2>6, <3>2 DEF LiveIsReachable
    <3>4. d = c BY <2>2, <3>3 DEF Reserving, Spawning
    <3> QED BY <2>1, <3>3, <3>4
  <2>7. LiveIsReachable' BY <2>1, <2>6 DEF LiveIsReachable
  <2> QED BY <2>3, <2>4, <2>5, <2>7
<1> QED BY <1>1, <1>2, <1>3, <1>4, <1>5, <1>6, <1>7, <1>8 DEF Serve

\* Every step of a child or a reader thread keeps the invariant.
LEMMA ReaderKeepsInv ==
    ASSUME MapInv, NEW s \in Sessions, ChildExits(s) \/ Reader(s)
    PROVE  MapInv'
<1> USE DEF MapInv, MapTypes
<1>1. CASE ChildExits(s) BY <1>1, MapUntouched DEF ChildExits, server
<1>2. CASE ReadEof(s)
  <2>1. /\ UNCHANGED <<slot, call, mine, spawned>>
        /\ alive' = [alive EXCEPT ![s] = FALSE] /\ rd' = [rd EXCEPT ![s] = "exit"]
        BY <1>2 DEF ReadEof, server
  <2>2. MapTypes'
    <3>1. alive' \in [Sessions -> BOOLEAN] BY <2>1
    <3>2. rd' \in [Sessions -> ReaderStates] BY <2>1 DEF ReaderStates
    <3> QED BY <2>1, <3>1, <3>2
  <2>3. Exclusive' BY <2>1 DEF Exclusive
  <2>4. LiveIsRead' BY <2>1 DEF LiveIsRead
  <2>5. LiveIsReachable' BY <2>1 DEF LiveIsReachable
  <2> QED BY <2>2, <2>3, <2>4, <2>5
<1>3. CASE EmitExit(s) \/ CloseHistory(s) \/ RemoveHistory(s) \/ Reap(s)
  <2>1. /\ rd[s] # "read" /\ UNCHANGED <<call, mine, spawned, alive>>
        /\ \E to \in ReaderStates : rd' = [rd EXCEPT ![s] = to]
        /\ slot' = slot \/ (slot = Live(s) /\ slot' = NoSlot)
        BY <1>3 DEF EmitExit, CloseHistory, RemoveHistory, Reap, server, ReaderStates
  <2>2. ~alive[s] BY <2>1 DEF LiveIsRead
  <2>3. MapTypes'
    <3>1. NoSlot \in Slots BY DEF NoSlot, Slots
    <3> QED BY <2>1, <3>1
  <2>4. Exclusive'
    <3>1. slot = Live(s) => \A c \in Callers : call[c] \notin Reserving BY DEF Exclusive, Live
    <3> QED BY <2>1, <3>1 DEF Exclusive
  <2>5. LiveIsRead' BY <2>1, <2>2 DEF LiveIsRead
  <2>6. ASSUME NEW t \in Sessions, alive[t], slot = Live(t) PROVE slot' = slot
    <3>1. t # s BY <2>2, <2>6
    <3>2. Live(t).s = t /\ Live(s).s = s BY DEF Live
    <3> QED BY <2>1, <2>6, <3>1, <3>2
  <2>7. LiveIsReachable' BY <2>1, <2>6 DEF LiveIsReachable
  <2> QED BY <2>3, <2>4, <2>5, <2>7
<1> QED BY <1>1, <1>2, <1>3 DEF Reader

\* Every step keeps the invariant.
LEMMA StepKeepsInv ==
    ASSUME MapInv, [Next]_vars
    PROVE  MapInv'
<1>1. ASSUME NEW k \in Killers, KillArrives(k) \/ Kill(k)
      PROVE  MapInv'
      BY <1>1, MapUntouched
         DEF KillArrives, Kill, KillChild, KillCloses, KillRemovesDir, session
<1>2. CASE UNCHANGED vars BY <1>2, MapUntouched DEF vars, server, session
<1> QED BY <1>1, <1>2, CallKeepsInv, ReaderKeepsInv DEF Next

\* The invariant holds in the initial state.
LEMMA InitInv == Init => MapInv
<1> SUFFICES ASSUME Init PROVE MapInv OBVIOUS
<1>1. slot \in Slots BY DEF Init, NoSlot, Slots
<1>2. /\ call \in [Callers -> CallStates] /\ mine \in [Callers -> Nat] /\ spawned \in Nat
      BY DEF Init, CallStates
<1>3. alive \in [Sessions -> BOOLEAN] /\ rd \in [Sessions -> ReaderStates]
      BY DEF Init, ReaderStates
<1>4. Exclusive BY DEF Init, Exclusive, Reserving
<1>5. LiveIsRead /\ LiveIsReachable BY DEF Init, LiveIsRead, LiveIsReachable
<1> QED BY <1>1, <1>2, <1>3, <1>4, <1>5 DEF MapInv, MapTypes

\* A live session is in the map or about to be put there by its spawner, for any number
\* of concurrent createOrAttach calls, exits, reaps, takeovers and kills.
THEOREM LiveSessionIsReachable == Spec => []LiveIsReachable
<1>1. MapInv /\ [Next]_vars => MapInv' BY StepKeepsInv
<1>2. MapInv => LiveIsReachable BY DEF MapInv
<1> QED BY InitInv, <1>1, <1>2, PTL DEF Spec

\* An id never has two live PTYs: the reservation under the map lock admits one spawner,
\* and only when the slot's session is dead.
THEOREM AtMostOneLivePty == Spec => []OneLivePty
<1>1. MapInv /\ [Next]_vars => MapInv' BY StepKeepsInv
<1>2. MapInv => OneLivePty
  <2> SUFFICES ASSUME MapInv, NEW s \in Sessions, NEW t \in Sessions, alive[s], alive[t]
               PROVE  s = t
      BY DEF OneLivePty
  <2>1. Live(s).s = s /\ Live(t).s = t /\ Live(s).st = "live" /\ Live(t).st = "live"
        BY DEF Live
  <2>2. ASSUME NEW c \in Callers, call[c] \in Spawning PROVE slot.st = "pending"
        BY <2>2 DEF MapInv, Exclusive, Spawning, Reserving
  <2>3. CASE slot = Live(s) \/ slot = Live(t)
    <3>1. slot = Live(s) /\ slot = Live(t) BY <2>1, <2>2, <2>3 DEF MapInv, LiveIsReachable
    <3> QED BY <2>1, <3>1
  <2>4. CASE slot # Live(s) /\ slot # Live(t)
        BY <2>4 DEF MapInv, LiveIsReachable, Exclusive, Spawning, Reserving
  <2> QED BY <2>3, <2>4
<1> QED BY InitInv, <1>1, <1>2, PTL DEF Spec
================================================================================
