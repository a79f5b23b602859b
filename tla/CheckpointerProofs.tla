--------------------------- MODULE CheckpointerProofs ---------------------------
(*********************************************************************************)
(* Type correctness of Checkpointer, that its run loop loses no wake-up, and,    *)
(* for sessions with ids of their own, that no write splices a session's history *)
(* or takes it back.                                                             *)
(*********************************************************************************)
EXTENDS Checkpointer, TLAPS

\* Sessions' ids are ids, and the tick is a task of its own.
LEMMA ConstantFacts ==
    /\ \A s \in Sessions : IdOf[s] \in Ids
    /\ Tick \in Tasks /\ Flushers \subseteq Tasks
    /\ NoSession \notin Sessions
    /\ NoJob \in Jobs
BY ConstantsAssumption DEF Tasks, NoJob, Jobs

\* One step of a session's opener or reader, or of its child, keeps the types.
LEMMA SessionTypes ==
    ASSUME TypeOK, NEW s \in Sessions,
           Spawn(s) \/ TeeRing(s) \/ Exit(s) \/ Reader(s) \/ Opener(s)
    PROVE  TypeOK'
<1> USE ConstantFacts
<1>1. CASE Spawn(s) BY <1>1 DEF Spawn, TypeOK, registry, runloop, tasks, files
<1>2. CASE TeeRing(s) BY <1>2 DEF TeeRing, TypeOK, registry, runloop, tasks, files
<1>3. CASE Exit(s) BY <1>3 DEF Exit, TypeOK, registry, runloop, tasks, files
<1>4. CASE TeePush(s)
  <2> DEFINE full == over[s] \/ Cardinality(pend[s]) + 1 > PendingMax
  <2>1. /\ UNCHANGED <<registry, runloop, tasks, opened, alive, out, files, closes, fails, down>>
        /\ rd' \in [Sessions -> {"idle", "fed", "pushed", "bump", "notify"}]
        BY <1>4 DEF TeePush, TypeOK
  <2>2. CASE opened[s] # "enabled"
    <3>1. quiet' \in [Sessions -> SUBSET Nat] /\ UNCHANGED <<pend, over>>
          BY <1>4, <2>2 DEF TeePush, TypeOK
    <3> QED BY <2>1, <3>1 DEF TypeOK, registry, runloop, tasks, files
  <2>3. CASE opened[s] = "enabled"
    <3>1. full \in BOOLEAN BY DEF TypeOK
    <3>2. /\ over' = [over EXCEPT ![s] = full]
          /\ pend' = [pend EXCEPT ![s] = IF full THEN {} ELSE @ \cup {out[s]}]
          /\ UNCHANGED quiet
          BY <1>4, <2>3 DEF TeePush
    <3> HIDE DEF full
    <3>3. over' \in [Sessions -> BOOLEAN] BY <3>1, <3>2 DEF TypeOK
    <3>4. pend' \in [Sessions -> SUBSET Nat] BY <3>2 DEF TypeOK
    <3> QED BY <2>1, <3>2, <3>3, <3>4 DEF TypeOK, registry, runloop, tasks, files
  <2> QED BY <2>2, <2>3
<1>5. CASE MarkDirtyCheck(s)
      BY <1>5 DEF MarkDirtyCheck, TypeOK, registry, runloop, tasks, files
<1>6. CASE MarkDirtyBump(s)
      BY <1>6 DEF MarkDirtyBump, TypeOK, registry, runloop, tasks, files
<1>7. CASE MarkDirtyNotify(s)
      BY <1>7 DEF MarkDirtyNotify, TypeOK, registry, runloop, tasks, files
<1>8. CASE OpenSession(s)
      BY <1>8 DEF OpenSession, TypeOK, registry, runloop, tasks, files
<1>9. CASE InsertEntry(s)
      BY <1>9 DEF InsertEntry, TypeOK, registry, runloop, tasks, files
<1>10. CASE MarkOpened(s)
  <2>1. dirty' \in [Ids -> Nat] BY <1>10 DEF MarkOpened, TypeOK
  <2>2. permit' \in BOOLEAN BY <1>10, Zenon DEF MarkOpened, TypeOK
  <2>3. opened' \in [Sessions -> {"none", "spawned", "locked", "inserted", "marked",
                                 "enabled", "plain"}]
        BY <1>10 DEF MarkOpened, TypeOK
  <2> QED BY <1>10, <2>1, <2>2, <2>3 DEF MarkOpened, TypeOK, runloop, tasks, files
<1>11. CASE EnableHistory(s)
      BY <1>11 DEF EnableHistory, TypeOK, registry, runloop, tasks, files
<1> QED BY <1>1, <1>2, <1>3, <1>4, <1>5, <1>6, <1>7, <1>8, <1>9, <1>10, <1>11
        DEF Reader, Opener
\* A task that persists has a session to persist.
JobsHaveSessions ==
    \A p \in Tasks :
        job[p].pc \in {"begin", "rebuild", "full", "append", "finish"} => job[p].h \in Sessions

TypeInv == TypeOK /\ JobsHaveSessions

\* One step of a session keeps the type invariant.
LEMMA SessionTypeInv ==
    ASSUME TypeInv, NEW s \in Sessions,
           Spawn(s) \/ TeeRing(s) \/ Exit(s) \/ Reader(s) \/ Opener(s)
    PROVE  TypeInv'
<1>1. TypeOK' BY SessionTypes DEF TypeInv
<1>2. job' = job
      BY DEF Spawn, TeeRing, Exit, Reader, Opener, TeePush, MarkDirtyCheck, MarkDirtyBump,
             MarkDirtyNotify, OpenSession, InsertEntry, MarkOpened, EnableHistory, tasks
<1> QED BY <1>1, <1>2 DEF TypeInv, JobsHaveSessions

\* Setting a task's job to a proper one keeps the jobs typed.
LEMMA JobUpdate ==
    ASSUME TypeInv, NEW p \in Tasks, NEW j \in Jobs, job' = [job EXCEPT ![p] = j],
           j.pc \in {"begin", "rebuild", "full", "append", "finish"} => j.h \in Sessions
    PROVE  job' \in [Tasks -> Jobs] /\ JobsHaveSessions'
<1>1. job \in [Tasks -> Jobs] BY DEF TypeInv, TypeOK
<1>2. job' \in [Tasks -> Jobs] BY <1>1
<1>3. ASSUME NEW q \in Tasks, job'[q].pc \in {"begin", "rebuild", "full", "append", "finish"}
      PROVE  job'[q].h \in Sessions
  <2>1. CASE q = p BY <1>1, <1>3, <2>1
  <2>2. CASE q # p BY <1>1, <1>3, <2>2 DEF TypeInv, JobsHaveSessions
  <2> QED BY <2>1, <2>2
<1> QED BY <1>2, <1>3 DEF JobsHaveSessions

\* The persist of one task keeps the type invariant.
LEMMA PersistTypes ==
    ASSUME TypeInv, NEW p \in Tasks, Persist(p)
    PROVE  TypeInv'
<1> USE ConstantFacts
<1> DEFINE s == job[p].h
           j == job[p]
<1>0. /\ j \in Jobs /\ s \in Sessions /\ out[s] \in Nat /\ pend[s] \in SUBSET Nat
      /\ IdOf[s] \in Ids /\ dir[IdOf[s]] \in Sessions \cup {NoSession}
      BY DEF TypeInv, TypeOK, JobsHaveSessions, Persist, PersistBegin, Rebuild, WriteFull,
             WriteFullFails, WriteAppend, WriteAppendCapped, WriteAppendFails
<1>1. ASSUME NEW r \in {"ok", "retry", "disabled"}, Done(p, r)
      PROVE  job' \in [Tasks -> Jobs] /\ JobsHaveSessions'
  <2>1. [j EXCEPT !.pc = "finish", !.res = r] \in Jobs BY <1>0 DEF Jobs
  <2>2. [j EXCEPT !.pc = "finish", !.res = r].h \in Sessions BY <1>0 DEF Jobs
  <2>3. job' = [job EXCEPT ![p] = [j EXCEPT !.pc = "finish", !.res = r]]
        BY <1>1 DEF Done, TypeInv, TypeOK
  <2> HIDE DEF j
  <2> QED BY <2>1, <2>2, <2>3, JobUpdate
<1>2. ASSUME ToFull(p)
      PROVE  job' \in [Tasks -> Jobs] /\ JobsHaveSessions'
  <2>1. [j EXCEPT !.pc = "full", !.hi = out[s]] \in Jobs BY <1>0 DEF Jobs
  <2>2. [j EXCEPT !.pc = "full", !.hi = out[s]].h \in Sessions BY <1>0 DEF Jobs
  <2>3. job' = [job EXCEPT ![p] = [j EXCEPT !.pc = "full", !.hi = out[s]]]
        BY <1>2 DEF ToFull, Target, TypeInv, TypeOK
  <2> HIDE DEF j, s
  <2> QED BY <2>1, <2>2, <2>3, JobUpdate
<1>3. CASE PersistBegin(p)
  <2>1. pend' \in [Sessions -> SUBSET Nat]
        BY <1>0, <1>3 DEF PersistBegin, Target, TypeInv, TypeOK
  <2>2. over' \in [Sessions -> BOOLEAN]
        BY <1>0, <1>3, Zenon DEF PersistBegin, Target, TypeInv, TypeOK
  <2>3. job' \in [Tasks -> Jobs] /\ JobsHaveSessions'
    <3>1. CASE ToFull(p) BY <3>1, <1>2
    <3>2. CASE Done(p, "ok") BY <3>2, <1>1
    <3>3. CASE ToAppend(p, pend[s])
      <4>1. [j EXCEPT !.pc = "append", !.recs = pend[s]] \in Jobs BY <1>0 DEF Jobs
      <4>2. [j EXCEPT !.pc = "append", !.recs = pend[s]].h \in Sessions BY <1>0 DEF Jobs
      <4>3. job' = [job EXCEPT ![p] = [j EXCEPT !.pc = "append", !.recs = pend[s]]]
            BY <3>3 DEF ToAppend, TypeInv, TypeOK
      <4> HIDE DEF j, s
      <4> QED BY <4>1, <4>2, <4>3, JobUpdate
    <3> QED BY <1>3, <3>1, <3>2, <3>3 DEF PersistBegin, Target
  <2> QED BY <1>3, <2>1, <2>2, <2>3
          DEF PersistBegin, TypeInv, TypeOK, registry, runloop, files
<1>4. CASE Rebuild(p)
      BY <1>2, <1>4 DEF Rebuild, TypeInv, TypeOK, registry, runloop, sessions, files
<1>5. CASE WriteFull(p)
  <2>1. disk' \in [Sessions -> SUBSET Nat]
    <3>1. 1 .. job[p].hi \in SUBSET Nat BY <1>0 DEF Jobs
    <3> QED BY <1>0, <1>5, <3>1 DEF WriteFull, Target, IdFor, TypeInv, TypeOK
  <2>2. anchor' \in [Sessions -> BOOLEAN]
        BY <1>0, <1>5 DEF WriteFull, Target, TypeInv, TypeOK
  <2>3. Done(p, "ok") BY <1>5 DEF WriteFull
  <2> QED BY <1>1, <1>5, <2>1, <2>2, <2>3
          DEF WriteFull, TypeInv, TypeOK, registry, runloop, sessions
<1>6. WriteFullFails(p) \/ WriteAppendFails(p) => fails' \in Nat
      BY DEF WriteFullFails, WriteAppendFails, WriteFails, TypeInv, TypeOK
<1>7. CASE WriteFullFails(p)
      BY <1>1, <1>6, <1>7 DEF WriteFullFails, TypeInv, TypeOK, registry, runloop, sessions, files
<1>8. CASE WriteAppend(p)
  <2>1. disk' \in [Sessions -> SUBSET Nat]
    <3>1. PICK kept \in SUBSET disk[dir[IdFor(p)]] :
             disk' = [disk EXCEPT ![dir[IdFor(p)]] =
                         IF DirOwn(p) THEN kept \cup job[p].recs ELSE kept]
          BY <1>8 DEF WriteAppend
    <3>2. dir[IdFor(p)] \in Sessions
          BY <1>0, <1>8 DEF WriteAppend, DirThere, Target, IdFor, TypeInv, TypeOK
    <3>3. kept \in SUBSET Nat /\ job[p].recs \in SUBSET Nat
          BY <1>0, <3>1, <3>2 DEF TypeInv, TypeOK, Jobs
    <3> QED BY <3>1, <3>2, <3>3 DEF TypeInv, TypeOK
  <2>2. Done(p, "ok") BY <1>8 DEF WriteAppend
  <2> QED BY <1>1, <1>8, <2>1, <2>2
          DEF WriteAppend, TypeInv, TypeOK, registry, runloop, sessions
<1>9. CASE WriteAppendCapped(p)
  <2>1. [j EXCEPT !.pc = "rebuild"] \in Jobs BY <1>0 DEF Jobs
  <2>2. [j EXCEPT !.pc = "rebuild"].h \in Sessions BY <1>0 DEF Jobs
  <2>3. job' = [job EXCEPT ![p] = [j EXCEPT !.pc = "rebuild"]]
        BY <1>9 DEF WriteAppendCapped, TypeInv, TypeOK
  <2>4. job' \in [Tasks -> Jobs] /\ JobsHaveSessions'
    <3> HIDE DEF j
    <3> QED BY <2>1, <2>2, <2>3, JobUpdate
  <2> QED BY <1>9, <2>4
          DEF WriteAppendCapped, TypeInv, TypeOK, registry, runloop, sessions, files
<1>10. CASE WriteAppendFails(p)
  <2>1. anchor' \in [Sessions -> BOOLEAN]
        BY <1>0, <1>10 DEF WriteAppendFails, Target, TypeInv, TypeOK
  <2>2. Done(p, "retry") BY <1>10 DEF WriteAppendFails
  <2> QED BY <1>1, <1>6, <1>10, <2>1, <2>2
          DEF WriteAppendFails, TypeInv, TypeOK, registry, runloop, sessions
<1> QED BY <1>3, <1>4, <1>5, <1>7, <1>8, <1>9, <1>10 DEF Persist

\* The registry without one id is a registry.
LEMMA RemoveEntryTypes ==
    ASSUME TypeOK, NEW i \in Ids, RemoveEntry(i)
    PROVE  entries' \in [Ids -> Sessions \cup {NoSession}] /\ dirty' \in [Ids -> Nat]
BY DEF RemoveEntry, TypeOK

\* A task that takes a session's in-flight guard has a proper job.
LEMMA AcquireTypes ==
    ASSUME TypeInv, NEW p \in Tasks, NEW s \in Sessions, Acquire(p, s)
    PROVE  /\ job' \in [Tasks -> Jobs] /\ JobsHaveSessions'
           /\ inflight' \in [Sessions -> BOOLEAN]
<1>1. [NoJob EXCEPT !.pc = "begin", !.h = s] \in Jobs BY DEF NoJob, Jobs
<1>2. [NoJob EXCEPT !.pc = "begin", !.h = s].h \in Sessions BY DEF NoJob
<1>3. job' = [job EXCEPT ![p] = [NoJob EXCEPT !.pc = "begin", !.h = s]] BY DEF Acquire
<1>4. job' \in [Tasks -> Jobs] /\ JobsHaveSessions'
  <2> DEFINE j == [NoJob EXCEPT !.pc = "begin", !.h = s]
  <2>1. j \in Jobs /\ j.h \in Sessions /\ job' = [job EXCEPT ![p] = j] BY <1>1, <1>2, <1>3
  <2> HIDE DEF j
  <2> QED BY <2>1, JobUpdate
<1>5. inflight' \in [Sessions -> BOOLEAN] BY DEF Acquire, TypeInv, TypeOK
<1> QED BY <1>4, <1>5

\* A task that lets go of its job has none, or goes on flushing or stopping.
LEMMA ReleaseTypes ==
    ASSUME TypeInv, NEW p \in Tasks, NEW c \in {"off", "next", "stop"},
           job' = [job EXCEPT ![p] = [NoJob EXCEPT !.pc = c]]
    PROVE  job' \in [Tasks -> Jobs] /\ JobsHaveSessions'
<1> DEFINE j == [NoJob EXCEPT !.pc = c]
<1>1. j \in Jobs /\ j.pc = c BY ConstantFacts DEF NoJob, Jobs
<1>2. job' = [job EXCEPT ![p] = j] OBVIOUS
<1> HIDE DEF j
<1> QED BY <1>1, <1>2, JobUpdate

\* A step of the run loop keeps the type invariant.
LEMMA LoopTypes ==
    ASSUME TypeInv, Loop
    PROVE  TypeInv'
<1> USE ConstantFacts
<1>1. CASE Wake
      BY <1>1 DEF Wake, TypeInv, TypeOK, JobsHaveSessions, tasks, sessions, files
<1>2. CASE TickStart
  <2>1. todo' \subseteq Ids \X Nat BY <1>2 DEF TickStart, DirtyIds, TypeInv, TypeOK
  <2> QED BY <1>2, <2>1
          DEF TickStart, TypeInv, TypeOK, JobsHaveSessions, registry, tasks, sessions, files
<1>3. CASE TickEnd
      BY <1>3 DEF TickEnd, TypeInv, TypeOK, JobsHaveSessions, registry, tasks, sessions, files
<1>4. CASE TickFinish
  <2> DEFINE s == job[Tick].h
  <2>1. s \in Sessions /\ IdFor(Tick) \in Ids /\ job[Tick] \in Jobs
        BY <1>4 DEF TickFinish, TypeInv, TypeOK, JobsHaveSessions, IdFor
  <2>2. entries' \in [Ids -> Sessions \cup {NoSession}] /\ dirty' \in [Ids -> Nat]
    <3>1. CASE job[Tick].res = "ok"
          BY <1>4, <2>1, <3>1 DEF TickFinish, TypeInv, TypeOK
    <3>2. CASE job[Tick].res = "retry"
          BY <1>4, <2>1, <3>2 DEF TickFinish, TypeInv, TypeOK
    <3>3. CASE job[Tick].res = "disabled"
      <4>1. RemoveEntry(IdFor(Tick)) BY <1>4, <3>3 DEF TickFinish
      <4> QED BY <2>1, <4>1, RemoveEntryTypes DEF TypeInv
    <3> QED BY <2>1, <3>1, <3>2, <3>3 DEF Jobs
  <2>3. inflight' \in [Sessions -> BOOLEAN]
        BY <1>4, <2>1 DEF TickFinish, Target, TypeInv, TypeOK
  <2>4. job' \in [Tasks -> Jobs] /\ JobsHaveSessions'
    <3>1. job' = [job EXCEPT ![Tick] = [NoJob EXCEPT !.pc = "off"]]
          BY <1>4 DEF TickFinish, NoJob
    <3> QED BY <3>1, ReleaseTypes
  <2> QED BY <1>4, <2>2, <2>3, <2>4
          DEF TickFinish, TypeInv, TypeOK, runloop, sessions, files
<1>5. ASSUME NEW iv \in todo, TickUnregistered(iv)
      PROVE  TypeInv'
  <2>1. iv[1] \in Ids BY DEF TypeInv, TypeOK
  <2>2. dirty' \in [Ids -> Nat] BY <1>5, <2>1 DEF TickUnregistered, TypeInv, TypeOK
  <2> QED BY <1>5, <2>2
          DEF TickUnregistered, TypeInv, TypeOK, JobsHaveSessions, tasks, sessions, files
<1>6. ASSUME NEW iv \in todo, TickBusy(iv)
      PROVE  TypeInv'
      BY <1>6 DEF TickBusy, TypeInv, TypeOK, JobsHaveSessions, registry, tasks, sessions, files
<1>7. ASSUME NEW iv \in todo, TickSession(iv)
      PROVE  TypeInv'
  <2>1. iv[1] \in Ids /\ iv[2] \in Nat /\ entries[iv[1]] \in Sessions
        BY <1>7 DEF TickSession, TypeInv, TypeOK
  <2>2. Acquire(Tick, entries[iv[1]]) BY <1>7 DEF TickSession
  <2>3. /\ job' \in [Tasks -> Jobs] /\ JobsHaveSessions'
        /\ inflight' \in [Sessions -> BOOLEAN]
        BY <2>1, <2>2, AcquireTypes
  <2> QED BY <1>7, <2>1, <2>3 DEF TickSession, TypeInv, TypeOK, registry, sessions, files
<1> QED BY <1>1, <1>2, <1>3, <1>4, <1>5, <1>6, <1>7 DEF Loop

\* A step of a flush or of a shutdown keeps the type invariant.
LEMMA FlushTypes ==
    ASSUME TypeInv, NEW f \in Flushers, FlushStart(f) \/ Flush(f)
    PROVE  TypeInv'
<1> USE ConstantFacts
<1>0. f \in Tasks OBVIOUS
<1>1. CASE FlushStart(f)
  <2> DEFINE j == [job[f] EXCEPT !.pc = "next"]
  <2>1. job[f] \in Jobs BY <1>0 DEF TypeInv, TypeOK
  <2>2. j \in Jobs /\ j.pc = "next" BY <2>1 DEF Jobs
  <2>3. job' = [job EXCEPT ![f] = j] BY <1>1 DEF FlushStart
  <2>4. job' \in [Tasks -> Jobs] /\ JobsHaveSessions'
    <3> HIDE DEF j
    <3> QED BY <1>0, <2>2, <2>3, JobUpdate
  <2>5. handles' \in [Flushers -> SUBSET Sessions] BY <1>1 DEF FlushStart, TypeInv, TypeOK
  <2> QED BY <1>1, <2>4, <2>5
          DEF FlushStart, TypeInv, TypeOK, registry, runloop, sessions, files
<1>2. CASE FlushFinish(f)
  <2>1. job[f].h \in Sessions BY <1>0, <1>2 DEF FlushFinish, TypeInv, JobsHaveSessions
  <2>2. inflight' \in [Sessions -> BOOLEAN]
        BY <1>2, <2>1 DEF FlushFinish, Target, TypeInv, TypeOK
  <2>3. job' \in [Tasks -> Jobs] /\ JobsHaveSessions'
        BY <1>0, <1>2, ReleaseTypes DEF FlushFinish
  <2> QED BY <1>2, <2>2, <2>3
          DEF FlushFinish, TypeInv, TypeOK, registry, runloop, sessions, files
<1>3. CASE FlushEnd(f)
  <2>1. job' \in [Tasks -> Jobs] /\ JobsHaveSessions'
    <3> DEFINE c == IF f \in Stoppers THEN "stop" ELSE "off"
    <3>1. c \in {"off", "next", "stop"} /\ job' = [job EXCEPT ![f] = [NoJob EXCEPT !.pc = c]]
          BY <1>3 DEF FlushEnd
    <3> HIDE DEF c
    <3> QED BY <1>0, <3>1, ReleaseTypes
  <2>2. dirty' \in [Ids -> Nat] /\ closing' \subseteq Ids
        BY <1>3 DEF FlushEnd, TypeInv, TypeOK
  <2> QED BY <1>3, <2>1, <2>2 DEF FlushEnd, TypeInv, TypeOK, runloop, sessions, files
<1>4. CASE StopEnd(f)
  <2>1. job' \in [Tasks -> Jobs] /\ JobsHaveSessions'
    <3>1. job' = [job EXCEPT ![f] = [NoJob EXCEPT !.pc = "off"]] BY <1>4 DEF StopEnd, NoJob
    <3> QED BY <1>0, <3>1, ReleaseTypes
  <2> QED BY <1>4, <2>1 DEF StopEnd, TypeInv, TypeOK, registry, sessions, files
<1>5. ASSUME NEW s \in Sessions, FlushSession(f, s)
      PROVE  TypeInv'
  <2>1. Acquire(f, s) BY <1>5 DEF FlushSession
  <2>2. /\ job' \in [Tasks -> Jobs] /\ JobsHaveSessions'
        /\ inflight' \in [Sessions -> BOOLEAN]
        BY <1>0, <2>1, AcquireTypes
  <2>3. handles' \in [Flushers -> SUBSET Sessions] BY <1>5 DEF FlushSession, TypeInv, TypeOK
  <2> QED BY <1>5, <2>2, <2>3
          DEF FlushSession, TypeInv, TypeOK, registry, runloop, sessions, files
<1>6. ASSUME NEW i \in Ids, StopClose(f, i)
      PROVE  TypeInv'
  <2>1. entries' \in [Ids -> Sessions \cup {NoSession}] /\ dirty' \in [Ids -> Nat]
        BY <1>6, RemoveEntryTypes DEF StopClose, TypeInv
  <2>2. dir' \in [Ids -> Sessions \cup {NoSession}] BY <1>6 DEF StopClose, TypeInv, TypeOK
  <2> QED BY <1>6, <2>1, <2>2
          DEF StopClose, TypeInv, TypeOK, JobsHaveSessions, runloop, sessions
<1> QED BY <1>1, <1>2, <1>3, <1>4, <1>5, <1>6 DEF Flush

\* Every step keeps the type invariant.
LEMMA StepTypes ==
    ASSUME TypeInv, [Next]_vars
    PROVE  TypeInv'
<1>1. ASSUME NEW i \in Ids, Close(i)
      PROVE  TypeInv'
  <2>1. entries' \in [Ids -> Sessions \cup {NoSession}] /\ dirty' \in [Ids -> Nat]
        BY <1>1, RemoveEntryTypes DEF Close, TypeInv
  <2>2. dir' \in [Ids -> Sessions \cup {NoSession}]
        BY <1>1 DEF Close, TypeInv, TypeOK
  <2> QED BY <1>1, <2>1, <2>2 DEF Close, TypeInv, TypeOK, JobsHaveSessions, runloop, tasks, sessions
<1>2. CASE UNCHANGED vars
      BY <1>2 DEF vars, TypeInv, TypeOK, JobsHaveSessions, registry, runloop, tasks, sessions, files
<1> QED BY <1>1, <1>2, SessionTypeInv, PersistTypes, LoopTypes, FlushTypes DEF Next

\* The initial state satisfies the type invariant.
LEMMA InitTypes == Init => TypeInv
<1> SUFFICES ASSUME Init PROVE TypeInv OBVIOUS
<1>1. job \in [Tasks -> Jobs] BY ConstantFacts DEF Init
<1>2. \A p \in Tasks : job[p].pc = "off" BY DEF Init, NoJob
<1>3. JobsHaveSessions BY <1>2 DEF JobsHaveSessions
<1>4. /\ entries \in [Ids -> Sessions \cup {NoSession}] /\ dirty \in [Ids -> Nat]
      /\ permit \in BOOLEAN /\ loop = "parked" /\ todo \subseteq Ids \X Nat /\ ver \in Nat
      /\ handles \in [Flushers -> SUBSET Sessions] /\ closing \subseteq Ids
      /\ dir \in [Ids -> Sessions \cup {NoSession}] /\ closes \in Nat /\ fails \in Nat
      /\ down \in BOOLEAN
      BY DEF Init
<1>5. /\ inflight \in [Sessions -> BOOLEAN] /\ alive \in [Sessions -> BOOLEAN]
      /\ over \in [Sessions -> BOOLEAN] /\ anchor \in [Sessions -> BOOLEAN]
      BY DEF Init
<1>6. /\ out \in [Sessions -> Nat] /\ pend \in [Sessions -> SUBSET Nat]
      /\ quiet \in [Sessions -> SUBSET Nat] /\ disk \in [Sessions -> SUBSET Nat]
      BY DEF Init
<1>7. /\ opened \in [Sessions -> {"none", "spawned", "locked", "inserted", "marked",
                                "enabled", "plain"}]
      /\ rd \in [Sessions -> {"idle", "fed", "pushed", "bump", "notify"}]
      BY DEF Init
<1> QED BY <1>1, <1>3, <1>4, <1>5, <1>6, <1>7 DEF TypeInv, TypeOK

\* The types hold at every step of the dirty protocol, for any set of sessions, ids
\* and flushes: no interleaving of readers, ticks, flushes, closes and failures
\* leaves a task persisting a session it does not have.
THEOREM TypeCorrect == Spec => []TypeOK
<1>1. Init => TypeInv BY InitTypes
<1>2. TypeInv /\ [Next]_vars => TypeInv' BY StepTypes
<1>3. TypeInv => TypeOK BY DEF TypeInv
<1> QED BY <1>1, <1>2, <1>3, PTL DEF Spec

\* No wake-up is lost: whenever the run loop of the checkpointer waits for a
\* notification while some session is dirty, one is stored or a reader thread that
\* has bumped a version is about to send it, for any number of sessions and flushes.
THEOREM WakeupNotLost == Spec => []NoLostWakeup
<1> DEFINE Inv == TypeInv /\ NoLostWakeup
<1>1. Init => Inv
  <2>1. Init => TypeInv BY InitTypes
  <2>2. Init => NoLostWakeup BY DEF Init, NoLostWakeup, DirtyIds
  <2> QED BY <2>1, <2>2
<1>2. ASSUME Inv, [Next]_vars
      PROVE  Inv'
  <2>0. TypeInv' BY <1>2, StepTypes
  <2> SUFFICES ASSUME loop' = "parked", DirtyIds' # {}
               PROVE  permit' \/ \E s \in Sessions : rd'[s] = "notify"
      BY <2>0 DEF NoLostWakeup
  \* A step that leaves the loop, the permit and the readers alone and adds no dirt.
  <2>1. ASSUME loop' = loop, permit' = permit, rd' = rd,
               \A i \in Ids : dirty'[i] = dirty[i] \/ dirty'[i] = 0
        PROVE  permit' \/ \E s \in Sessions : rd'[s] = "notify"
        BY <1>2, <2>1 DEF NoLostWakeup, DirtyIds
  <2>2. ASSUME NEW s \in Sessions, Spawn(s) \/ TeeRing(s) \/ Exit(s) \/ Reader(s) \/ Opener(s)
        PROVE  permit' \/ \E t \in Sessions : rd'[t] = "notify"
    <3>1. CASE Spawn(s) \/ Exit(s) \/ OpenSession(s) \/ InsertEntry(s) \/ EnableHistory(s)
          BY <2>1, <3>1 DEF Spawn, Exit, OpenSession, InsertEntry, EnableHistory, registry, runloop
    <3>2. CASE MarkDirtyNotify(s) BY <3>2 DEF MarkDirtyNotify
    <3>3. CASE MarkDirtyBump(s)
          BY <1>2, <3>3 DEF MarkDirtyBump, TypeInv, TypeOK
    <3>4. CASE MarkOpened(s)
      <4>1. CASE entries[IdOf[s]] = NoSession
            BY <2>1, <3>4, <4>1 DEF MarkOpened, runloop
      <4>2. CASE entries[IdOf[s]] # NoSession BY <3>4, <4>2 DEF MarkOpened
      <4> QED BY <4>1, <4>2
    <3>5. CASE TeeRing(s) \/ TeePush(s) \/ MarkDirtyCheck(s)
      <4>1. /\ loop' = loop /\ permit' = permit /\ dirty' = dirty /\ rd[s] # "notify"
            /\ \A t \in Sessions : t # s => rd'[t] = rd[t]
            BY <1>2, <3>5 DEF TeeRing, TeePush, MarkDirtyCheck, registry, runloop, TypeInv, TypeOK
      <4>2. permit \/ \E t \in Sessions : rd[t] = "notify"
            BY <1>2, <4>1 DEF NoLostWakeup, DirtyIds
      <4> QED BY <4>1, <4>2
    <3> QED BY <2>2, <3>1, <3>2, <3>3, <3>4, <3>5 DEF Reader, Opener
  <2>3. ASSUME NEW i \in Ids, Close(i)
        PROVE  permit' \/ \E s \in Sessions : rd'[s] = "notify"
        BY <1>2, <2>1, <2>3 DEF Close, RemoveEntry, runloop, sessions, TypeInv, TypeOK
  <2>4. ASSUME NEW p \in Tasks, Persist(p)
        PROVE  permit' \/ \E s \in Sessions : rd'[s] = "notify"
        BY <2>1, <2>4 DEF Persist, PersistBegin, Rebuild, WriteFull, WriteFullFails, WriteAppend,
                WriteAppendCapped, WriteAppendFails, registry, runloop, sessions
  <2>5. ASSUME Loop
        PROVE  permit' \/ \E s \in Sessions : rd'[s] = "notify"
    <3>1. CASE Wake \/ TickStart BY <3>1 DEF Wake, TickStart
    <3>2. CASE TickEnd BY <3>2 DEF TickEnd, registry, DirtyIds
    <3>3. CASE TickFinish
      <4>1. \A i \in Ids : dirty'[i] = dirty[i] \/ dirty'[i] = 0
            BY <1>2, <3>3 DEF TickFinish, RemoveEntry, TypeInv, TypeOK, Jobs, Tasks
      <4> QED BY <2>1, <3>3, <4>1 DEF TickFinish, runloop, sessions
    <3>4. ASSUME NEW iv \in todo, TickUnregistered(iv) \/ TickBusy(iv) \/ TickSession(iv)
          PROVE  FALSE
          BY <3>4 DEF TickUnregistered, TickBusy, TickSession, Ticking
    <3> QED BY <2>5, <3>1, <3>2, <3>3, <3>4 DEF Loop
  <2>6. ASSUME NEW f \in Flushers, FlushStart(f) \/ Flush(f)
        PROVE  permit' \/ \E s \in Sessions : rd'[s] = "notify"
    <3>1. CASE FlushStart(f) BY <2>1, <3>1 DEF FlushStart, registry, runloop, sessions
    <3>2. CASE FlushFinish(f) BY <2>1, <3>2 DEF FlushFinish, registry, runloop, sessions
    <3>3. CASE FlushEnd(f) BY <3>3 DEF FlushEnd, DirtyIds
    <3>4. CASE StopEnd(f) BY <2>1, <3>4 DEF StopEnd, registry, sessions
    <3>5. ASSUME NEW s \in Sessions, FlushSession(f, s)
          PROVE  permit' \/ \E t \in Sessions : rd'[t] = "notify"
          BY <2>1, <3>5 DEF FlushSession, registry, runloop, sessions
    <3>6. ASSUME NEW i \in Ids, StopClose(f, i)
          PROVE  permit' \/ \E t \in Sessions : rd'[t] = "notify"
          BY <1>2, <2>1, <3>6 DEF StopClose, RemoveEntry, runloop, sessions, TypeInv, TypeOK
    <3> QED BY <2>6, <3>1, <3>2, <3>3, <3>4, <3>5, <3>6 DEF Flush
  <2>7. CASE UNCHANGED vars
        BY <2>1, <2>7 DEF vars, registry, runloop, sessions
  <2> QED BY <1>2, <2>2, <2>3, <2>4, <2>5, <2>6, <2>7 DEF Next
<1>3. Inv => NoLostWakeup OBVIOUS
<1> QED BY <1>1, <1>2, <1>3, PTL DEF Spec

(***************************************************************************)
(* Sessions with ids of their own: nothing is rolled back and no hole is   *)
(* left, whichever of tick and flush writes and whichever write fails      *)
(***************************************************************************)
\* No id is used twice.  A writer whose directory a successor has taken over writes into
\* it, so neither property holds without this.
IdsOwn == \A s, t \in Sessions : IdOf[s] = IdOf[t] => s = t

Active(p) == job[p].pc \in {"begin", "rebuild", "full", "append", "finish"}

\* A task that persists holds its session's guard, no two hold one, and one that does
\* not persist has no session.
Exclusive ==
    /\ \A p \in Tasks : IF Active(p) THEN inflight[job[p].h] ELSE job[p].h = NoSession
    /\ \A p, q \in Tasks : Active(p) /\ Active(q) /\ job[p].h = job[q].h => p = q

\* Registry and paths name sessions of their id.
Addressed ==
    \A i \in Ids : /\ entries[i] # NoSession => IdOf[entries[i]] = i
                   /\ dir[i] # NoSession => IdOf[dir[i]] = i

\* A session that is not registered yet has never been persisted.
Fresh ==
    \A s \in Sessions : opened[s] \in {"none", "spawned", "locked"} =>
        /\ anchor[s] /\ entries[IdOf[s]] # s
        /\ \A p \in Tasks : job[p].h # s
        /\ \A f \in Flushers : s \notin handles[f]

\* The chunks that have passed the tee, a chunk in the ring alone excepted.
Teed(s) == IF rd[s] = "fed" THEN 1 .. (out[s] - 1) ELSE 1 .. out[s]

\* Nothing is on disk or pending that the session has not put out.
Produced ==
    \A s \in Sessions :
        /\ rd[s] = "fed" => out[s] # 0
        /\ disk[s] \subseteq 1 .. out[s] /\ pend[s] \subseteq Teed(s)

\* The full checkpoint a task is about to write has what is on disk, and what is pending
\* has the rest.
FullHasAll(s, hi) ==
    /\ disk[s] \subseteq 1 .. hi /\ hi <= out[s]
    /\ ~over[s] => Teed(s) \ quiet[s] \subseteq (1 .. hi) \cup pend[s]
FullsHaveAll == \A p \in Tasks : job[p].pc = "full" => FullHasAll(job[p].h, job[p].hi)

\* Only the tick appends, and the records it has drained fit what is on disk.
AppendFits ==
    /\ \A f \in Flushers : job[f].pc \notin {"append", "rebuild"}
    /\ job[Tick].pc = "append" =>
          LET s == job[Tick].h IN
          /\ job[Tick].recs \subseteq 1 .. out[s]
          /\ \A c \in job[Tick].recs : (1 .. c) \ quiet[s] \subseteq disk[s] \cup job[Tick].recs

\* The tick persists s, or may still do so, without a full checkpoint being due.
Reach(s) ==
    IF job[Tick].h = s
    THEN \/ job[Tick].pc \in {"begin", "append"}
         \/ job[Tick].pc = "finish" /\ job[Tick].res # "disabled" /\ entries[IdOf[s]] = s
    ELSE entries[IdOf[s]] = s

Drained(s) == IF job[Tick].h = s /\ job[Tick].pc = "append" THEN job[Tick].recs ELSE {}

\* A session whose next persist may be an increment has every chunk it logged on disk,
\* pending, or in the hands of the tick.
NothingDropped ==
    \A s \in Sessions : ~anchor[s] /\ ~over[s] /\ Reach(s) =>
        Teed(s) \ quiet[s] \subseteq disk[s] \cup pend[s] \cup Drained(s)

DiskInv ==
    /\ TypeInv /\ Exclusive /\ Addressed /\ Fresh /\ Produced
    /\ FullsHaveAll /\ AppendFits /\ NothingDropped /\ NoSplice

\* The types of what the argument is about.
LEMMA DiskTypes ==
    ASSUME TypeInv
    PROVE  /\ job \in [Tasks -> Jobs] /\ entries \in [Ids -> Sessions \cup {NoSession}]
           /\ dir \in [Ids -> Sessions \cup {NoSession}] /\ out \in [Sessions -> Nat]
           /\ pend \in [Sessions -> SUBSET Nat] /\ disk \in [Sessions -> SUBSET Nat]
           /\ quiet \in [Sessions -> SUBSET Nat] /\ over \in [Sessions -> BOOLEAN]
           /\ anchor \in [Sessions -> BOOLEAN] /\ inflight \in [Sessions -> BOOLEAN]
           /\ handles \in [Flushers -> SUBSET Sessions]
           /\ \A p \in Tasks : Active(p) => job[p].h \in Sessions
BY DEF TypeInv, TypeOK, JobsHaveSessions, Active

\* Output, closes and what else leaves the persisting tasks and the files alone.
LEMMA SessionKeepsDisk ==
    ASSUME DiskInv, TypeInv', Addressed', UNCHANGED <<job, inflight, anchor, handles, disk>>,
           \A i \in Ids : entries'[i] \in {entries[i], NoSession},
           \A t \in Sessions :
               /\ opened'[t] \in {"none", "spawned", "locked"} => opened[t] \in {"none", "spawned", "locked"}
               /\ out[t] <= out'[t] /\ (rd'[t] = "fed" => out'[t] # 0)
               /\ pend'[t] \subseteq Teed(t)' /\ quiet[t] \subseteq quiet'[t]
               /\ ~over'[t] => /\ ~over[t] /\ pend[t] \subseteq pend'[t]
                              /\ Teed(t)' \ quiet'[t] \subseteq (Teed(t) \ quiet[t]) \cup pend'[t]
    PROVE  DiskInv'
<1> USE ConstantFacts
<1>0. TypeInv BY DEF DiskInv
<1>1. Exclusive' BY DEF DiskInv, Exclusive, Active
<1>2. Fresh' BY DEF DiskInv, Fresh
<1>3. Produced'
  <2> SUFFICES ASSUME NEW t \in Sessions PROVE disk'[t] \subseteq 1 .. out'[t] BY DEF Produced
  <2>1. disk[t] \subseteq 1 .. out[t] /\ out[t] \in Nat /\ out'[t] \in Nat
        BY <1>0, DiskTypes DEF DiskInv, Produced, TypeInv, TypeOK
  <2> QED BY <2>1
<1>4. FullsHaveAll'
  <2> SUFFICES ASSUME NEW p \in Tasks, job[p].pc = "full" PROVE FullHasAll(job[p].h, job[p].hi)'
      BY DEF FullsHaveAll
  <2>1. PICK t \in Sessions : t = job[p].h BY <1>0, DiskTypes DEF Active
  <2>2. PICK hi \in Nat : hi = job[p].hi BY <1>0, DiskTypes DEF Jobs
  <2>3. FullHasAll(t, hi) BY <2>1, <2>2 DEF DiskInv, FullsHaveAll
  <2>4. out[t] \in Nat /\ out'[t] \in Nat BY <1>0 DEF TypeInv, TypeOK
  <2>5. hi <= out'[t] BY <2>3, <2>4 DEF FullHasAll
  <2>6. ASSUME ~over'[t] PROVE Teed(t)' \ quiet'[t] \subseteq (1 .. hi) \cup pend'[t]
        BY <2>3, <2>6 DEF FullHasAll
  <2>7. FullHasAll(t, hi)' BY <2>3, <2>5, <2>6 DEF FullHasAll
  <2> QED BY <2>1, <2>2, <2>7
<1>5. AppendFits'
  <2>1. \A f \in Flushers : job'[f].pc \notin {"append", "rebuild"} BY DEF DiskInv, AppendFits
  <2>2. ASSUME job[Tick].pc = "append"
        PROVE  /\ job[Tick].recs \subseteq 1 .. out'[job[Tick].h]
               /\ \A c \in job[Tick].recs :
                    (1 .. c) \ quiet'[job[Tick].h] \subseteq disk[job[Tick].h] \cup job[Tick].recs
    <3> DEFINE t == job[Tick].h
    <3>1. t \in Sessions BY <1>0, <2>2, DiskTypes DEF Active
    <3>2. out[t] \in Nat /\ out'[t] \in Nat BY <1>0, <3>1 DEF TypeInv, TypeOK
    <3>3. /\ job[Tick].recs \subseteq 1 .. out[t]
          /\ \A c \in job[Tick].recs : (1 .. c) \ quiet[t] \subseteq disk[t] \cup job[Tick].recs
          BY <2>2 DEF DiskInv, AppendFits
    <3> HIDE DEF t
    <3> QED BY <3>1, <3>2, <3>3 DEF t
  <2> QED BY <2>1, <2>2 DEF AppendFits
<1>6. NothingDropped'
  <2> SUFFICES ASSUME NEW t \in Sessions, ~anchor[t], ~over'[t], Reach(t)'
               PROVE  Teed(t)' \ quiet'[t] \subseteq disk[t] \cup pend'[t] \cup Drained(t)'
      BY DEF NothingDropped
  <2>1. Reach(t) /\ Drained(t)' = Drained(t) BY DEF Reach, Drained
  <2>2. Teed(t) \ quiet[t] \subseteq disk[t] \cup pend[t] \cup Drained(t) BY <2>1 DEF DiskInv, NothingDropped
  <2> QED BY <2>1, <2>2
<1>7. NoSplice' BY DEF DiskInv, NoSplice
<1> QED BY <1>1, <1>2, <1>3, <1>4, <1>5, <1>6, <1>7 DEF DiskInv

\* A step of the persist of s by p, the only task that persists s: what it must not
\* spoil is said of s alone.
LEMMA PersistKeepsDisk ==
    ASSUME DiskInv, TypeInv', NEW p \in Tasks, NEW s \in Sessions, job[p].h = s, Active(p),
           job'[p].h = s, Active(p)', \A q \in Tasks : q # p => job'[q] = job[q],
           UNCHANGED <<inflight, entries, dir, opened, handles, out, rd, quiet>>,
           \A t \in Sessions : t # s => /\ anchor'[t] = anchor[t] /\ over'[t] = over[t]
                                        /\ pend'[t] = pend[t] /\ disk'[t] = disk[t],
           disk'[s] \subseteq 1 .. out[s], pend'[s] \subseteq pend[s],
           job'[p].pc = "full" => FullHasAll(s, job[p].hi)',
           p \in Flushers => job'[p].pc \notin {"append", "rebuild"},
           job'[p].pc = "append" =>
               /\ job'[p].recs \subseteq 1 .. out[s]
               /\ \A c \in job'[p].recs : (1 .. c) \ quiet[s] \subseteq disk'[s] \cup job'[p].recs,
           ~anchor'[s] /\ ~over'[s] /\ Reach(s)' =>
               Teed(s) \ quiet[s] \subseteq disk'[s] \cup pend'[s] \cup Drained(s)',
           \A c \in disk'[s] : (1 .. c) \ quiet[s] \subseteq disk'[s]
    PROVE  DiskInv'
<1> USE ConstantFacts
<1>0. TypeInv /\ Tick \notin Flushers BY ConstantsAssumption DEF DiskInv
<1>1. Exclusive'
  <2>1. \A q \in Tasks : Active(q)' <=> Active(q) BY DEF Active
  <2>2. \A q \in Tasks : job'[q].h = job[q].h OBVIOUS
  <2> QED BY <2>1, <2>2 DEF DiskInv, Exclusive
<1>2. ASSUME NEW q \in Tasks, q # p, Active(q) PROVE job[q].h \in Sessions /\ job[q].h # s
      BY <1>0, <1>2, DiskTypes DEF DiskInv, Exclusive
<1>3. Addressed' BY DEF DiskInv, Addressed
<1>4. Fresh'
  <2> SUFFICES ASSUME NEW t \in Sessions, opened[t] \in {"none", "spawned", "locked"}
               PROVE  /\ anchor'[t] /\ entries[IdOf[t]] # t
                      /\ \A q \in Tasks : job'[q].h # t
                      /\ \A f \in Flushers : t \notin handles[f]
      BY DEF Fresh
  <2>1. /\ anchor[t] /\ entries[IdOf[t]] # t
        /\ \A q \in Tasks : job[q].h # t
        /\ \A f \in Flushers : t \notin handles[f]
        BY DEF DiskInv, Fresh
  <2>2. t # s BY <2>1
  <2> QED BY <2>1, <2>2
<1>5. \A t \in Sessions : Teed(t)' = Teed(t) BY DEF Teed
<1>6. Produced' BY <1>5 DEF DiskInv, Produced
<1>7. FullsHaveAll'
  <2> SUFFICES ASSUME NEW q \in Tasks, job'[q].pc = "full" PROVE FullHasAll(job[q].h, job[q].hi)'
      BY DEF FullsHaveAll
  <2>1. CASE q = p BY <2>1 DEF FullHasAll, Teed
  <2>2. CASE q # p
    <3>1. job'[q] = job[q] /\ job[q].h \in Sessions /\ job[q].h # s BY <1>2, <2>2 DEF Active
    <3>2. FullHasAll(job[q].h, job[q].hi) BY <3>1 DEF DiskInv, FullsHaveAll
    <3>3. PICK t \in Sessions : t = job[q].h BY <3>1
    <3>4. FullHasAll(t, job[q].hi)' BY <1>5, <3>1, <3>2, <3>3 DEF FullHasAll
    <3> QED BY <3>1, <3>3, <3>4
  <2> QED BY <2>1, <2>2
<1>8. AppendFits'
  <2>1. \A f \in Flushers : job'[f].pc \notin {"append", "rebuild"} BY DEF DiskInv, AppendFits
  <2>2. CASE p = Tick BY <2>1, <2>2 DEF AppendFits
  <2>3. CASE p # Tick
    <3>1. job'[Tick] = job[Tick] BY <2>3
    <3>2. job[Tick].pc = "append" => disk'[job[Tick].h] = disk[job[Tick].h] BY <1>2, <2>3 DEF Active
    <3> QED BY <2>1, <3>1, <3>2 DEF DiskInv, AppendFits
  <2> QED BY <2>2, <2>3
<1>9. NothingDropped'
  <2> SUFFICES ASSUME NEW t \in Sessions, t # s, ~anchor'[t], ~over'[t], Reach(t)'
               PROVE  Teed(t) \ quiet[t] \subseteq disk[t] \cup pend[t] \cup Drained(t)'
      BY <1>5 DEF NothingDropped
  <2>1. Reach(t) /\ Drained(t)' = Drained(t)
    <3>1. CASE p = Tick BY <3>1 DEF Reach, Drained
    <3>2. CASE p # Tick BY <3>2 DEF Reach, Drained
    <3> QED BY <3>1, <3>2
  <2> QED BY <2>1 DEF DiskInv, NothingDropped
<1>10. NoSplice' BY DEF DiskInv, NoSplice
<1> QED BY <1>1, <1>3, <1>4, <1>6, <1>7, <1>8, <1>9, <1>10 DEF DiskInv

\* A task takes a session's guard.
LEMMA AcquireKeepsDisk ==
    ASSUME DiskInv, TypeInv', NEW p \in Tasks, NEW s \in Sessions, ~Active(p), ~inflight[s],
           inflight' = [inflight EXCEPT ![s] = TRUE],
           job'[p].pc = "begin", job'[p].h = s, \A q \in Tasks : q # p => job'[q] = job[q],
           opened[s] \notin {"none", "spawned", "locked"}, p = Tick => entries[IdOf[s]] = s,
           \A f \in Flushers : handles'[f] \subseteq handles[f],
           UNCHANGED <<entries, dir, opened, anchor, disk, out, over, pend, quiet, rd>>
    PROVE  DiskInv'
<1> USE ConstantFacts
<1>0. TypeInv /\ job[p].h = NoSession /\ inflight \in [Sessions -> BOOLEAN]
      BY DiskTypes DEF DiskInv, Exclusive
<1>1. \A q \in Tasks : Active(q) => q # p /\ job[q].h \in Sessions /\ job[q].h # s /\ job'[q] = job[q]
      BY <1>0, DiskTypes DEF DiskInv, Exclusive
<1>2. Exclusive'
  <2>1. \A q \in Tasks : Active(q)' <=> q = p \/ Active(q) BY DEF Active
  <2>2. \A q \in Tasks : IF Active(q)' THEN inflight'[job'[q].h] ELSE job'[q].h = NoSession
        BY <1>0, <1>1, <2>1 DEF DiskInv, Exclusive
  <2>3. \A q, r \in Tasks : Active(q)' /\ Active(r)' /\ job'[q].h = job'[r].h => q = r
        BY <1>1, <2>1 DEF DiskInv, Exclusive
  <2> QED BY <2>2, <2>3 DEF Exclusive
<1>3. Addressed' BY DEF DiskInv, Addressed
<1>4. Fresh' BY DEF DiskInv, Fresh
<1>5. \A t \in Sessions : Teed(t)' = Teed(t) BY DEF Teed
<1>6. Produced' BY <1>5 DEF DiskInv, Produced
<1>7. FullsHaveAll' BY <1>5 DEF DiskInv, FullsHaveAll, FullHasAll, Teed
<1>8. AppendFits'
  <2>1. \A f \in Flushers : job'[f].pc \notin {"append", "rebuild"} BY DEF DiskInv, AppendFits
  <2>2. job'[Tick].pc = "append" => job'[Tick] = job[Tick] OBVIOUS
  <2> QED BY <2>1, <2>2 DEF DiskInv, AppendFits
<1>9. NothingDropped'
  <2> SUFFICES ASSUME NEW t \in Sessions, ~anchor[t], ~over[t], Reach(t)'
               PROVE  Teed(t) \ quiet[t] \subseteq disk[t] \cup pend[t] \cup Drained(t)'
      BY <1>5 DEF NothingDropped
  <2>1. Reach(t) BY <1>0, <1>1 DEF Reach, Active
  <2>2. Drained(t)' = Drained(t) BY <1>0, <1>1 DEF Drained, Active
  <2> QED BY <2>1, <2>2 DEF DiskInv, NothingDropped
<1>10. NoSplice' BY DEF DiskInv, NoSplice
<1> QED BY <1>2, <1>3, <1>4, <1>6, <1>7, <1>8, <1>9, <1>10 DEF DiskInv

\* A task is done with its session, or moves on between sessions.
LEMMA ReleaseKeepsDisk ==
    ASSUME DiskInv, TypeInv', NEW p \in Tasks,
           IF Active(p) THEN inflight' = [inflight EXCEPT ![job[p].h] = FALSE] ELSE inflight' = inflight,
           ~Active(p)', job'[p].h = NoSession, \A q \in Tasks : q # p => job'[q] = job[q],
           \A i \in Ids : entries'[i] \in {entries[i], NoSession},
           p = Tick /\ Active(p) => /\ job[p].pc = "finish"
                                    /\ job[p].res = "disabled" => entries'[IdOf[job[p].h]] = NoSession,
           \A f \in Flushers : \A t \in handles'[f] : t \in handles[f] \/ entries[IdOf[t]] = t,
           UNCHANGED <<dir, opened, anchor, disk, out, over, pend, quiet, rd>>
    PROVE  DiskInv'
<1> USE ConstantFacts
<1>0. TypeInv /\ inflight \in [Sessions -> BOOLEAN] BY DiskTypes DEF DiskInv
<1>1. \A q \in Tasks : Active(q) => job[q].h \in Sessions BY <1>0, DiskTypes
<1>2. \A q \in Tasks : Active(q)' <=> q # p /\ Active(q) BY DEF Active
<1>3. Exclusive'
  <2>1. ASSUME NEW q \in Tasks, Active(q)' PROVE inflight'[job'[q].h]
    <3>1. q # p /\ Active(q) /\ inflight[job[q].h] /\ job'[q] = job[q]
          BY <1>2, <2>1 DEF DiskInv, Exclusive
    <3>2. Active(p) => job[p].h # job[q].h BY <3>1 DEF DiskInv, Exclusive
    <3> QED BY <1>0, <1>1, <3>1, <3>2
  <2>2. \A q \in Tasks : ~Active(q)' => job'[q].h = NoSession BY <1>2 DEF DiskInv, Exclusive
  <2>3. \A q, r \in Tasks : Active(q)' /\ Active(r)' /\ job'[q].h = job'[r].h => q = r
        BY <1>2 DEF DiskInv, Exclusive
  <2> QED BY <2>1, <2>2, <2>3 DEF Exclusive
<1>4. Addressed' BY DEF DiskInv, Addressed
<1>5. Fresh'
  <2> SUFFICES ASSUME NEW t \in Sessions, opened[t] \in {"none", "spawned", "locked"}
               PROVE  /\ anchor[t] /\ entries'[IdOf[t]] # t
                      /\ \A q \in Tasks : job'[q].h # t
                      /\ \A f \in Flushers : t \notin handles'[f]
      BY DEF Fresh
  <2>1. /\ anchor[t] /\ entries[IdOf[t]] # t
        /\ \A q \in Tasks : job[q].h # t
        /\ \A f \in Flushers : t \notin handles[f]
        BY DEF DiskInv, Fresh
  <2> QED BY <2>1
<1>6. \A t \in Sessions : Teed(t)' = Teed(t) BY DEF Teed
<1>7. Produced' BY <1>6 DEF DiskInv, Produced
<1>8. FullsHaveAll'
  <2>1. \A q \in Tasks : job'[q].pc = "full" => job'[q] = job[q] BY DEF Active
  <2> QED BY <2>1 DEF DiskInv, FullsHaveAll, FullHasAll, Teed
<1>9. AppendFits'
  <2>1. \A f \in Flushers : job'[f].pc \notin {"append", "rebuild"} BY DEF DiskInv, AppendFits, Active
  <2>2. job'[Tick].pc = "append" => job'[Tick] = job[Tick] BY DEF Active
  <2> QED BY <2>1, <2>2 DEF DiskInv, AppendFits
<1>10. NothingDropped'
  <2> SUFFICES ASSUME NEW t \in Sessions, ~anchor[t], ~over[t], Reach(t)'
               PROVE  Teed(t) \ quiet[t] \subseteq disk[t] \cup pend[t] \cup Drained(t)'
      BY <1>6 DEF NothingDropped
  <2>1. IdOf[t] \in Ids BY ConstantFacts
  <2>2. CASE p # Tick
    <3>1. job'[Tick] = job[Tick] BY <2>2
    <3>2. Reach(t) /\ Drained(t)' = Drained(t) BY <2>1, <3>1 DEF Reach, Drained
    <3> QED BY <3>2 DEF DiskInv, NothingDropped
  <2>3. CASE p = Tick
    <3>1. entries'[IdOf[t]] = t /\ entries[IdOf[t]] = t BY <2>1, <2>3 DEF Reach
    <3>2. Drained(t) = {} BY <2>3 DEF Drained, DiskInv, Exclusive, Active
    <3>3. Reach(t) BY <2>3, <3>1 DEF Reach, DiskInv, Exclusive
    <3> QED BY <3>2, <3>3 DEF DiskInv, NothingDropped
  <2> QED BY <2>2, <2>3
<1>11. NoSplice' BY DEF DiskInv, NoSplice
<1> QED BY <1>3, <1>4, <1>5, <1>7, <1>8, <1>9, <1>10, <1>11 DEF DiskInv

\* What the steps of a persist make of the task's job.
LEMMA JobFields ==
    ASSUME TypeInv, NEW p \in Tasks, NEW r
    PROVE  /\ Done(p, r) => /\ job'[p].pc = "finish" /\ job'[p].h = job[p].h /\ job'[p].res = r
                            /\ \A q \in Tasks : q # p => job'[q] = job[q]
           /\ ToFull(p) => /\ job'[p].pc = "full" /\ job'[p].h = job[p].h
                           /\ job'[p].hi = out[job[p].h]
                           /\ \A q \in Tasks : q # p => job'[q] = job[q]
           /\ ToAppend(p, r) =>
                 /\ job'[p].pc = "append" /\ job'[p].h = job[p].h /\ job'[p].recs = r
                 /\ \A q \in Tasks : q # p => job'[q] = job[q]
           /\ job' = [job EXCEPT ![p] = [@ EXCEPT !.pc = r]] =>
                 /\ job'[p].pc = r /\ job'[p].h = job[p].h
                 /\ \A q \in Tasks : q # p => job'[q] = job[q]
<1> DEFINE j == job[p]
<1>1. job \in [Tasks -> Jobs] /\ j \in Jobs BY DiskTypes
<1>2. ASSUME NEW x, job' = [job EXCEPT ![p] = x]
      PROVE  job'[p] = x /\ \A q \in Tasks : q # p => job'[q] = job[q]
      BY <1>1, <1>2
<1>3. ASSUME Done(p, r)
      PROVE  /\ job'[p].pc = "finish" /\ job'[p].h = j.h /\ job'[p].res = r
             /\ \A q \in Tasks : q # p => job'[q] = job[q]
  <2> DEFINE x == [j EXCEPT !.pc = "finish", !.res = r]
  <2>1. job' = [job EXCEPT ![p] = x] BY <1>1, <1>3 DEF Done
  <2>2. x.h = j.h /\ x.pc = "finish" /\ x.res = r BY <1>1 DEF Jobs
  <2> HIDE DEF x
  <2> QED BY <1>2, <2>1, <2>2
<1>4. ASSUME ToFull(p)
      PROVE  /\ job'[p].pc = "full" /\ job'[p].h = j.h /\ job'[p].hi = out[j.h]
             /\ \A q \in Tasks : q # p => job'[q] = job[q]
  <2> DEFINE x == [j EXCEPT !.pc = "full", !.hi = out[j.h]]
  <2>1. job' = [job EXCEPT ![p] = x] BY <1>1, <1>4 DEF ToFull, Target
  <2>2. x.h = j.h /\ x.pc = "full" /\ x.hi = out[j.h] BY <1>1 DEF Jobs
  <2> HIDE DEF x
  <2> QED BY <1>2, <2>1, <2>2
<1>5. ASSUME ToAppend(p, r)
      PROVE  /\ job'[p].pc = "append" /\ job'[p].h = j.h /\ job'[p].recs = r
             /\ \A q \in Tasks : q # p => job'[q] = job[q]
  <2> DEFINE x == [j EXCEPT !.pc = "append", !.recs = r]
  <2>1. job' = [job EXCEPT ![p] = x] BY <1>1, <1>5 DEF ToAppend
  <2>2. x.h = j.h /\ x.pc = "append" /\ x.recs = r BY <1>1 DEF Jobs
  <2> HIDE DEF x
  <2> QED BY <1>2, <2>1, <2>2
<1>6. ASSUME job' = [job EXCEPT ![p] = [@ EXCEPT !.pc = r]]
      PROVE  /\ job'[p].pc = r /\ job'[p].h = j.h
             /\ \A q \in Tasks : q # p => job'[q] = job[q]
  <2> DEFINE x == [j EXCEPT !.pc = r]
  <2>1. job' = [job EXCEPT ![p] = x] BY <1>1, <1>6
  <2>2. x.h = j.h /\ x.pc = r BY <1>1 DEF Jobs
  <2> HIDE DEF x
  <2> QED BY <1>2, <2>1, <2>2
<1> QED BY <1>3, <1>4, <1>5, <1>6

\* A ring that is read whole has what is on disk and every chunk that is not pending.
LEMMA RingHasAll ==
    ASSUME TypeInv, Produced, NEW s \in Sessions
    PROVE  disk[s] \subseteq 1 .. out[s] /\ out[s] \in Nat /\ Teed(s) \subseteq 1 .. out[s]
<1>1. out[s] \in Nat BY DEF TypeInv, TypeOK
<1> QED BY <1>1 DEF Produced, Teed

\* A persist that has been begun, step by step.
LEMMA PersistStepKeepsDisk ==
    ASSUME IdsOwn, DiskInv, TypeInv', NEW p \in Tasks, Persist(p)
    PROVE  DiskInv'
<1> USE ConstantFacts
<1>0. /\ TypeInv /\ Produced /\ Tick \notin Flushers /\ Tasks = Flushers \cup {Tick} /\ Active(p)
      BY ConstantsAssumption DEF DiskInv, Tasks, Active, Persist, PersistBegin, Rebuild, WriteFull,
             WriteFullFails, WriteAppend, WriteAppendCapped, WriteAppendFails
<1>1. PICK s \in Sessions : s = job[p].h BY <1>0, DiskTypes
<1>2. /\ disk[s] \subseteq 1 .. out[s] /\ out[s] \in Nat /\ Teed(s) \subseteq 1 .. out[s]
      /\ pend[s] \subseteq Teed(s) /\ \A c \in disk[s] : (1 .. c) \ quiet[s] \subseteq disk[s]
      BY <1>0, RingHasAll DEF DiskInv, Produced, NoSplice
<1>3. /\ over \in [Sessions -> BOOLEAN] /\ anchor \in [Sessions -> BOOLEAN]
      /\ pend \in [Sessions -> SUBSET Nat] /\ disk \in [Sessions -> SUBSET Nat]
      BY <1>0, DiskTypes
<1>4. Target(p) = s /\ IdFor(p) = IdOf[s] BY <1>1 DEF Target, IdFor
<1>5. DirThere(p) => dir[IdOf[s]] = s /\ DirOwn(p)
      BY <1>0, <1>4, DiskTypes DEF DirThere, DirOwn, IdsOwn, DiskInv, Addressed
<1>6. job[p].pc \in {"append", "rebuild"} => p = Tick BY <1>0 DEF DiskInv, AppendFits
<1>7. ~anchor[s] /\ ~over[s] /\ Reach(s) =>
          Teed(s) \ quiet[s] \subseteq disk[s] \cup pend[s] \cup Drained(s)
      BY DEF DiskInv, NothingDropped
<1>8. Teed(s)' = Teed(s)
      BY DEF Persist, PersistBegin, Rebuild, WriteFull, WriteFullFails, WriteAppend, WriteAppendCapped,
             WriteAppendFails, sessions, Teed
<1>9. p # Tick => (job[Tick].h # s)
      BY <1>0, <1>1 DEF DiskInv, Exclusive, Active
<1>10. CASE PersistBegin(p)
  <2>0. /\ UNCHANGED <<inflight, entries, dir, opened, handles, out, rd, quiet, disk, anchor>>
        /\ job[p].pc = "begin"
        BY <1>10 DEF PersistBegin, registry, files
  <2>1. CASE ToFull(p)
    <3>1. /\ job'[p].pc = "full" /\ job'[p].h = s /\ job'[p].hi = out[s]
          /\ \A q \in Tasks : q # p => job'[q] = job[q]
          BY <1>0, <1>1, <2>1, JobFields
    <3>2. /\ \A t \in Sessions : t # s => over'[t] = over[t] /\ pend'[t] = pend[t]
          /\ pend'[s] \subseteq pend[s]
          /\ p # Tick \/ anchor[s] => pend' = pend /\ over' = over
          BY <1>0, <1>3, <1>4, <1>10 DEF PersistBegin
    <3>3. FullHasAll(s, job[p].hi)' BY <1>2, <1>8, <2>0, <3>1 DEF FullHasAll
    <3>4. ~anchor'[s] /\ ~over'[s] /\ Reach(s)' =>
               Teed(s) \ quiet[s] \subseteq disk'[s] \cup pend'[s] \cup Drained(s)'
      <4>1. CASE p = Tick BY <3>1, <4>1 DEF Reach
      <4>2. CASE p # Tick
        <5>1. /\ job'[Tick] = job[Tick] /\ Reach(s)' = Reach(s) /\ Drained(s)' = Drained(s)
              /\ pend' = pend /\ over' = over
              BY <2>0, <3>1, <3>2, <4>2 DEF Reach, Drained
        <5> QED BY <1>7, <2>0, <5>1
      <4> QED BY <4>1, <4>2
    <3> QED BY <1>0, <1>1, <1>2, <2>0, <3>1, <3>2, <3>3, <3>4, PersistKeepsDisk DEF Active
  <2>2. CASE ~ToFull(p)
    <3>1. /\ p = Tick /\ ~anchor[s] /\ ~over[s]
          /\ pend' = [pend EXCEPT ![s] = {}] /\ over' = [over EXCEPT ![s] = FALSE]
          /\ IF pend[s] = {} THEN Done(p, "ok")
             ELSE ToAppend(p, pend[s])
          BY <1>0, <1>4, <1>10, <2>2 DEF PersistBegin
    <3>2. Reach(s) /\ Drained(s) = {} BY <1>1, <2>0, <3>1 DEF Reach, Drained
    <3>3. Teed(s) \ quiet[s] \subseteq disk[s] \cup pend[s] BY <1>7, <3>1, <3>2
    <3>4. /\ \A t \in Sessions : t # s => over'[t] = over[t] /\ pend'[t] = pend[t]
          /\ pend'[s] = {}
          BY <1>3, <3>1
    <3>5. CASE pend[s] = {}
      <4>1. /\ job'[p].pc = "finish" /\ job'[p].h = s /\ \A q \in Tasks : q # p => job'[q] = job[q]
            BY <1>0, <1>1, <3>1, <3>5, JobFields
      <4>2. Teed(s) \ quiet[s] \subseteq disk'[s] BY <2>0, <3>3, <3>5
      <4> QED BY <1>0, <1>1, <1>2, <2>0, <3>4, <4>1, <4>2, PersistKeepsDisk DEF Active
    <3>6. CASE pend[s] # {}
      <4>1. /\ job'[p].pc = "append" /\ job'[p].h = s /\ job'[p].recs = pend[s]
            /\ \A q \in Tasks : q # p => job'[q] = job[q]
            BY <1>0, <1>1, <3>1, <3>6, JobFields
      <4>0. pend[s] \subseteq 1 .. out[s] BY <1>2
      <4>2. Drained(s)' = pend[s] BY <3>1, <4>1 DEF Drained
      <4>3. ASSUME NEW c \in pend[s] PROVE (1 .. c) \ quiet[s] \subseteq disk[s] \cup pend[s]
        <5>1. 1 .. c \subseteq Teed(s)
          <6>1. c \in Teed(s) BY <1>2
          <6> QED BY <1>2, <6>1 DEF Teed
        <5> QED BY <3>3, <5>1
      <4>4. p \notin Flushers BY <1>0, <3>1
      <4>5. /\ disk'[s] \subseteq 1 .. out[s] /\ pend'[s] \subseteq pend[s]
            /\ \A c \in disk'[s] : (1 .. c) \ quiet[s] \subseteq disk'[s]
            /\ Teed(s) \ quiet[s] \subseteq disk'[s] \cup pend'[s] \cup Drained(s)'
            /\ \A c \in job'[p].recs : (1 .. c) \ quiet[s] \subseteq disk'[s] \cup job'[p].recs
            BY <1>2, <2>0, <3>3, <3>4, <4>1, <4>2, <4>3
      <4>6. Active(p)' BY <4>1 DEF Active
      <4> QED BY <1>0, <1>1, <2>0, <3>4, <4>0, <4>1, <4>4, <4>5, <4>6, PersistKeepsDisk
    <3> QED BY <3>5, <3>6
  <2> QED BY <2>1, <2>2
<1>11. CASE Rebuild(p)
  <2>1. /\ job'[p].pc = "full" /\ job'[p].h = s /\ job'[p].hi = out[s]
        /\ \A q \in Tasks : q # p => job'[q] = job[q]
        BY <1>0, <1>1, <1>11, JobFields DEF Rebuild
  <2>2. /\ UNCHANGED <<inflight, entries, dir, opened, handles, out, rd, quiet, disk, anchor, pend, over>>
        /\ p = Tick
        BY <1>6, <1>11 DEF Rebuild, registry, sessions, files
  <2>3. FullHasAll(s, job[p].hi)' BY <1>2, <1>8, <2>1, <2>2 DEF FullHasAll
  <2>4. ~Reach(s)' BY <2>1, <2>2 DEF Reach
  <2> QED BY <1>0, <1>1, <1>2, <2>1, <2>2, <2>3, <2>4, PersistKeepsDisk DEF Active
<1>12. CASE WriteFull(p)
  <2>1. /\ job'[p].pc = "finish" /\ job'[p].h = s /\ \A q \in Tasks : q # p => job'[q] = job[q]
        BY <1>0, <1>1, <1>12, JobFields DEF WriteFull
  <2>2. /\ UNCHANGED <<inflight, entries, dir, opened, handles, out, rd, quiet, pend, over>>
        /\ job[p].pc = "full" /\ DirThere(p)
        BY <1>12 DEF WriteFull, registry, sessions
  <2>3. PICK hi \in Nat : hi = job[p].hi BY <1>0, DiskTypes DEF Jobs
  <2>4. disk' = [disk EXCEPT ![s] = 1 .. hi] /\ anchor' = [anchor EXCEPT ![s] = FALSE]
        BY <1>4, <1>5, <1>12, <2>2, <2>3 DEF WriteFull
  <2>5. FullHasAll(s, hi) BY <1>1, <2>2, <2>3 DEF DiskInv, FullsHaveAll
  <2>6. /\ \A t \in Sessions : t # s => anchor'[t] = anchor[t] /\ disk'[t] = disk[t]
        /\ disk'[s] = 1 .. hi
        BY <1>3, <2>4
  <2>7. disk'[s] \subseteq 1 .. out[s] BY <1>2, <2>5, <2>6 DEF FullHasAll
  <2>8. \A c \in disk'[s] : 1 .. c \subseteq disk'[s] BY <2>6
  <2>9. ~over'[s] => Teed(s) \ quiet[s] \subseteq disk'[s] \cup pend'[s] BY <2>2, <2>5, <2>6 DEF FullHasAll
  <2> QED BY <1>0, <1>1, <2>1, <2>2, <2>6, <2>7, <2>8, <2>9, PersistKeepsDisk DEF Active
<1>13. CASE WriteFullFails(p)
  <2>1. /\ job'[p].pc = "finish" /\ job'[p].h = s /\ job'[p].res = "disabled"
        /\ \A q \in Tasks : q # p => job'[q] = job[q]
        BY <1>0, <1>1, <1>13, JobFields DEF WriteFullFails
  <2>2. UNCHANGED <<inflight, entries, dir, opened, handles, out, rd, quiet, disk, anchor, pend, over>>
        BY <1>13 DEF WriteFullFails, registry, sessions, files
  <2>3. ~anchor'[s] /\ ~over'[s] /\ Reach(s)' =>
               Teed(s) \ quiet[s] \subseteq disk'[s] \cup pend'[s] \cup Drained(s)'
    <3>1. CASE p = Tick BY <2>1, <3>1 DEF Reach
    <3>2. CASE p # Tick
      <4>1. job'[Tick] = job[Tick] /\ Reach(s)' = Reach(s) /\ Drained(s)' = Drained(s)
            BY <2>1, <2>2, <3>2 DEF Reach, Drained
      <4> QED BY <1>7, <2>2, <4>1
    <3> QED BY <3>1, <3>2
  <2> QED BY <1>0, <1>1, <1>2, <2>1, <2>2, <2>3, PersistKeepsDisk DEF Active
<1>14. CASE WriteAppend(p)
  <2>1. /\ job'[p].pc = "finish" /\ job'[p].h = s /\ \A q \in Tasks : q # p => job'[q] = job[q]
        BY <1>0, <1>1, <1>14, JobFields DEF WriteAppend
  <2>2. /\ UNCHANGED <<inflight, entries, dir, opened, handles, out, rd, quiet, pend, over, anchor>>
        /\ job[p].pc = "append" /\ DirThere(p) /\ p = Tick
        BY <1>6, <1>14 DEF WriteAppend, registry, sessions
  <2>3. disk' = [disk EXCEPT ![s] = disk[s] \cup job[p].recs]
        BY <1>4, <1>5, <1>14, <2>2 DEF WriteAppend
  <2>4. /\ job[p].recs \subseteq 1 .. out[s]
        /\ \A c \in job[p].recs : (1 .. c) \ quiet[s] \subseteq disk[s] \cup job[p].recs
        BY <1>1, <2>2 DEF DiskInv, AppendFits
  <2>5. /\ \A t \in Sessions : t # s => disk'[t] = disk[t]
        /\ disk'[s] = disk[s] \cup job[p].recs
        BY <1>3, <2>3
  <2>6. \A c \in disk'[s] : (1 .. c) \ quiet[s] \subseteq disk'[s] BY <1>2, <2>4, <2>5
  <2>7. Reach(s) /\ Drained(s) = job[p].recs BY <1>1, <2>2 DEF Reach, Drained
  <2>8. ~anchor'[s] /\ ~over'[s] => Teed(s) \ quiet[s] \subseteq disk'[s] \cup pend'[s]
        BY <1>7, <2>2, <2>5, <2>7
  <2>9. disk'[s] \subseteq 1 .. out[s] BY <1>2, <2>4, <2>5
  <2> QED BY <1>0, <1>1, <2>1, <2>2, <2>5, <2>6, <2>8, <2>9, PersistKeepsDisk DEF Active
<1>15. CASE WriteAppendCapped(p)
  <2>1. /\ job'[p].pc = "rebuild" /\ job'[p].h = s /\ \A q \in Tasks : q # p => job'[q] = job[q]
    <3>1. job' = [job EXCEPT ![p] = [job[p] EXCEPT !.pc = "rebuild"]]
        BY <1>15 DEF WriteAppendCapped
    <3> QED
        BY <1>0, <1>1, <3>1, JobFields
  <2>2. /\ UNCHANGED <<inflight, entries, dir, opened, handles, out, rd, quiet, disk, anchor, pend, over>>
        /\ p = Tick
        BY <1>6, <1>15 DEF WriteAppendCapped, registry, sessions, files
  <2>3. ~Reach(s)' BY <2>1, <2>2 DEF Reach
  <2> QED BY <1>0, <1>1, <1>2, <2>1, <2>2, <2>3, PersistKeepsDisk DEF Active
<1>16. CASE WriteAppendFails(p)
  <2>1. /\ job'[p].pc = "finish" /\ job'[p].h = s /\ \A q \in Tasks : q # p => job'[q] = job[q]
        BY <1>0, <1>1, <1>16, JobFields DEF WriteAppendFails
  <2>2. UNCHANGED <<inflight, entries, dir, opened, handles, out, rd, quiet, disk, pend, over>>
        BY <1>16 DEF WriteAppendFails, registry, sessions
  <2>3. anchor'[s] /\ \A t \in Sessions : t # s => anchor'[t] = anchor[t]
        BY <1>3, <1>4, <1>16 DEF WriteAppendFails
  <2> QED BY <1>0, <1>1, <1>2, <2>1, <2>2, <2>3, PersistKeepsDisk DEF Active
<1> QED BY <1>10, <1>11, <1>12, <1>13, <1>14, <1>15, <1>16 DEF Persist

\* The child, its reader and its opener.
LEMMA SessionStepKeepsDisk ==
    ASSUME DiskInv, TypeInv', NEW s \in Sessions,
           Spawn(s) \/ TeeRing(s) \/ Exit(s) \/ Reader(s) \/ Opener(s)
    PROVE  DiskInv'
<1> USE ConstantFacts
<1>0. /\ TypeInv /\ Addressed /\ Produced /\ IdOf[s] \in Ids
      /\ out \in [Sessions -> Nat] /\ pend \in [Sessions -> SUBSET Nat]
      /\ rd \in [Sessions -> {"idle", "fed", "pushed", "bump", "notify"}]
      /\ opened \in [Sessions -> {"none", "spawned", "locked", "inserted", "marked", "enabled", "plain"}]
      /\ entries \in [Ids -> Sessions \cup {NoSession}] /\ dir \in [Ids -> Sessions \cup {NoSession}]
      /\ quiet \in [Sessions -> SUBSET Nat] /\ over \in [Sessions -> BOOLEAN]
      BY DEF DiskInv, TypeInv, TypeOK
<1>1. \A t \in Sessions : (rd[t] = "fed" => out[t] # 0) /\ pend[t] \subseteq Teed(t)
      BY <1>0 DEF Produced
<1>2. CASE \/ Spawn(s) \/ Exit(s) \/ MarkDirtyCheck(s) \/ MarkDirtyBump(s) \/ MarkDirtyNotify(s)
           \/ OpenSession(s) \/ MarkOpened(s) \/ EnableHistory(s)
  <2>1. UNCHANGED <<job, inflight, anchor, handles, disk, entries, out, pend, over, quiet>>
        BY <1>2 DEF Spawn, Exit, MarkDirtyCheck, MarkDirtyBump, MarkDirtyNotify, OpenSession,
                    MarkOpened, EnableHistory, registry, tasks, files
  <2>2. \A t \in Sessions : rd'[t] = "fed" <=> rd[t] = "fed"
        BY <1>0, <1>2 DEF Spawn, Exit, MarkDirtyCheck, MarkDirtyBump, MarkDirtyNotify, OpenSession,
                    MarkOpened, EnableHistory
  <2>3. \A t \in Sessions : opened'[t] \in {"none", "spawned", "locked"} => opened[t] \in {"none", "spawned", "locked"}
        BY <1>0, <1>2 DEF Spawn, Exit, MarkDirtyCheck, MarkDirtyBump, MarkDirtyNotify, OpenSession,
                    MarkOpened, EnableHistory
  <2>4. \A i \in Ids : dir'[i] = dir[i] \/ (i = IdOf[s] /\ dir'[i] = s)
        BY <1>0, <1>2 DEF Spawn, Exit, MarkDirtyCheck, MarkDirtyBump, MarkDirtyNotify, OpenSession,
                    MarkOpened, EnableHistory, files
  <2>5. Addressed' BY <1>0, <2>1, <2>4 DEF Addressed
  <2>6. \A t \in Sessions : Teed(t)' = Teed(t) BY <2>1, <2>2 DEF Teed
  <2>7. \A t \in Sessions : out[t] <= out'[t] BY <1>0, <2>1
  <2> QED BY <1>1, <2>1, <2>2, <2>3, <2>5, <2>6, <2>7, SessionKeepsDisk
<1>3. CASE TeeRing(s)
  <2>1. /\ UNCHANGED <<job, inflight, anchor, handles, disk, entries, dir, opened, pend, over, quiet>>
        /\ rd[s] = "idle" /\ out'[s] = out[s] + 1 /\ rd'[s] = "fed"
        /\ \A t \in Sessions : t # s => out'[t] = out[t] /\ rd'[t] = rd[t]
        BY <1>0, <1>3 DEF TeeRing, registry, tasks, files
  <2>2. out[s] \in Nat BY <1>0
  <2>3. Teed(s)' = Teed(s) BY <2>1, <2>2 DEF Teed
  <2>4. \A t \in Sessions : Teed(t)' = Teed(t) BY <2>1, <2>3 DEF Teed
  <2>5. \A t \in Sessions : out[t] <= out'[t] /\ (rd'[t] = "fed" => out'[t] # 0)
        BY <1>0, <1>1, <2>1, <2>2
  <2>6. Addressed' BY <1>0, <2>1 DEF Addressed
  <2> QED BY <1>1, <2>1, <2>4, <2>5, <2>6, SessionKeepsDisk
<1>4. CASE TeePush(s)
  <2>1. /\ UNCHANGED <<job, inflight, anchor, handles, disk, entries, dir, opened, out>>
        /\ rd[s] = "fed" /\ rd'[s] # "fed"
        /\ \A t \in Sessions : t # s => rd'[t] = rd[t]
        BY <1>0, <1>4 DEF TeePush, registry, tasks, files
  <2>2. out[s] \in Nat /\ out[s] # 0 BY <1>0, <1>1, <2>1
  <2>3. Teed(s)' = Teed(s) \cup {out[s]} BY <2>1, <2>2 DEF Teed
  <2>4. \A t \in Sessions : t # s => Teed(t)' = Teed(t) BY <2>1 DEF Teed
  <2>5. \A t \in Sessions : t # s => pend'[t] = pend[t] /\ over'[t] = over[t] /\ quiet'[t] = quiet[t]
        BY <1>0, <1>4 DEF TeePush
  <2>6. \/ pend'[s] = pend[s] /\ over'[s] = over[s] /\ quiet'[s] = quiet[s] \cup {out[s]}
        \/ pend'[s] = {} /\ over'[s] /\ quiet'[s] = quiet[s]
        \/ pend'[s] = pend[s] \cup {out[s]} /\ ~over[s] /\ quiet'[s] = quiet[s]
    <3>1. CASE opened[s] # "enabled" BY <1>0, <1>4, <3>1 DEF TeePush
    <3>2. CASE opened[s] = "enabled"
      <4> DEFINE full == over[s] \/ Cardinality(pend[s]) + 1 > PendingMax
      <4>1. /\ over' = [over EXCEPT ![s] = full] /\ quiet' = quiet
            /\ pend' = [pend EXCEPT ![s] = IF full THEN {} ELSE @ \cup {out[s]}]
            BY <1>4, <3>2 DEF TeePush
      <4>2. full \in BOOLEAN /\ (~full => ~over[s]) BY <1>0
      <4> HIDE DEF full
      <4> QED BY <1>0, <4>1, <4>2
    <3> QED BY <3>1, <3>2
  <2>7. \A t \in Sessions :
               /\ pend'[t] \subseteq Teed(t)' /\ quiet[t] \subseteq quiet'[t]
               /\ ~over'[t] => /\ ~over[t] /\ pend[t] \subseteq pend'[t]
                               /\ Teed(t)' \ quiet'[t] \subseteq (Teed(t) \ quiet[t]) \cup pend'[t]
    <3> TAKE t \in Sessions
    <3>1. CASE t # s BY <1>1, <2>4, <2>5, <3>1
    <3>2. CASE t = s BY <1>1, <2>3, <2>6, <3>2
    <3> QED BY <3>1, <3>2
  <2>8. \A t \in Sessions : out[t] <= out'[t] /\ (rd'[t] = "fed" => out'[t] # 0)
        BY <1>0, <1>1, <2>1
  <2>9. Addressed' BY <1>0, <2>1 DEF Addressed
  <2> QED BY <2>1, <2>7, <2>8, <2>9, SessionKeepsDisk
<1>5. CASE InsertEntry(s)
  <2>1. /\ UNCHANGED <<job, inflight, anchor, handles, disk, dir, out, rd, pend, over, quiet>>
        /\ opened[s] = "locked" /\ opened'[s] = "inserted"
        /\ \A t \in Sessions : t # s => opened'[t] = opened[t]
        /\ entries'[IdOf[s]] = s /\ \A i \in Ids : i # IdOf[s] => entries'[i] = entries[i]
        BY <1>0, <1>5 DEF InsertEntry, tasks, files
  <2>2. anchor[s] /\ \A p \in Tasks : job[p].h # s BY <2>1 DEF DiskInv, Fresh
  <2>3. Addressed' BY <1>0, <2>1 DEF Addressed
  <2>4. Fresh' BY <2>1 DEF DiskInv, Fresh
  <2>5. Exclusive' /\ NoSplice' BY <2>1 DEF DiskInv, Exclusive, Active, NoSplice
  <2>6. Produced' /\ FullsHaveAll' /\ AppendFits'
        BY <2>1 DEF DiskInv, Produced, FullsHaveAll, FullHasAll, AppendFits, Teed
  <2>7. \A t \in Sessions : t # s /\ Reach(t)' => Reach(t) BY <2>1 DEF Reach
  <2>8. NothingDropped' BY <2>1, <2>2, <2>7 DEF DiskInv, NothingDropped, Drained, Teed
  <2> QED BY <2>3, <2>4, <2>5, <2>6, <2>8 DEF DiskInv
<1> QED BY <1>2, <1>3, <1>4, <1>5 DEF Reader, Opener

\* A close, and what the loop does without a session of its own.
LEMMA RegistryKeepsDisk ==
    ASSUME DiskInv, TypeInv', UNCHANGED <<job, inflight, handles, anchor, disk, sessions>>,
           \A i \in Ids : entries'[i] \in {entries[i], NoSession},
           \A i \in Ids : dir'[i] \in {dir[i], NoSession}
    PROVE  DiskInv'
<1>1. Addressed' BY DEF DiskInv, Addressed
<1>2. \A t \in Sessions : out[t] \in Nat BY DEF DiskInv, TypeInv, TypeOK
<1>3. \A t \in Sessions : /\ rd[t] = "fed" => out[t] # 0
                          /\ pend[t] \subseteq Teed(t) /\ Teed(t)' = Teed(t)
      BY DEF DiskInv, Produced, Teed, sessions
<1> QED BY <1>1, <1>2, <1>3, SessionKeepsDisk DEF sessions

\* The fields of the job a task has when it takes a guard, and when it lets go.
LEMMA NewJobFields ==
    ASSUME TypeInv, NEW p \in Tasks, NEW s, NEW c
    PROVE  /\ Acquire(p, s) => /\ job'[p].pc = "begin" /\ job'[p].h = s
                               /\ \A q \in Tasks : q # p => job'[q] = job[q]
           /\ job' = [job EXCEPT ![p] = [NoJob EXCEPT !.pc = c]] =>
                 /\ job'[p].pc = c /\ job'[p].h = NoSession
                 /\ \A q \in Tasks : q # p => job'[q] = job[q]
<1>1. job \in [Tasks -> Jobs] BY DiskTypes
<1>2. ASSUME NEW x, job' = [job EXCEPT ![p] = x]
      PROVE  job'[p] = x /\ \A q \in Tasks : q # p => job'[q] = job[q]
      BY <1>1, <1>2
<1>3. ASSUME Acquire(p, s)
      PROVE  /\ job'[p].pc = "begin" /\ job'[p].h = s
             /\ \A q \in Tasks : q # p => job'[q] = job[q]
  <2> DEFINE x == [NoJob EXCEPT !.pc = "begin", !.h = s]
  <2>1. job' = [job EXCEPT ![p] = x] BY <1>3 DEF Acquire
  <2>2. x.pc = "begin" /\ x.h = s BY DEF NoJob
  <2> HIDE DEF x
  <2> QED BY <1>2, <2>1, <2>2
<1>4. ASSUME job' = [job EXCEPT ![p] = [NoJob EXCEPT !.pc = c]]
      PROVE  /\ job'[p].pc = c /\ job'[p].h = NoSession
             /\ \A q \in Tasks : q # p => job'[q] = job[q]
  <2> DEFINE x == [NoJob EXCEPT !.pc = c]
  <2>1. job' = [job EXCEPT ![p] = x] BY <1>4
  <2>2. x.pc = c /\ x.h = NoSession BY DEF NoJob
  <2> HIDE DEF x
  <2> QED BY <1>2, <2>1, <2>2
<1> QED BY <1>3, <1>4

\* The run loop.
LEMMA LoopKeepsDisk == ASSUME DiskInv, TypeInv', Loop PROVE DiskInv'
<1> USE ConstantFacts
<1>0. TypeInv /\ Tick \in Tasks /\ todo \subseteq Ids \X Nat /\ entries \in [Ids -> Sessions \cup {NoSession}]
      BY DEF DiskInv, TypeInv, TypeOK
<1>1. CASE Wake \/ TickStart \/ TickEnd \/ (\E iv \in todo : TickUnregistered(iv) \/ TickBusy(iv))
      BY <1>1, RegistryKeepsDisk
         DEF Wake, TickStart, TickEnd, TickUnregistered, TickBusy, registry, tasks, files
<1>2. ASSUME NEW iv \in todo, TickSession(iv) PROVE DiskInv'
  <2>1. PICK s \in Sessions : s = entries[iv[1]] BY <1>0, <1>2 DEF TickSession
  <2>2. iv[1] \in Ids /\ IdOf[s] = iv[1] BY <1>0, <2>1 DEF DiskInv, Addressed
  <2>3. entries[IdOf[s]] = s /\ opened[s] \notin {"none", "spawned", "locked"}
        BY <2>1, <2>2 DEF DiskInv, Fresh
  <2>4. /\ ~inflight[s] /\ inflight' = [inflight EXCEPT ![s] = TRUE] /\ ~Active(Tick)
        BY <1>2, <2>1 DEF TickSession, Acquire, Ticking, Active
  <2>5. /\ job'[Tick].pc = "begin" /\ job'[Tick].h = s
        /\ \A q \in Tasks : q # Tick => job'[q] = job[q]
    <3>1. Acquire(Tick, s) BY <1>2, <2>1 DEF TickSession
    <3> QED BY <1>0, <3>1, NewJobFields
  <2> QED BY <1>0, <1>2, <2>3, <2>4, <2>5, AcquireKeepsDisk DEF TickSession, registry, sessions, files
<1>3. CASE TickFinish
  <2>1. PICK s \in Sessions : s = job[Tick].h /\ IdFor(Tick) = IdOf[s]
        BY <1>0, <1>3, DiskTypes DEF TickFinish, Active, IdFor
  <2>2. job[Tick].pc = "finish" /\ Active(Tick) /\ inflight' = [inflight EXCEPT ![s] = FALSE]
        BY <1>3, <2>1 DEF TickFinish, Target, Active
  <2>3. /\ job'[Tick].pc = "off" /\ job'[Tick].h = NoSession
        /\ \A q \in Tasks : q # Tick => job'[q] = job[q]
    <3>1. job' = [job EXCEPT ![Tick] = [NoJob EXCEPT !.pc = "off"]] BY <1>3 DEF TickFinish, NoJob
    <3> QED BY <1>0, <3>1, NewJobFields
  <2>4. job[Tick].res \in {"ok", "retry", "disabled"} BY <1>0, DiskTypes DEF Jobs
  <2>5. /\ \A i \in Ids : entries'[i] \in {entries[i], NoSession}
        /\ job[Tick].res = "disabled" => entries'[IdOf[s]] = NoSession
        BY <1>0, <1>3, <2>1, <2>4 DEF TickFinish, RemoveEntry
  <2>6. ~Active(Tick)' BY <2>3 DEF Active
  <2> QED BY <1>0, <1>3, <2>1, <2>2, <2>3, <2>5, <2>6, ReleaseKeepsDisk DEF TickFinish, sessions, files
<1> QED BY <1>1, <1>2, <1>3 DEF Loop

\* Flushes and shutdowns.
LEMMA FlushKeepsDisk ==
    ASSUME DiskInv, TypeInv', NEW f \in Flushers, FlushStart(f) \/ Flush(f) PROVE DiskInv'
<1> USE ConstantFacts
<1>0. /\ TypeInv /\ f \in Tasks /\ f # Tick /\ handles \in [Flushers -> SUBSET Sessions]
      /\ entries \in [Ids -> Sessions \cup {NoSession}] /\ dir \in [Ids -> Sessions \cup {NoSession}]
      BY ConstantsAssumption, DiskTypes DEF DiskInv
<1>1. CASE FlushStart(f)
  <2>1. /\ job'[f].pc = "next" /\ job'[f].h = job[f].h
        /\ \A q \in Tasks : q # f => job'[q] = job[q]
        BY <1>0, <1>1, JobFields DEF FlushStart
  <2>2. ~Active(f) /\ ~Active(f)' /\ job[f].h = NoSession
        BY <1>0, <1>1, <2>1 DEF FlushStart, Active, DiskInv, Exclusive
  <2>3. \A g \in Flushers : \A t \in handles'[g] : t \in handles[g] \/ entries[IdOf[t]] = t
        BY <1>0, <1>1 DEF FlushStart
  <2> QED BY <1>0, <1>1, <2>1, <2>2, <2>3, ReleaseKeepsDisk DEF FlushStart, registry, sessions, files
<1>2. ASSUME NEW s \in Sessions, FlushSession(f, s) PROVE DiskInv'
  <2>1. s \in handles[f] /\ opened[s] \notin {"none", "spawned", "locked"}
        BY <1>2 DEF FlushSession, DiskInv, Fresh
  <2>2. ~inflight[s] /\ inflight' = [inflight EXCEPT ![s] = TRUE] /\ ~Active(f)
        BY <1>2 DEF FlushSession, Acquire, Active
  <2>3. /\ job'[f].pc = "begin" /\ job'[f].h = s /\ \A q \in Tasks : q # f => job'[q] = job[q]
    <3>1. Acquire(f, s) BY <1>2 DEF FlushSession
    <3> QED BY <1>0, <3>1, NewJobFields
  <2>4. \A g \in Flushers : handles'[g] \subseteq handles[g] BY <1>0, <1>2 DEF FlushSession
  <2> QED BY <1>0, <1>2, <2>1, <2>2, <2>3, <2>4, AcquireKeepsDisk
          DEF FlushSession, registry, sessions, files
<1>3. CASE FlushFinish(f)
  <2>1. Active(f) /\ inflight' = [inflight EXCEPT ![job[f].h] = FALSE]
        BY <1>3 DEF FlushFinish, Target, Active
  <2>2. /\ job'[f].pc = "next" /\ job'[f].h = NoSession /\ \A q \in Tasks : q # f => job'[q] = job[q]
    <3>1. job' = [job EXCEPT ![f] = [NoJob EXCEPT !.pc = "next"]] BY <1>3 DEF FlushFinish
    <3> QED BY <1>0, <3>1, NewJobFields
  <2>3. ~Active(f)' BY <2>2 DEF Active
  <2> QED BY <1>0, <1>3, <2>1, <2>2, <2>3, ReleaseKeepsDisk DEF FlushFinish, registry, sessions, files
<1>4. CASE FlushEnd(f) \/ StopEnd(f)
  <2>1. ~Active(f) /\ inflight' = inflight BY <1>4 DEF FlushEnd, StopEnd, Active
  <2>2. PICK c \in {"stop", "off"} : job' = [job EXCEPT ![f] = [NoJob EXCEPT !.pc = c]]
        BY <1>4 DEF FlushEnd, StopEnd, NoJob
  <2>3. job'[f].pc = c /\ job'[f].h = NoSession /\ \A q \in Tasks : q # f => job'[q] = job[q]
        BY <1>0, <2>2, NewJobFields
  <2>4. ~Active(f)' BY <2>3 DEF Active
  <2> QED BY <1>0, <1>4, <2>1, <2>3, <2>4, ReleaseKeepsDisk
          DEF FlushEnd, StopEnd, registry, sessions, files
<1>5. ASSUME NEW i \in Ids, StopClose(f, i) PROVE DiskInv'
      BY <1>0, <1>5, RegistryKeepsDisk DEF StopClose, RemoveEntry
<1> QED BY <1>1, <1>2, <1>3, <1>4, <1>5 DEF Flush

\* Every step keeps the invariant.
LEMMA StepKeepsDisk == ASSUME IdsOwn, DiskInv, [Next]_vars PROVE DiskInv'
<1>0. TypeInv' BY StepTypes DEF DiskInv
<1>1. ASSUME NEW i \in Ids, Close(i) PROVE DiskInv'
  <2>1. entries \in [Ids -> Sessions \cup {NoSession}] /\ dir \in [Ids -> Sessions \cup {NoSession}]
        BY DiskTypes DEF DiskInv
  <2> QED BY <1>0, <1>1, <2>1, RegistryKeepsDisk DEF Close, RemoveEntry, tasks
<1>2. CASE UNCHANGED vars BY <1>0, <1>2, RegistryKeepsDisk DEF vars, registry, tasks, files
<1> QED BY <1>0, <1>1, <1>2, SessionStepKeepsDisk, PersistStepKeepsDisk, LoopKeepsDisk, FlushKeepsDisk
        DEF Next

\* It holds at the start: nothing is registered, put out or written.
LEMMA InitDisk == Init => DiskInv
<1> SUFFICES ASSUME Init PROVE DiskInv OBVIOUS
<1>1. TypeInv BY InitTypes
<1>2. \A p \in Tasks : job[p].pc = "off" /\ job[p].h = NoSession BY DEF Init, NoJob
<1>3. \A p \in Tasks : ~Active(p) BY <1>2 DEF Active
<1>4. Exclusive BY <1>2, <1>3 DEF Exclusive
<1>5. Addressed /\ Fresh BY <1>2, ConstantFacts DEF Init, Addressed, Fresh
<1>6. Produced /\ NoSplice BY DEF Init, Produced, NoSplice
<1>7. FullsHaveAll /\ AppendFits BY <1>2, ConstantFacts DEF FullsHaveAll, AppendFits
<1>8. NothingDropped BY DEF Init, NothingDropped
<1> QED BY <1>1, <1>4, <1>5, <1>6, <1>7, <1>8 DEF DiskInv

\* NoSplice: for sessions with ids of their own, what is on disk has no hole below its
\* newest logged chunk, whichever of tick and flush drained the records, whichever of
\* their writes failed, and wherever the pending buffer overflowed.
THEOREM NothingSpliced == ASSUME IdsOwn PROVE Spec => []NoSplice
<1>1. DiskInv /\ [Next]_vars => DiskInv' BY StepKeepsDisk
<1>2. DiskInv => NoSplice BY DEF DiskInv
<1> QED BY InitDisk, <1>1, <1>2, PTL DEF Spec

\* NeverRolledBack: for sessions with ids of their own, no write that was begun early and
\* lands late takes back what a tick or a flush has written since.
THEOREM DiskNeverRolledBack == ASSUME IdsOwn PROVE Spec => NeverRolledBack
<1>1. DiskInv /\ [Next]_vars => DiskInv' BY StepKeepsDisk
<1>2. ASSUME DiskInv, [Next]_vars PROVE [KeepsDisk]_vars
  <2> SUFFICES ASSUME Next, NEW s \in Sessions PROVE disk[s] \subseteq disk'[s]
      BY <1>2 DEF KeepsDisk
  <2>1. CASE disk' = disk BY <2>1
  <2>2. ASSUME NEW p \in Tasks, WriteFull(p) \/ WriteAppend(p) PROVE disk[s] \subseteq disk'[s]
    <3>0. TypeInv BY <1>2 DEF DiskInv
    <3>1. PICK t \in Sessions : t = job[p].h
          BY <2>2, <3>0, DiskTypes DEF WriteFull, WriteAppend, Active
    <3>2. Target(p) = t /\ IdFor(p) = IdOf[t] BY <3>1 DEF Target, IdFor
    <3>3. dir[IdOf[t]] = t /\ DirOwn(p) /\ disk \in [Sessions -> SUBSET Nat]
      <4>1. /\ dir \in [Ids -> Sessions \cup {NoSession}] /\ disk \in [Sessions -> SUBSET Nat]
            /\ IdOf[t] \in Ids
            BY <3>0, ConstantFacts, DiskTypes
      <4>2. dir[IdOf[t]] # NoSession BY <2>2, <3>2 DEF WriteFull, WriteAppend, DirThere
      <4>3. dir[IdOf[t]] \in Sessions /\ IdOf[dir[IdOf[t]]] = IdOf[t]
            BY <1>2, <4>1, <4>2 DEF DiskInv, Addressed
      <4>4. dir[IdOf[t]] = t BY <4>3 DEF IdsOwn
      <4> QED BY <3>2, <4>1, <4>4 DEF DirOwn
    <3>4. CASE WriteFull(p)
      <4>1. disk' = [disk EXCEPT ![t] = 1 .. job[p].hi] BY <3>2, <3>3, <3>4 DEF WriteFull
      <4>2. disk[t] \subseteq 1 .. job[p].hi
            BY <1>2, <3>1, <3>4 DEF WriteFull, DiskInv, FullsHaveAll, FullHasAll
      <4> QED BY <3>3, <4>1, <4>2
    <3>5. CASE WriteAppend(p)
      <4>1. disk' = [disk EXCEPT ![t] = disk[t] \cup job[p].recs] BY <3>2, <3>3, <3>5 DEF WriteAppend
      <4> QED BY <3>3, <4>1
    <3> QED BY <2>2, <3>4, <3>5
  <2>3. ASSUME NEW p \in Tasks, Persist(p) PROVE disk[s] \subseteq disk'[s]
        BY <2>1, <2>2, <2>3 DEF Persist, PersistBegin, Rebuild, WriteFullFails, WriteAppendCapped,
                                WriteAppendFails, files
  <2>4. ASSUME NEW t \in Sessions, Spawn(t) \/ TeeRing(t) \/ Exit(t) \/ Reader(t) \/ Opener(t)
        PROVE  disk' = disk
        BY <2>4 DEF Spawn, TeeRing, Exit, Reader, Opener, TeePush, MarkDirtyCheck, MarkDirtyBump,
                    MarkDirtyNotify, OpenSession, InsertEntry, MarkOpened, EnableHistory, files
  <2>5. ASSUME NEW i \in Ids, Close(i) PROVE disk' = disk BY <2>5 DEF Close
  <2>6. Loop => disk' = disk
        BY DEF Loop, Wake, TickStart, TickFinish, TickEnd, TickUnregistered, TickBusy, TickSession, files
  <2>7. ASSUME NEW f \in Flushers, FlushStart(f) \/ Flush(f) PROVE disk' = disk
        BY <2>7 DEF FlushStart, Flush, FlushFinish, FlushEnd, StopEnd, FlushSession, StopClose, files
  <2> QED BY <2>1, <2>3, <2>4, <2>5, <2>6, <2>7 DEF Next
<1> QED BY InitDisk, <1>1, <1>2, PTL DEF Spec, NeverRolledBack
================================================================================
