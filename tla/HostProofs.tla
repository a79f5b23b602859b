----------------------------- MODULE HostProofs -----------------------------
(***************************************************************************)
(* What the host application promises about panes, their snapshots, the    *)
(* collector and the daemon it finds or starts, proved for any number of   *)
(* tasks, worktrees, sessions, panes and daemons.                          *)
(***************************************************************************)
EXTENDS PaneHost, TerminalGc, DaemonSupervisor, AgentStatus, PaneSnapshots,
        SequenceTheorems, WellFoundedInduction, TLAPS

-----------------------------------------------------------------------------
(* PaneSnapshots: every update starts from what the last one left          *)

\* A command between taking the store's lock and giving it back.
Holding(t) == saver[t].at \in {"load", "recover", "rewrite", "truncate", "write"}

SaverShape ==
  /\ saver = [t \in SnapTasks |-> saver[t]]
  /\ \A t \in SnapTasks :
       saver[t] = [at |-> saver[t].at, op |-> saver[t].op, wt |-> saver[t].wt,
                   snap |-> saver[t].snap, store |-> saver[t].store]

\* Only the task that has the lock is at the file.
LockHeld == \A t \in SnapTasks : Holding(t) => storeLock = t

\* What a task is about to write: the store as it was left when it repairs the file,
\* and that with its own worktree's change when it saves.
OwnChangeOnly ==
  \A t \in SnapTasks :
    /\ saver[t].at \in {"recover", "rewrite"} => saver[t].store = last
    /\ saver[t].at \in {"truncate", "write"} =>
         saver[t].store = [last EXCEPT ![saver[t].wt] = saver[t].snap]

\* A readable file is what the last update left, whoever holds the lock.
FileIsLast ==
  file = [kind |-> file.kind, store |-> file.store] /\ (file.kind # "empty" => file.store = last)

SnapshotInv == SaverShape /\ LockHeld /\ OwnChangeOnly /\ FileIsLast

\* The file starts as its last update left it.
LEMMA InitSnapshotInv == SnapshotInit => SnapshotInv
<1> SUFFICES ASSUME SnapshotInit PROVE SnapshotInv OBVIOUS
<1>1. saver = [t \in SnapTasks |-> Asleep] /\ last = file.store BY DEF SnapshotInit
<1>2. file = [kind |-> file.kind, store |-> file.store] BY DEF SnapshotInit
<1>3. SaverShape BY <1>1 DEF SaverShape, Asleep, Command
<1>4. \A t \in SnapTasks : saver[t].at = "idle" BY <1>1 DEF Asleep, Command
<1> QED BY <1>1, <1>2, <1>3, <1>4 DEF SnapshotInv, LockHeld, Holding, OwnChangeOnly, FileIsLast

\* A step of one task that is not at the file, before or after, concerns nobody else.
LEMMA AwayFromFile ==
  ASSUME SnapshotInv, NEW t \in SnapTasks, NEW r,
         r = [at |-> r.at, op |-> r.op, wt |-> r.wt, snap |-> r.snap, store |-> r.store],
         saver' = [saver EXCEPT ![t] = r],
         r.at \notin {"load", "recover", "rewrite", "truncate", "write"},
         UNCHANGED <<file, last>>, storeLock' = storeLock \/ Holding(t)
  PROVE  SnapshotInv'
<1>1. saver'[t] = r /\ \A u \in SnapTasks : u # t => saver'[u] = saver[u]
      BY DEF SnapshotInv, SaverShape
<1>2. SaverShape' BY <1>1 DEF SnapshotInv, SaverShape
<1>3. ASSUME NEW u \in SnapTasks, Holding(u)' PROVE u # t /\ Holding(u) /\ storeLock' = u
  <2>1. u # t /\ Holding(u) BY <1>1, <1>3 DEF Holding
  <2>2. storeLock = u BY <2>1 DEF SnapshotInv, LockHeld
  <2>3. ~Holding(t) BY <2>1, <2>2 DEF SnapshotInv, LockHeld
  <2> QED BY <2>1, <2>2, <2>3
<1>4. LockHeld' BY <1>3 DEF LockHeld
<1>5. OwnChangeOnly' BY <1>1, <1>3 DEF SnapshotInv, OwnChangeOnly, Holding
<1> QED BY <1>2, <1>4, <1>5 DEF SnapshotInv, FileIsLast

\* A step of the task at the file: nobody else is there, so only its own facts count.
LEMMA AtTheFile ==
  ASSUME SnapshotInv, NEW t \in SnapTasks, NEW r,
         Holding(t) \/ storeLock = "free",
         storeLock' = t \/ r.at \notin {"load", "recover", "rewrite", "truncate", "write"},
         r = [at |-> r.at, op |-> r.op, wt |-> r.wt, snap |-> r.snap, store |-> r.store],
         saver' = [saver EXCEPT ![t] = r], FileIsLast',
         r.at \in {"recover", "rewrite"} => r.store = last',
         r.at \in {"truncate", "write"} => r.store = [last' EXCEPT ![r.wt] = r.snap]
  PROVE  SnapshotInv'
<1>1. saver'[t] = r /\ \A u \in SnapTasks : u # t => saver'[u] = saver[u]
      BY DEF SnapshotInv, SaverShape
<1>2. SaverShape' BY <1>1 DEF SnapshotInv, SaverShape
<1>3. ASSUME NEW u \in SnapTasks, u # t PROVE ~Holding(u)
      BY <1>3, SnapshotAssumption DEF SnapshotInv, LockHeld
<1>4. \A u \in SnapTasks : u # t => ~Holding(u)' BY <1>1, <1>3 DEF Holding
<1>5. LockHeld' BY <1>1, <1>4 DEF LockHeld, Holding
<1>6. OwnChangeOnly' BY <1>1, <1>4 DEF OwnChangeOnly, Holding
<1> QED BY <1>2, <1>5, <1>6 DEF SnapshotInv

\* Two fields of a command change at once.
LEMMA AtAndStore ==
  ASSUME SaverShape, NEW t \in SnapTasks, NEW a, NEW b,
         GoesWith(t, a, b)
  PROVE  LET r == saver'[t] IN
         /\ saver' = [saver EXCEPT ![t] = r]
         /\ r = [at |-> a, op |-> saver[t].op, wt |-> saver[t].wt, snap |-> saver[t].snap,
                 store |-> b]
<1> DEFINE r == [at |-> a, op |-> saver[t].op, wt |-> saver[t].wt, snap |-> saver[t].snap,
                 store |-> b]
<1>1. saver[t] = [at |-> saver[t].at, op |-> saver[t].op, wt |-> saver[t].wt,
                  snap |-> saver[t].snap, store |-> saver[t].store]
      BY DEF SaverShape
<1>2. [saver[t] EXCEPT !.at = a, !.store = b] = r
  <2>1. [saver[t] EXCEPT !.at = a] =
          [at |-> a, op |-> saver[t].op, wt |-> saver[t].wt, snap |-> saver[t].snap,
           store |-> saver[t].store]
        BY <1>1
  <2>2. [saver[t] EXCEPT !.at = a, !.store = b] = [[saver[t] EXCEPT !.at = a] EXCEPT !.store = b]
        OBVIOUS
  <2>3. [[at |-> a, op |-> saver[t].op, wt |-> saver[t].wt, snap |-> saver[t].snap,
          store |-> saver[t].store] EXCEPT !.store = b] = r
        OBVIOUS
  <2> QED BY <2>1, <2>2, <2>3
<1>3. saver' = [saver EXCEPT ![t] = [saver[t] EXCEPT !.at = a, !.store = b]]
      BY DEF SaverShape, GoesWith
<1> QED BY <1>2, <1>3 DEF SaverShape

\* A command begins.
LEMMA Begins ==
  ASSUME NEW t \in SnapTasks, NEW w \in SnapWorktrees, SaverShape,
         BeginSave(t, w) \/ BeginRemove(t, w) \/ BeginLoad(t)
  PROVE  LET r == saver'[t] IN
         /\ saver' = [saver EXCEPT ![t] = r] /\ r.at \in {"cwd", "lock"}
         /\ r = [at |-> r.at, op |-> r.op, wt |-> r.wt, snap |-> r.snap, store |-> r.store]
<1>1. \E a \in {"cwd", "lock"} : \E o, v, n : saver' = [saver EXCEPT ![t] = Command(a, o, v, n)]
      BY DEF BeginSave, BeginRemove, BeginLoad
<1>2. PICK a \in {"cwd", "lock"} : \E o, v, n : saver' = [saver EXCEPT ![t] = Command(a, o, v, n)]
      BY <1>1
<1>3. PICK o, v, n : saver' = [saver EXCEPT ![t] = Command(a, o, v, n)] BY <1>2
<1> QED BY <1>3 DEF Command, SaverShape

\* Every step of the pane, its shell and the snapshot tasks keeps the invariant.
LEMMA StepKeepsSnapshotInv ==
  ASSUME SnapshotInv, [SnapshotNext]_snapshotVars
  PROVE  SnapshotInv'
<1>1. CASE \/ Prints \/ ChangeDirectory \/ AttachPane \/ Ingest
           \/ AskClear \/ DaemonClears \/ MirrorClears \/ UNCHANGED snapshotVars
  <2>1. UNCHANGED <<file, storeLock, saver, last>>
        BY <1>1 DEF Prints, ChangeDirectory, AttachPane, Ingest, AskClear, DaemonClears,
                    MirrorClears, snapshotVars
  <2> QED BY <2>1 DEF SnapshotInv, SaverShape, LockHeld, Holding, OwnChangeOnly, FileIsLast
<1>2. CASE AppDies
  <2>1. saver' = [t \in SnapTasks |-> Asleep] /\ UNCHANGED <<file, last>> BY <1>2 DEF AppDies
  <2>2. SaverShape' BY <2>1 DEF SaverShape, Asleep, Command
  <2>3. \A t \in SnapTasks : saver'[t].at = "idle" BY <2>1 DEF Asleep, Command
  <2> QED BY <2>1, <2>2, <2>3 DEF SnapshotInv, LockHeld, Holding, OwnChangeOnly, FileIsLast
<1>3. ASSUME NEW t \in SnapTasks, NEW w \in SnapWorktrees,
             BeginSave(t, w) \/ BeginRemove(t, w) \/ BeginLoad(t)
      PROVE  SnapshotInv'
  <2> DEFINE r == saver'[t]
  <2>1. UNCHANGED <<file, last, storeLock>> BY <1>3 DEF BeginSave, BeginRemove, BeginLoad
  <2>2. /\ saver' = [saver EXCEPT ![t] = r] /\ r.at \in {"cwd", "lock"}
        /\ r = [at |-> r.at, op |-> r.op, wt |-> r.wt, snap |-> r.snap, store |-> r.store]
        BY <1>3, Begins DEF SnapshotInv
  <2> HIDE DEF r
  <2> QED BY <2>1, <2>2, AwayFromFile
<1>4. ASSUME NEW t \in SnapTasks, AskCwd(t) \/ CacheCwd(t) PROVE SnapshotInv'
  <2> DEFINE r == saver'[t]
  <2>1. UNCHANGED <<file, last, storeLock>> BY <1>4 DEF AskCwd, CacheCwd
  <2>2. /\ saver' = [saver EXCEPT ![t] = r] /\ r.at \in {"cache", "lock"}
        /\ r = [at |-> r.at, op |-> r.op, wt |-> r.wt, snap |-> r.snap, store |-> r.store]
        BY <1>4 DEF AskCwd, CacheCwd, Goes, SnapshotInv, SaverShape
  <2> HIDE DEF r
  <2> QED BY <2>1, <2>2, AwayFromFile
<1>5. ASSUME NEW t \in SnapTasks, LockStore(t) PROVE SnapshotInv'
  <2> DEFINE r == saver'[t]
  <2>1. UNCHANGED <<file, last>> /\ storeLock = "free" /\ storeLock' = t BY <1>5 DEF LockStore
  <2>2. /\ saver' = [saver EXCEPT ![t] = r] /\ r.at = "load"
        /\ r = [at |-> r.at, op |-> r.op, wt |-> r.wt, snap |-> r.snap, store |-> r.store]
        BY <1>5 DEF LockStore, Goes, SnapshotInv, SaverShape
  <2>3. FileIsLast' BY <2>1 DEF SnapshotInv, FileIsLast
  <2> HIDE DEF r
  <2> QED BY <2>1, <2>2, <2>3, AtTheFile
<1>6. ASSUME NEW t \in SnapTasks, Holding(t), Gives(t), FileIsLast' PROVE SnapshotInv'
  <2>1. saver' = [saver EXCEPT ![t] = Asleep] BY <1>6 DEF Gives
  <2>2. /\ Asleep = [at |-> Asleep.at, op |-> Asleep.op, wt |-> Asleep.wt,
                     snap |-> Asleep.snap, store |-> Asleep.store]
        /\ Asleep.at = "idle"
        BY DEF Asleep, Command
  <2> QED BY <1>6, <2>1, <2>2, AtTheFile
<1>7. ASSUME NEW t \in SnapTasks, LoadStore(t) PROVE SnapshotInv'
  <2>1. Holding(t) /\ storeLock = t /\ UNCHANGED <<file, last>>
        BY <1>7 DEF LoadStore, Holding, SnapshotInv, LockHeld
  <2>2. FileIsLast' BY <2>1 DEF SnapshotInv, FileIsLast
  <2> DEFINE r == saver'[t]
  <2>3. CASE Gives(t) BY <1>6, <2>1, <2>2, <2>3
  <2>4. CASE /\ file.kind = "whole" /\ UNCHANGED storeLock
             /\ saver[t].op # "load"
             /\ GoesWith(t, "truncate", Updated(t, file.store))
    <3>1. /\ saver' = [saver EXCEPT ![t] = r] /\ r.at = "truncate"
          /\ r = [at |-> r.at, op |-> r.op, wt |-> r.wt, snap |-> r.snap, store |-> r.store]
          /\ r.wt = saver[t].wt /\ r.snap = saver[t].snap /\ r.store = Updated(t, file.store)
      <4>1. SaverShape BY DEF SnapshotInv
      <4>2. /\ saver' = [saver EXCEPT ![t] = saver'[t]]
            /\ saver'[t] = [at |-> "truncate", op |-> saver[t].op, wt |-> saver[t].wt,
                            snap |-> saver[t].snap, store |-> Updated(t, file.store)]
            BY <2>4, <4>1, AtAndStore
      <4> QED BY <4>2
    <3>2. r.store = [last' EXCEPT ![r.wt] = r.snap]
          BY <2>1, <2>4, <3>1 DEF Updated, SnapshotInv, FileIsLast
    <3> HIDE DEF r
    <3> QED BY <2>1, <2>2, <2>4, <3>1, <3>2, AtTheFile
  <2>5. CASE /\ file.kind = "trailing" /\ UNCHANGED storeLock
             /\ GoesWith(t, "recover", file.store)
    <3>1. /\ saver' = [saver EXCEPT ![t] = r] /\ r.at = "recover" /\ r.store = file.store
          /\ r = [at |-> r.at, op |-> r.op, wt |-> r.wt, snap |-> r.snap, store |-> r.store]
      <4>1. SaverShape BY DEF SnapshotInv
      <4>2. /\ saver' = [saver EXCEPT ![t] = saver'[t]]
            /\ saver'[t] = [at |-> "recover", op |-> saver[t].op, wt |-> saver[t].wt,
                            snap |-> saver[t].snap, store |-> file.store]
            BY <2>5, <4>1, AtAndStore
      <4> QED BY <4>2
    <3>2. r.store = last' BY <2>1, <2>5, <3>1 DEF SnapshotInv, FileIsLast
    <3> HIDE DEF r
    <3> QED BY <2>1, <2>2, <2>5, <3>1, <3>2, AtTheFile
  <2> QED BY <1>7, <2>3, <2>4, <2>5 DEF LoadStore
<1>8. ASSUME NEW t \in SnapTasks, RecoverTruncates(t) \/ SaveTruncatesStore(t)
      PROVE  SnapshotInv'
  <2>1. Holding(t) /\ storeLock = t /\ UNCHANGED last
        BY <1>8 DEF RecoverTruncates, SaveTruncatesStore, Truncates, Holding, SnapshotInv, LockHeld
  <2>2. CASE Gives(t) /\ UNCHANGED file
    <3>1. FileIsLast' BY <2>1, <2>2 DEF SnapshotInv, FileIsLast
    <3> QED BY <1>6, <2>1, <2>2, <3>1
  <2>3. CASE /\ file' = [file EXCEPT !.kind = "empty"] /\ UNCHANGED storeLock
             /\ \/ saver[t].at = "recover" /\ Goes(t, "rewrite")
                \/ saver[t].at = "truncate" /\ Goes(t, "write")
    <3> DEFINE r == saver'[t]
    <3>1. /\ saver' = [saver EXCEPT ![t] = r] /\ r.store = saver[t].store
          /\ r.wt = saver[t].wt /\ r.snap = saver[t].snap
          /\ r = [at |-> r.at, op |-> r.op, wt |-> r.wt, snap |-> r.snap, store |-> r.store]
          /\ \/ saver[t].at = "recover" /\ r.at = "rewrite"
             \/ saver[t].at = "truncate" /\ r.at = "write"
          BY <2>3 DEF Goes, SnapshotInv, SaverShape
    <3>2. FileIsLast' BY <2>3 DEF SnapshotInv, FileIsLast
    <3>3. /\ r.at \in {"recover", "rewrite"} => r.store = last'
          /\ r.at \in {"truncate", "write"} => r.store = [last' EXCEPT ![r.wt] = r.snap]
          BY <2>1, <3>1 DEF SnapshotInv, OwnChangeOnly
    <3> HIDE DEF r
    <3> QED BY <2>1, <2>3, <3>1, <3>2, <3>3, AtTheFile
  <2> QED BY <1>8, <2>2, <2>3 DEF RecoverTruncates, SaveTruncatesStore, Truncates
<1>9. ASSUME NEW t \in SnapTasks, RecoverWrites(t) PROVE SnapshotInv'
  <2>1. /\ Holding(t) /\ storeLock = t /\ UNCHANGED last /\ saver[t].store = last
        /\ file' = [kind |-> "whole", store |-> saver[t].store]
        BY <1>9 DEF RecoverWrites, Holding, SnapshotInv, LockHeld, OwnChangeOnly
  <2>2. FileIsLast' BY <2>1 DEF FileIsLast
  <2>3. CASE saver[t].op = "load" BY <1>6, <1>9, <2>1, <2>2, <2>3 DEF RecoverWrites
  <2>4. CASE saver[t].op # "load"
    <3> DEFINE r == saver'[t]
    <3>1. /\ saver' = [saver EXCEPT ![t] = r] /\ r.at = "truncate" /\ storeLock' = storeLock
          /\ r = [at |-> r.at, op |-> r.op, wt |-> r.wt, snap |-> r.snap, store |-> r.store]
          /\ r.wt = saver[t].wt /\ r.snap = saver[t].snap
          /\ r.store = Updated(t, saver[t].store)
      <4>1. SaverShape BY DEF SnapshotInv
      <4>2. GoesWith(t, "truncate", Updated(t, saver[t].store)) /\ storeLock' = storeLock
            BY <1>9, <2>4 DEF RecoverWrites
      <4>3. /\ saver' = [saver EXCEPT ![t] = saver'[t]]
            /\ saver'[t] = [at |-> "truncate", op |-> saver[t].op, wt |-> saver[t].wt,
                            snap |-> saver[t].snap, store |-> Updated(t, saver[t].store)]
            BY <4>2, <4>1, AtAndStore
      <4> QED BY <4>2, <4>3
    <3>2. r.store = [last' EXCEPT ![r.wt] = r.snap] BY <2>1, <2>4, <3>1 DEF Updated
    <3> HIDE DEF r
    <3> QED BY <2>1, <2>2, <3>1, <3>2, AtTheFile
  <2> QED BY <2>3, <2>4
<1>10. ASSUME NEW t \in SnapTasks, SaveWritesStore(t) PROVE SnapshotInv'
  <2>1. /\ Holding(t) /\ Gives(t)
        /\ saver[t].store = [last EXCEPT ![saver[t].wt] = saver[t].snap]
        /\ file' = [kind |-> "whole", store |-> saver[t].store]
        /\ last' = [last EXCEPT ![saver[t].wt] = saver[t].snap]
        BY <1>10 DEF SaveWritesStore, Holding, SnapshotInv, OwnChangeOnly
  <2>2. FileIsLast' BY <2>1 DEF FileIsLast
  <2> QED BY <1>6, <2>1, <2>2
<1> QED BY <1>1, <1>2, <1>3, <1>4, <1>5, <1>7, <1>8, <1>9, <1>10, SnapshotAssumption
       DEF SnapshotNext

\* SnapshotsKept: the snapshot file, whenever no command is at it and it can be parsed,
\* is what the last finished update left, so no save, removal or repairing load loses
\* another worktree's snapshot.
THEOREM SnapshotsKeptTheorem == SnapshotSpec => []SnapshotsKept
<1>1. SnapshotInv => SnapshotsKept BY DEF SnapshotInv, FileIsLast, SnapshotsKept
<1> QED BY InitSnapshotInv, StepKeepsSnapshotInv, <1>1, PTL DEF SnapshotSpec

-----------------------------------------------------------------------------
(* TerminalGc: the collector's copies are old, and still safe to act on    *)

GcTypes ==
  /\ daemon \subseteq GcSessions /\ attached \subseteq Panes /\ registry \subseteq Panes
  /\ hist \in [GcSessions -> {"none", "young", "old"}]
  /\ opened \in [Panes -> {"no", "answered", "done"}]
  /\ gc \in [at : {"idle", "referenced", "started", "alone", "listed", "planned", "prune", "kill",
                   "history", "scanned", "checked", "remove"},
             refs : SUBSET Worktrees, panes : SUBSET Panes, known : SUBSET GcSessions,
             stale : SUBSET Worktrees, kill : SUBSET GcSessions, roots : SUBSET GcSessions,
             folders : SUBSET GcSessions, exist : SUBSET Worktrees]
  /\ layouts \subseteq GcSessions /\ reopened \subseteq GcSessions

\* An attached pane's session is at the daemon.
AttachedLives == \A p \in attached : SessOf[p] \in daemon

\* A registered pane, and so one of the collector's copy, was opened before: it cannot
\* become attached again.
CopyOpened ==
  /\ \A p \in registry \cup attached : opened[p] # "no"
  /\ \A p \in gc.panes : opened[p] # "no"

Listed ==
  gc.at \in {"listed", "planned", "prune", "kill", "history", "scanned", "checked", "remove"}

\* A pane of the copy that is attached still was at the daemon when it was asked.
AttachedWasListed == Listed => \A p \in gc.panes \cap attached : SessOf[p] \in gc.known

\* No session is doomed that a pane of the copy shows.
DoomedNotShown ==
  gc.at \in {"planned", "prune", "kill"} => \A p \in gc.panes : SessOf[p] \notin gc.kill

\* A session the daemon got after it was asked has a young history folder or was reopened,
\* and folders do not age while the collector runs.
NewIsYoung == Listed => \A t \in daemon \ gc.known : hist[t] # "old" \/ t \in reopened

\* A folder on the list belongs to a dead session that was not listed, unless it was
\* reopened since; it is there until it is removed.
FoldersDead ==
  /\ gc.at \in {"scanned", "checked", "remove"} =>
       \A t \in gc.folders \ gc.known : t \in reopened \/ (t \notin daemon /\ hist[t] # "none")
  /\ gc.at = "remove" => gc.folders \cap gc.known = {}

GcInv ==
  /\ GcTypes /\ AttachedLives /\ CopyOpened /\ AttachedWasListed /\ DoomedNotShown /\ NewIsYoung
  /\ FoldersDead

\* A collector that has not begun has no copies to be wrong about.
LEMMA InitGcInv == GcInit => GcInv
<1> SUFFICES ASSUME GcInit PROVE GcInv OBVIOUS
<1>1. gc = Idle /\ Idle.at = "idle" /\ Idle.panes = {} BY DEF GcInit, Idle
<1>2. GcTypes BY DEF GcInit, GcTypes, Idle
<1> QED BY <1>1, <1>2 DEF GcInit, GcInv, AttachedLives, CopyOpened, AttachedWasListed, Listed,
                        DoomedNotShown, NewIsYoung, FoldersDead

\* What goes on around a collection.
LEMMA AroundGcKeepsInv ==
  ASSUME GcInv, UNCHANGED <<gc, reopened>>, GcTypes', attached' \subseteq attached, CopyOpened',
         daemon' \subseteq daemon, AttachedLives',
         Listed => \A t \in GcSessions :
           \/ hist'[t] = hist[t]
           \/ t \in daemon /\ t \notin daemon'
           \/ t \in daemon /\ hist'[t] = "young"
  PROVE  GcInv'
<1>1. Listed' <=> Listed BY DEF Listed
<1>2. daemon' \subseteq GcSessions /\ gc.folders \subseteq GcSessions BY DEF GcInv, GcTypes
<1>3. AttachedWasListed' /\ DoomedNotShown' BY <1>1 DEF GcInv, AttachedWasListed, DoomedNotShown
<1>4. NewIsYoung'
  <2> SUFFICES ASSUME Listed, NEW t \in daemon' \ gc.known PROVE hist'[t] # "old" \/ t \in reopened
      BY <1>1 DEF NewIsYoung
  <2>1. t \in GcSessions /\ (hist[t] # "old" \/ t \in reopened) BY <1>2 DEF GcInv, NewIsYoung
  <2> QED BY <2>1
<1>5. FoldersDead'
  <2>1. gc.at = "remove" => gc.folders \cap gc.known = {} BY DEF GcInv, FoldersDead
  <2>2. ASSUME gc.at \in {"scanned", "checked", "remove"}, NEW t \in gc.folders \ gc.known
        PROVE  t \in reopened \/ (t \notin daemon' /\ hist'[t] # "none")
    <3>1. t \in GcSessions /\ (t \in reopened \/ (t \notin daemon /\ hist[t] # "none"))
          BY <1>2, <2>2 DEF GcInv, FoldersDead
    <3>2. Listed BY <2>2 DEF Listed
    <3> QED BY <3>1, <3>2
  <2> QED BY <2>1, <2>2 DEF FoldersDead
<1> QED BY <1>3, <1>4, <1>5 DEF GcInv

\* A pane is opened: it is not one of the copy, and its session is listed, young or
\* reopened.
LEMMA OpenPaneKeepsInv ==
  ASSUME GcInv, NEW p \in Panes, OpenPane(p) PROVE GcInv'
<1> DEFINE s == SessOf[p]
           found == s \notin daemon /\ hist[s] # "none"
<1>1. /\ s \in GcSessions /\ opened[p] = "no" /\ opened' = [opened EXCEPT ![p] = "answered"]
      /\ attached' = attached \cup {p} /\ daemon' = daemon \cup {s}
      /\ UNCHANGED <<layouts, registry, gc>>
      BY GcAssumption DEF OpenPane
<1>2. /\ \/ hist' = [hist EXCEPT ![s] = "young"] /\ s \notin daemon
         \/ hist' = hist /\ (s \in daemon \/ found)
      /\ reopened' = IF found THEN reopened \cup {s} ELSE reopened
      BY DEF OpenPane
<1> HIDE DEF s
<1>3. GcTypes'
  <2>1. hist' \in [GcSessions -> {"none", "young", "old"}] BY <1>1, <1>2 DEF GcInv, GcTypes
  <2>2. reopened' \subseteq GcSessions BY <1>1, <1>2 DEF GcInv, GcTypes
  <2>3. opened' \in [Panes -> {"no", "answered", "done"}] BY <1>1 DEF GcInv, GcTypes
  <2> QED BY <1>1, <2>1, <2>2, <2>3 DEF GcInv, GcTypes
<1>4. AttachedLives' BY <1>1 DEF GcInv, AttachedLives, s
<1>5. p \notin gc.panes BY <1>1 DEF GcInv, CopyOpened
<1>6. CopyOpened' BY <1>1 DEF GcInv, GcTypes, CopyOpened
<1>7. AttachedWasListed' BY <1>1, <1>5 DEF GcInv, AttachedWasListed, Listed
<1>8. DoomedNotShown' BY <1>1 DEF GcInv, DoomedNotShown
<1>9. \A t \in GcSessions : t # s => hist'[t] = hist[t] BY <1>1, <1>2 DEF GcInv, GcTypes
<1>10. reopened \subseteq reopened' /\ (found => s \in reopened') BY <1>2
<1>11. hist'[s] # "old" \/ (s \in daemon /\ hist' = hist) \/ found BY <1>1, <1>2 DEF GcInv, GcTypes
<1>12. NewIsYoung'
  <2> SUFFICES ASSUME Listed, NEW t \in daemon' \ gc.known PROVE hist'[t] # "old" \/ t \in reopened'
      BY <1>1 DEF NewIsYoung, Listed
  <2>1. CASE t = s /\ t \notin daemon BY <2>1, <1>10, <1>11
  <2>2. CASE t \in daemon
    <3>1. hist[t] # "old" \/ t \in reopened BY <2>2 DEF GcInv, NewIsYoung
    <3>2. hist'[t] = hist[t] BY <1>1, <1>2, <1>9, <2>2 DEF GcInv, GcTypes
    <3> QED BY <3>1, <3>2, <1>10
  <2> QED BY <1>1, <2>1, <2>2
<1>13. FoldersDead'
  <2>1. gc'.at = "remove" => gc'.folders \cap gc'.known = {} BY <1>1 DEF GcInv, FoldersDead
  <2>2. ASSUME gc.at \in {"scanned", "checked", "remove"}, NEW t \in gc.folders \ gc.known
        PROVE  t \in reopened' \/ (t \notin daemon' /\ hist'[t] # "none")
    <3>1. t \in GcSessions /\ (t \in reopened \/ (t \notin daemon /\ hist[t] # "none"))
          BY <2>2 DEF GcInv, GcTypes, FoldersDead
    <3>2. CASE t = s BY <3>1, <3>2, <1>10
    <3>3. CASE t # s BY <3>1, <3>3, <1>1, <1>9, <1>10
    <3> QED BY <3>2, <3>3
  <2> QED BY <1>1, <2>1, <2>2 DEF FoldersDead
<1> QED BY <1>3, <1>4, <1>6, <1>7, <1>8, <1>12, <1>13 DEF GcInv

\* Sessions and panes end, folders age or are written.
LEMMA EndsKeepsInv ==
  ASSUME GcInv,
         \/ \E p \in Panes : RegisterPane(p) \/ ExitArrives(p) \/ GcClosePane(p)
         \/ \E t \in GcSessions : SessionEnds(t) \/ FolderAges(t) \/ Checkpointed(t)
         \/ \E w \in Worktrees : DirToggles(w)
         \/ DaemonEnds \/ AppToggles \/ UNCHANGED gcVars
  PROVE  GcInv'
<1>1. ASSUME NEW p \in Panes, RegisterPane(p) PROVE GcInv'
  <2>1. /\ opened' = [opened EXCEPT ![p] = "done"] /\ UNCHANGED <<daemon, attached, hist, reopened, gc>>
        /\ registry' \subseteq registry \cup {p} /\ layouts' \subseteq layouts \cup {SessOf[p]}
        BY <1>1 DEF RegisterPane
  <2>2. GcTypes'
    <3>1. registry' \subseteq Panes /\ layouts' \subseteq GcSessions
      <4>1. SessOf[p] \in GcSessions BY GcAssumption
      <4> QED BY <2>1, <4>1 DEF GcInv, GcTypes
    <3>2. opened' \in [Panes -> {"no", "answered", "done"}] BY <2>1 DEF GcInv, GcTypes
    <3> QED BY <2>1, <3>1, <3>2 DEF GcInv, GcTypes
  <2>3. CopyOpened' BY <2>1 DEF GcInv, GcTypes, CopyOpened
  <2>4. AttachedLives' BY <2>1 DEF GcInv, AttachedLives
  <2> QED BY <2>1, <2>2, <2>3, <2>4, AroundGcKeepsInv
<1>2. ASSUME NEW t \in GcSessions, Ends(t), UNCHANGED <<opened, reopened, gc>>,
             registry' \subseteq registry, layouts' \subseteq layouts,
             hist' = IF t \in daemon THEN [hist EXCEPT ![t] = "none"] ELSE hist
      PROVE  GcInv'
  <2>1. /\ daemon' = daemon \ {t} /\ attached' \subseteq attached
        /\ \A p \in attached' : SessOf[p] # t
        BY <1>2 DEF Ends
  <2>2. GcTypes'
    <3>1. hist' \in [GcSessions -> {"none", "young", "old"}] BY <1>2 DEF GcInv, GcTypes
    <3> QED BY <1>2, <2>1, <3>1 DEF GcInv, GcTypes
  <2>3. CopyOpened' BY <1>2, <2>1 DEF GcInv, CopyOpened
  <2>4. AttachedLives' BY <2>1 DEF GcInv, AttachedLives
  <2>5. \A u \in GcSessions : hist'[u] = hist[u] \/ (u \in daemon /\ u \notin daemon')
        BY <1>2, <2>1 DEF GcInv, GcTypes
  <2> QED BY <1>2, <2>1, <2>2, <2>3, <2>4, <2>5, AroundGcKeepsInv
<1>3. ASSUME UNCHANGED <<opened, gc, daemon, attached, hist, reopened>>, registry' \subseteq registry,
             layouts' \subseteq layouts
      PROVE  GcInv'
  <2>1. GcTypes' BY <1>3 DEF GcInv, GcTypes
  <2>2. CopyOpened' /\ AttachedLives' BY <1>3 DEF GcInv, CopyOpened, AttachedLives
  <2> QED BY <1>3, <2>1, <2>2, AroundGcKeepsInv
<1>4. ASSUME NEW p \in Panes, ExitArrives(p) PROVE GcInv' BY <1>3, <1>4 DEF ExitArrives
<1>5. ASSUME NEW p \in Panes, GcClosePane(p) PROVE GcInv'
  <2>1. SessOf[p] \in GcSessions BY GcAssumption
  <2>2. UNCHANGED <<opened, reopened, gc>> /\ registry' \subseteq registry /\ layouts' \subseteq layouts
        BY <1>5 DEF GcClosePane
  <2>3. \/ /\ Ends(SessOf[p])
           /\ hist' = IF SessOf[p] \in daemon THEN [hist EXCEPT ![SessOf[p]] = "none"] ELSE hist
        \/ UNCHANGED <<daemon, attached, hist>>
        BY <1>5 DEF GcClosePane
  <2> QED BY <1>2, <1>3, <2>1, <2>2, <2>3
<1>6. ASSUME NEW t \in GcSessions, SessionEnds(t) PROVE GcInv' BY <1>2, <1>6 DEF SessionEnds
<1>7. ASSUME NEW t \in GcSessions, FolderAges(t) PROVE GcInv'
  <2>1. /\ hist' = [hist EXCEPT ![t] = "old"] /\ ~Listed
        /\ UNCHANGED <<layouts, daemon, opened, attached, registry, reopened, gc>>
        BY <1>7 DEF FolderAges, Listed
  <2>2. GcTypes' BY <2>1 DEF GcInv, GcTypes
  <2>3. CopyOpened' /\ AttachedLives' BY <2>1 DEF GcInv, CopyOpened, AttachedLives
  <2> QED BY <2>1, <2>2, <2>3, AroundGcKeepsInv
<1>8. ASSUME NEW t \in GcSessions, Checkpointed(t) PROVE GcInv'
  <2>1. /\ hist' = [hist EXCEPT ![t] = "young"] /\ t \in daemon
        /\ UNCHANGED <<layouts, daemon, opened, attached, registry, reopened, gc>>
        BY <1>8 DEF Checkpointed
  <2>2. GcTypes' BY <2>1 DEF GcInv, GcTypes
  <2>3. CopyOpened' /\ AttachedLives' BY <2>1 DEF GcInv, CopyOpened, AttachedLives
  <2>4. \A u \in GcSessions : hist'[u] = hist[u] \/ (u \in daemon /\ hist'[u] = "young")
        BY <2>1 DEF GcInv, GcTypes
  <2> QED BY <2>1, <2>2, <2>3, <2>4, AroundGcKeepsInv
<1>9. ASSUME NEW w \in Worktrees, DirToggles(w) PROVE GcInv' BY <1>3, <1>9 DEF DirToggles
<1>10. CASE DaemonEnds
  <2>1. daemon' = {} /\ attached' = {} /\ UNCHANGED <<layouts, hist, opened, registry, reopened, gc>>
        BY <1>10 DEF DaemonEnds
  <2>2. GcTypes' BY <2>1 DEF GcInv, GcTypes
  <2>3. CopyOpened' /\ AttachedLives' BY <2>1 DEF GcInv, CopyOpened, AttachedLives
  <2> QED BY <2>1, <2>2, <2>3, AroundGcKeepsInv
<1>11. CASE AppToggles \/ UNCHANGED gcVars BY <1>3, <1>11 DEF AppToggles, gcVars, gcEnv
<1> QED BY <1>1, <1>4, <1>5, <1>6, <1>7, <1>8, <1>9, <1>10, <1>11

\* The collector gives up or is done: nothing of its copies is used again.
LEMMA GcIdleKeepsInv ==
  ASSUME GcInv, gc' = Idle, UNCHANGED <<daemon, hist, opened, attached, registry, reopened>>,
         layouts' \subseteq layouts
  PROVE  GcInv'
<1>1. gc'.at = "idle" /\ gc'.panes = {} BY DEF Idle
<1>2. GcTypes' BY DEF GcInv, GcTypes, Idle
<1> QED BY <1>1, <1>2 DEF GcInv, AttachedLives, CopyOpened, AttachedWasListed, Listed,
                        DoomedNotShown, NewIsYoung, FoldersDead

\* The collector moves on with the copies it has.
LEMMA GcMovesKeepsInv ==
  ASSUME GcInv, GcTypes', UNCHANGED <<daemon, hist, opened, attached, reopened>>,
         registry' \subseteq registry, gc'.panes = gc.panes, gc'.known = gc.known,
         Listed' => Listed, DoomedNotShown', FoldersDead'
  PROVE  GcInv'
BY DEF GcInv, AttachedLives, CopyOpened, AttachedWasListed, NewIsYoung

\* The plan dooms no session that a pane of the copy shows.
LEMMA GcPlansKeepsInv ==
  ASSUME GcInv, GcPlans PROVE GcInv'
<1>1. /\ gc.at = "listed" /\ UNCHANGED gcEnv
      /\ gc' = [gc EXCEPT !.at = "planned", !.stale = StaleWorktrees, !.kill = StaleSessions]
      BY DEF GcPlans
<1>2. StaleWorktrees \subseteq Worktrees /\ StaleSessions \subseteq GcSessions
      BY DEF StaleWorktrees, StaleSessions, GcInv, GcTypes
<1>3. gc'.at = "planned" /\ gc'.panes = gc.panes /\ gc'.known = gc.known /\ gc'.kill = StaleSessions
      BY <1>1 DEF GcInv, GcTypes
<1>4. GcTypes' BY <1>1, <1>2 DEF GcInv, GcTypes, gcEnv
<1>5. ASSUME NEW p \in gc.panes, SessOf[p] \in StaleSessions PROVE FALSE
  <2>1. SessOf[p] \in gc.known /\ ~WorktreeAttached(WtOf[SessOf[p]])
        BY <1>5 DEF StaleSessions, StaleWorktrees
  <2> QED BY <2>1 DEF WorktreeAttached
<1>6. DoomedNotShown' BY <1>3, <1>5 DEF DoomedNotShown
<1>7. FoldersDead' /\ Listed BY <1>1, <1>3 DEF FoldersDead, Listed
<1> QED BY <1>1, <1>3, <1>4, <1>6, <1>7, GcMovesKeepsInv DEF gcEnv

\* The steps of the collector that take something: dead panes, doomed sessions, folders.
LEMMA GcReapsKeepsInv ==
  ASSUME GcInv, GcReaps PROVE GcInv'
<1>1. /\ gc.at = "planned" /\ registry' = registry \ ReapPlan
      /\ gc' = [gc EXCEPT !.at = "prune", !.roots = gc.kill \cap trees]
      /\ UNCHANGED <<layouts, daemon, hist, opened, attached, reopened>>
      BY DEF GcReaps
<1>2. /\ gc'.at = "prune" /\ gc'.panes = gc.panes /\ gc'.known = gc.known /\ gc'.kill = gc.kill
      BY <1>1 DEF GcInv, GcTypes
<1>3. GcTypes' BY <1>1 DEF GcInv, GcTypes
<1>4. DoomedNotShown' /\ FoldersDead' /\ Listed
      BY <1>1, <1>2 DEF GcInv, DoomedNotShown, FoldersDead, Listed
<1> QED BY <1>1, <1>2, <1>3, <1>4, GcMovesKeepsInv

\* A kill the collector sends takes a session off the daemon and off its plan.
LEMMA GcKillsKeepsInv ==
  ASSUME GcInv, NEW t \in GcSessions, GcKills(t) PROVE GcInv'
<1>1. /\ gc.at = "kill" /\ gc' = [gc EXCEPT !.kill = @ \ {t}]
      /\ UNCHANGED <<layouts, opened, reopened>>
      BY DEF GcKills
<1>2. /\ daemon' \subseteq daemon /\ attached' \subseteq attached /\ registry' \subseteq registry
      /\ \A p \in attached' : SessOf[p] \in daemon'
      BY DEF GcKills, Ends, GcInv, AttachedLives
<1>3. hist' \in [GcSessions -> {"none", "young", "old"}] /\ \A u \in daemon' : hist'[u] = hist[u]
      BY DEF GcKills, Ends, GcInv, GcTypes
<1>4. /\ gc'.at = "kill" /\ gc'.panes = gc.panes /\ gc'.known = gc.known
      /\ gc'.kill \subseteq gc.kill
      BY <1>1 DEF GcInv, GcTypes
<1>5. GcTypes' BY <1>1, <1>2, <1>3 DEF GcInv, GcTypes
<1>6. AttachedWasListed' /\ DoomedNotShown'
      BY <1>1, <1>2, <1>4 DEF GcInv, AttachedWasListed, DoomedNotShown, Listed
<1>7. NewIsYoung' BY <1>1, <1>2, <1>3, <1>4 DEF GcInv, NewIsYoung, Listed
<1>8. FoldersDead' BY <1>4 DEF FoldersDead
<1> QED BY <1>1, <1>2, <1>4, <1>5, <1>6, <1>7, <1>8 DEF GcInv, AttachedLives, CopyOpened

\* A folder goes, and is off the list.
LEMMA GcRemovesKeepsInv ==
  ASSUME GcInv, NEW t \in GcSessions, GcRemovesFolder(t) PROVE GcInv'
<1>1. /\ gc.at = "remove" /\ t \in gc.folders /\ gc' = [gc EXCEPT !.folders = @ \ {t}]
      /\ hist' \in {hist, [hist EXCEPT ![t] = "none"]}
      /\ UNCHANGED <<layouts, daemon, opened, attached, registry, reopened>>
      BY DEF GcRemovesFolder
<1>2. /\ gc'.at = "remove" /\ gc'.panes = gc.panes /\ gc'.known = gc.known
      /\ gc'.folders = gc.folders \ {t}
      BY <1>1 DEF GcInv, GcTypes
<1>3. /\ hist' \in [GcSessions -> {"none", "young", "old"}]
      /\ \A u \in GcSessions : hist'[u] = hist[u] \/ (u = t /\ hist'[u] = "none")
      BY <1>1 DEF GcInv, GcTypes
<1>4. GcTypes' BY <1>1, <1>3 DEF GcInv, GcTypes
<1>5. AttachedWasListed' /\ DoomedNotShown'
      BY <1>1, <1>2 DEF GcInv, AttachedWasListed, DoomedNotShown, Listed
<1>6. NewIsYoung'
  <2> SUFFICES ASSUME NEW u \in daemon \ gc.known PROVE hist'[u] # "old" \/ u \in reopened
      BY <1>1, <1>2 DEF NewIsYoung
  <2>1. u \in GcSessions /\ (hist[u] # "old" \/ u \in reopened)
        BY <1>1 DEF GcInv, GcTypes, NewIsYoung, Listed
  <2> QED BY <1>3, <2>1
<1>7. FoldersDead'
  <2>1. gc'.folders \cap gc'.known = {} BY <1>1, <1>2 DEF GcInv, FoldersDead
  <2>2. ASSUME NEW u \in gc'.folders \ gc.known
        PROVE  u \in reopened \/ (u \notin daemon /\ hist'[u] # "none")
    <3>1. u # t /\ u \in GcSessions /\ (u \in reopened \/ (u \notin daemon /\ hist[u] # "none"))
          BY <1>1, <1>2, <2>2 DEF GcInv, GcTypes, FoldersDead
    <3> QED BY <1>3, <3>1
  <2> QED BY <1>1, <1>2, <2>1, <2>2 DEF FoldersDead
<1> QED BY <1>1, <1>2, <1>4, <1>5, <1>6, <1>7 DEF GcInv, AttachedLives, CopyOpened

\* The folders are listed: an old one that is in use belongs to a listed session or to a
\* reopened one.
LEMMA HistoryKeepsInv ==
  ASSUME GcInv, GcScansFolders \/ GcChecksDirs \/ GcPlansHistory \/ GcDone PROVE GcInv'
<1>1. UNCHANGED <<daemon, hist, opened, attached, registry, layouts, reopened>>
      BY DEF GcScansFolders, GcChecksDirs, GcPlansHistory, GcDone, gcEnv
<1>2. CASE gc' = Idle BY <1>1, <1>2, GcIdleKeepsInv
<1>3. CASE GcScansFolders /\ gc' # Idle
  <2>1. /\ gc.at = "history"
        /\ gc' = [gc EXCEPT !.at = "scanned", !.folders = {t \in GcSessions : hist[t] = "old"}]
        BY <1>3 DEF GcScansFolders
  <2>2. /\ gc'.at = "scanned" /\ gc'.panes = gc.panes /\ gc'.known = gc.known
        /\ gc'.folders = {t \in GcSessions : hist[t] = "old"}
        BY <2>1 DEF GcInv, GcTypes
  <2>3. GcTypes' BY <1>1, <2>1 DEF GcInv, GcTypes
  <2>4. FoldersDead' BY <1>1, <2>1, <2>2 DEF GcInv, NewIsYoung, Listed, FoldersDead
  <2>5. DoomedNotShown' /\ Listed BY <2>1, <2>2 DEF DoomedNotShown, Listed
  <2> QED BY <1>1, <2>2, <2>3, <2>4, <2>5, GcMovesKeepsInv
<1>4. CASE GcChecksDirs
  <2>1. gc.at = "scanned" /\ gc' = [gc EXCEPT !.at = "checked", !.exist = gc.refs \cap dirs]
        BY <1>4 DEF GcChecksDirs
  <2>2. /\ gc'.at = "checked" /\ gc'.panes = gc.panes /\ gc'.known = gc.known
        /\ gc'.folders = gc.folders
        BY <2>1 DEF GcInv, GcTypes
  <2>3. GcTypes' BY <1>1, <2>1 DEF GcInv, GcTypes
  <2>4. FoldersDead' /\ DoomedNotShown' /\ Listed
        BY <1>1, <2>1, <2>2 DEF GcInv, FoldersDead, DoomedNotShown, Listed
  <2> QED BY <1>1, <2>2, <2>3, <2>4, GcMovesKeepsInv
<1>5. CASE GcPlansHistory
  <2>1. PICK referenced \in ReferencedSessions :
          gc.at = "checked" /\ gc' = [gc EXCEPT !.at = "remove", !.folders = HistoryPlan(referenced)]
        BY <1>5 DEF GcPlansHistory
  <2>2. HistoryPlan(referenced) \subseteq gc.folders /\ HistoryPlan(referenced) \cap gc.known = {}
        BY DEF HistoryPlan
  <2>3. /\ gc'.at = "remove" /\ gc'.panes = gc.panes /\ gc'.known = gc.known
        /\ gc'.folders = HistoryPlan(referenced)
        BY <2>1 DEF GcInv, GcTypes
  <2>4. GcTypes' BY <1>1, <2>1, <2>2 DEF GcInv, GcTypes
  <2>5. FoldersDead' /\ DoomedNotShown' /\ Listed
        BY <1>1, <2>1, <2>2, <2>3 DEF GcInv, FoldersDead, DoomedNotShown, Listed
  <2> QED BY <1>1, <2>3, <2>4, <2>5, GcMovesKeepsInv
<1> QED BY <1>2, <1>3, <1>4, <1>5 DEF GcDone

\* The collector moves on.
LEMMA CollectorKeepsInv ==
  ASSUME GcInv,
         \/ GcStart \/ GcCopiesRegistry \/ GcWithoutDaemon \/ GcCountsClients \/ GcLists
         \/ GcDryRun \/ GcPrunes \/ GcSweeps
  PROVE  GcInv'
<1>1. CASE GcStart
  <2>1. /\ gc' = [Idle EXCEPT !.at = "referenced", !.refs = ReferencedWorktrees]
        /\ UNCHANGED gcEnv
        BY <1>1 DEF GcStart
  <2>2. ReferencedWorktrees \subseteq Worktrees
        BY GcAssumption DEF ReferencedWorktrees, GcInv, GcTypes
  <2>3. gc' = [at |-> "referenced", refs |-> ReferencedWorktrees, panes |-> {}, known |-> {},
               stale |-> {}, kill |-> {}, roots |-> {}, folders |-> {}, exist |-> {}]
        BY <2>1 DEF Idle
  <2>4. GcTypes' BY <2>1, <2>2, <2>3 DEF GcInv, GcTypes, gcEnv
  <2>5. gc'.at = "referenced" /\ gc'.panes = {} BY <2>3
  <2> QED BY <2>1, <2>4, <2>5 DEF GcInv, AttachedLives, CopyOpened, AttachedWasListed, Listed,
                                DoomedNotShown, NewIsYoung, FoldersDead, gcEnv
<1>2. CASE GcCopiesRegistry
  <2>1. gc' = [gc EXCEPT !.at = "started", !.panes = registry] /\ UNCHANGED gcEnv
        BY <1>2 DEF GcCopiesRegistry
  <2>2. GcTypes' /\ gc'.at = "started" /\ gc'.panes = registry BY <2>1 DEF GcInv, GcTypes, gcEnv
  <2> QED BY <2>1, <2>2 DEF GcInv, AttachedLives, CopyOpened, AttachedWasListed, Listed,
                          DoomedNotShown, NewIsYoung, FoldersDead, gcEnv
<1>3. CASE GcWithoutDaemon
      BY <1>3, GcIdleKeepsInv DEF GcWithoutDaemon, LayoutsWithout
<1>4. CASE GcCountsClients
  <2>1. CASE gc' = Idle
        BY <1>4, <2>1, GcIdleKeepsInv DEF GcCountsClients, gcEnv
  <2>2. CASE gc' = [gc EXCEPT !.at = "alone"]
    <3>1. GcTypes' /\ gc'.at = "alone" /\ gc'.panes = gc.panes
          BY <1>4, <2>2 DEF GcCountsClients, gcEnv, GcInv, GcTypes
    <3> QED BY <1>4, <3>1 DEF GcCountsClients, gcEnv, GcInv, AttachedLives, CopyOpened,
                            AttachedWasListed, Listed, DoomedNotShown, NewIsYoung, FoldersDead
  <2> QED BY <1>4, <2>1, <2>2 DEF GcCountsClients
<1>5. CASE GcLists
  <2>1. CASE gc' = Idle /\ UNCHANGED reopened
        BY <1>5, <2>1, GcIdleKeepsInv DEF GcLists
  <2>2. CASE gc' = [gc EXCEPT !.at = "listed", !.known = daemon] /\ reopened' = {}
    <3>1. GcTypes' /\ gc'.at = "listed" /\ gc'.panes = gc.panes /\ gc'.known = daemon
          BY <1>5, <2>2 DEF GcLists, GcInv, GcTypes
    <3> QED BY <1>5, <3>1 DEF GcLists, GcInv, AttachedLives, CopyOpened,
                            AttachedWasListed, Listed, DoomedNotShown, NewIsYoung, FoldersDead
  <2> QED BY <1>5, <2>1, <2>2 DEF GcLists
<1>6. CASE GcDryRun BY <1>6, GcIdleKeepsInv DEF GcDryRun, gcEnv
<1>7. CASE GcPrunes
  <2>1. CASE gc' = Idle
        BY <1>7, <2>1, GcIdleKeepsInv DEF GcPrunes, LayoutsWithout
  <2>2. CASE gc' = [gc EXCEPT !.at = "kill"]
    <3>1. GcTypes' /\ gc.at = "prune" /\ gc'.at = "kill" /\ gc'.panes = gc.panes
          /\ gc'.known = gc.known /\ gc'.kill = gc.kill
          BY <1>7, <2>2 DEF GcPrunes, LayoutsWithout, GcInv, GcTypes
    <3>2. DoomedNotShown' /\ FoldersDead' /\ Listed
          BY <3>1 DEF GcInv, DoomedNotShown, FoldersDead, Listed
    <3> QED BY <1>7, <3>1, <3>2, GcMovesKeepsInv DEF GcPrunes
  <2> QED BY <1>7, <2>1, <2>2 DEF GcPrunes
<1>8. CASE GcSweeps
  <2>1. GcTypes' /\ gc.at = "kill" /\ gc'.at = "history" /\ gc'.panes = gc.panes
        /\ gc'.known = gc.known
        BY <1>8 DEF GcSweeps, GcInv, GcTypes
  <2>2. DoomedNotShown' /\ FoldersDead' /\ Listed
        BY <2>1 DEF DoomedNotShown, FoldersDead, Listed
  <2> QED BY <1>8, <2>1, <2>2, GcMovesKeepsInv DEF GcSweeps
<1> QED BY <1>1, <1>2, <1>3, <1>4, <1>5, <1>6, <1>7, <1>8

\* Every step of the collector and of what goes on meanwhile keeps the invariant.
LEMMA StepKeepsGcInv ==
  ASSUME GcInv, [GcNext]_gcVars PROVE GcInv'
<1>1. ASSUME NEW p \in Panes, OpenPane(p) PROVE GcInv' BY <1>1, OpenPaneKeepsInv
<1>2. ASSUME NEW t \in GcSessions, GcKills(t) \/ GcRemovesFolder(t) PROVE GcInv'
      BY <1>2, GcKillsKeepsInv, GcRemovesKeepsInv
<1> QED BY <1>1, <1>2, EndsKeepsInv, GcPlansKeepsInv, GcReapsKeepsInv, HistoryKeepsInv,
           CollectorKeepsInv DEF GcNext

\* With the invariant, no act of the collector hits what is alive.
LEMMA StepSparesLive ==
  ASSUME GcInv, [GcNext]_gcVars PROVE SparesLive
<1>1. CASE UNCHANGED gc BY <1>1 DEF SparesLive
<1>2. CASE GcReaps
  <2>1. gc.at = "planned" /\ registry' = registry \ ReapPlan BY <1>2 DEF GcReaps
  <2>2. \A p \in ReapPlan : p \notin attached
        BY <2>1 DEF ReapPlan, GcInv, AttachedWasListed, Listed
  <2> QED BY <2>1, <2>2 DEF SparesLive
<1>3. ASSUME NEW t \in GcSessions, GcKills(t) PROVE SparesLive
  <2>1. gc.at = "kill" /\ t \in gc.kill BY <1>3 DEF GcKills
  <2>2. \A p \in gc.panes : SessOf[p] # t BY <2>1 DEF GcInv, DoomedNotShown
  <2>3. ASSUME NEW p \in gc.panes \cap registry \cap attached
        PROVE  p \in registry' /\ p \in attached'
        BY <1>3, <2>2 DEF GcKills, Ends
  <2> QED BY <2>1, <2>3 DEF SparesLive
<1>4. ASSUME NEW t \in GcSessions, GcRemovesFolder(t) PROVE SparesLive
  <2>1. /\ gc.at = "remove" /\ t \in gc.folders
        /\ hist' \in {hist, [hist EXCEPT ![t] = "none"]}
        BY <1>4 DEF GcRemovesFolder
  <2>2. t \notin gc.known /\ t \notin daemon \ reopened BY <2>1 DEF GcInv, FoldersDead
  <2>3. \A u \in daemon \ reopened : hist'[u] = hist[u] BY <2>1, <2>2 DEF GcInv, GcTypes
  <2> QED BY <2>1, <2>3 DEF SparesLive
<1>5. CASE GcStart \/ GcCopiesRegistry \/ GcWithoutDaemon \/ GcCountsClients \/ GcLists \/ GcPlans
  <2>1. gc.at \in {"idle", "referenced", "started", "alone", "listed"}
        BY <1>5 DEF GcStart, GcCopiesRegistry, GcWithoutDaemon, GcCountsClients, GcLists, GcPlans
  <2> QED BY <2>1 DEF SparesLive
<1>6. CASE GcDryRun
  <2>1. gc.at = "planned" /\ gc'.at = "idle" BY <1>6 DEF GcDryRun, Idle
  <2> QED BY <2>1 DEF SparesLive
<1>7. CASE GcPrunes BY <1>7 DEF GcPrunes, SparesLive
<1>8. CASE GcSweeps
  <2>1. gc.at = "kill" /\ gc'.kill = gc.kill BY <1>8 DEF GcSweeps, GcInv, GcTypes
  <2> QED BY <2>1 DEF SparesLive
<1>9. CASE GcScansFolders \/ GcChecksDirs \/ GcPlansHistory
  <2>1. gc.at \in {"history", "scanned", "checked"}
        BY <1>9 DEF GcScansFolders, GcChecksDirs, GcPlansHistory
  <2> QED BY <2>1 DEF SparesLive
<1>10. CASE GcDone
  <2>1. gc.at = "remove" /\ gc.folders = {} /\ gc'.folders = {} BY <1>10 DEF GcDone, Idle
  <2> QED BY <2>1 DEF SparesLive
<1>11. CASE \/ \E p \in Panes : OpenPane(p) \/ RegisterPane(p) \/ ExitArrives(p) \/ GcClosePane(p)
            \/ \E t \in GcSessions : SessionEnds(t) \/ FolderAges(t) \/ Checkpointed(t)
            \/ \E w \in Worktrees : DirToggles(w)
            \/ DaemonEnds \/ AppToggles \/ UNCHANGED gcVars
      BY <1>1, <1>11 DEF OpenPane, RegisterPane, ExitArrives, GcClosePane, SessionEnds, FolderAges,
                         Checkpointed, DirToggles, DaemonEnds, AppToggles, gcVars
<1> QED BY <1>2, <1>3, <1>4, <1>5, <1>6, <1>7, <1>8, <1>9, <1>10, <1>11 DEF GcNext

\* GcSparesLive: although the collector acts on copies of the registry, the session
\* list, the folders and the layouts that are out of date when it acts, it reaps only dead
\* panes, kills no session that was on the screen when it began, and removes the folder of
\* no session the daemon has, unless it was reopened in that folder since the daemon was
\* asked.
THEOREM GcSparesLiveTheorem == GcSpec => GcSparesLive
<1>1. GcInv /\ [GcNext]_gcVars => [SparesLive]_gcVars BY StepSparesLive
<1>2. GcInit => GcInv BY InitGcInv
<1>3. GcInv /\ [GcNext]_gcVars => GcInv' BY StepKeepsGcInv
<1> QED BY <1>1, <1>2, <1>3, PTL DEF GcSpec, GcSparesLive

-----------------------------------------------------------------------------
(* DaemonSupervisor: one daemon at a time, found through its own files     *)

ProcStates ==
  {"none", "booting", "bound", "serving", "flushing", "unsock", "untoken", "unpid", "dead"}

AppStates ==
  [at : {"none", "probe", "stale", "count", "shutdown", "kill", "wait", "unlink", "spawn",
         "ready", "using", "failed"},
   ver : Nat, health : {"none", "unreachable", "rejected", "healthy", "broken"},
   force : BOOLEAN, child : 0..MaxDaemons, on : 0..MaxDaemons]

SupervisorTypes ==
  /\ proc \in [Daemons -> ProcStates] /\ sessions \subseteq Daemons
  /\ sock \in 0..MaxDaemons /\ token \in 0..MaxDaemons /\ pidf \in 0..MaxDaemons
  /\ app \in AppStates

\* Never two daemon processes at once.
OneLives == \A d, e \in Daemons : Alive(d) /\ Alive(e) => d = e

\* A daemon that has started is the one its files name; one that has not is watched by
\* the app that started it.
FilesAreOwn ==
  \A d \in Daemons :
    /\ proc[d] \in {"booting", "bound"} => app.at = "ready"
    /\ proc[d] \in {"bound", "serving", "flushing", "unsock"} => sock = d
    /\ proc[d] \in {"serving", "flushing", "unsock", "untoken"} => token = d
    /\ proc[d] \in {"serving", "flushing", "unsock", "untoken", "unpid"} => pidf = d

\* The predecessor is gone before the successor starts.
PredecessorGone ==
  /\ app.at \in {"unlink", "spawn", "failed"} => \A d \in Daemons : ~Alive(d)
  /\ app.at \in {"wait", "ready"} => \A d \in Daemons : Alive(d) => d = app.child
  /\ app.at \in {"wait", "ready"} => app.child \in Daemons

\* Sessions are owned by a daemon that serves, and by none that is being started.
SessionsLive ==
  /\ \A d \in sessions : proc[d] \in {"serving", "flushing"}
  /\ app.at = "ready" => sessions = {}

\* Why a daemon is ended: on request, or of another version, or it refused the hello;
\* or it has no sessions.
EndedForReason ==
  /\ app.at = "stale" => app.health = "healthy"
  /\ app.at = "shutdown" => app.force \/ app.health = "healthy"
  /\ app.at \in {"kill", "wait"} =>
       app.force \/ app.health \in {"healthy", "rejected"} \/ sessions = {}

SupervisorInv ==
  SupervisorTypes /\ OneLives /\ FilesAreOwn /\ PredecessorGone /\ SessionsLive
  /\ EndedForReason

\* Before the first daemon there is nothing to be found.
LEMMA InitSupervisorInv == SupervisorInit => SupervisorInv
<1> SUFFICES ASSUME SupervisorInit PROVE SupervisorInv OBVIOUS
<1>1. SupervisorTypes BY SupervisorAssumption DEF SupervisorInit, SupervisorTypes, AppStates, ProcStates, NoApp
<1>2. (\A d \in Daemons : ~Alive(d) /\ proc[d] = "none") /\ app.at = "none" /\ sessions = {}
      BY DEF SupervisorInit, Alive, NoApp
<1> QED BY <1>1, <1>2 DEF SupervisorInv, OneLives, FilesAreOwn, PredecessorGone, SessionsLive,
                        EndedForReason

\* No daemon becomes alive that was not.
LEMMA FewerLive ==
  ASSUME SupervisorInv, NEW P \in [Daemons -> ProcStates], proc' = P,
         \A d \in Daemons : P[d] \notin {"none", "dead"} => Alive(d)
  PROVE  /\ \A d \in Daemons : Alive(d)' => Alive(d)
         /\ OneLives'
<1>1. \A d \in Daemons : Alive(d)' => Alive(d) BY DEF Alive
<1> QED BY <1>1 DEF SupervisorInv, OneLives

\* A daemon process moves, the app does not.
LEMMA DaemonKeepsInv ==
  ASSUME SupervisorInv, NEW d \in Daemons,
         \/ DaemonBinds(d) \/ DaemonServes(d) \/ DaemonDies(d) \/ DaemonFlushed(d)
         \/ DaemonCleansUp(d) \/ DaemonWedges(d)
  PROVE  SupervisorInv'
<1> USE DEF SupervisorInv
<1>0. SupervisorTypes /\ d \in 0..MaxDaemons /\ 0 \in 0..MaxDaemons
      BY SupervisorAssumption DEF Daemons
<1>1. CASE DaemonWedges(d)
  <2>1. UNCHANGED <<proc, sessions, sock, token, pidf, app>> BY <1>1 DEF DaemonWedges, files
  <2> QED BY <2>1 DEF SupervisorTypes, AppStates, OneLives, Alive, FilesAreOwn, PredecessorGone, SessionsLive,
                      EndedForReason
<1>2. CASE ~DaemonWedges(d)
  <2>1. PICK to \in ProcStates : proc' = [proc EXCEPT ![d] = to] /\ Alive(d) /\ to # "none"
        BY <1>2 DEF DaemonBinds, DaemonServes, DaemonDies, DaemonFlushed, DaemonCleansUp, Move,
                    ProcStates, Alive
  <2>2. /\ proc' \in [Daemons -> ProcStates] /\ proc'[d] = to
        /\ \A e \in Daemons : e # d => proc'[e] = proc[e] /\ ~Alive(e) /\ proc[e] \in {"none", "dead"}
    <3>1. \A e \in Daemons : e # d => ~Alive(e) BY <2>1 DEF OneLives
    <3>2. \A e \in Daemons : e # d => proc[e] \in {"none", "dead"} BY <3>1 DEF Alive
    <3> QED BY <1>0, <2>1, <3>1, <3>2 DEF SupervisorTypes, AppStates
  <2>3. app' = app BY <1>2 DEF DaemonBinds, DaemonServes, DaemonDies, DaemonFlushed, DaemonCleansUp
  <2>4. SupervisorTypes'
    <3>1. /\ sessions' \subseteq sessions
          /\ sock' \in {sock, d, 0} /\ token' \in {token, d, 0} /\ pidf' \in {pidf, d, 0}
          BY <1>2 DEF DaemonBinds, DaemonServes, DaemonDies, DaemonFlushed, DaemonCleansUp, files
    <3> QED BY <1>0, <2>2, <2>3, <3>1 DEF SupervisorTypes, AppStates
  <2>5. OneLives' /\ \A e \in Daemons : Alive(e)' => Alive(e)
        BY <2>1, <2>2, FewerLive DEF Alive
  <2>6. PredecessorGone' BY <2>3, <2>5 DEF PredecessorGone
  <2>7. sessions' \subseteq sessions /\ (to \notin {"serving", "flushing"} => d \notin sessions')
    <3>1. CASE DaemonBinds(d) BY <2>2, <3>1 DEF DaemonBinds, Move, SessionsLive
    <3>2. CASE DaemonServes(d) BY <1>0, <2>2, <3>2 DEF DaemonServes, Move, SupervisorTypes, AppStates
    <3>3. CASE DaemonDies(d) \/ DaemonFlushed(d) BY <3>3 DEF DaemonDies, DaemonFlushed
    <3>4. CASE DaemonCleansUp(d) BY <3>4 DEF DaemonCleansUp, Move, SessionsLive
    <3> QED BY <1>2, <3>1, <3>2, <3>3, <3>4
  <2>8. SessionsLive' /\ EndedForReason'
    <3>1. sessions = {} => sessions' = {} BY <2>7
    <3>2. ASSUME NEW e \in sessions' PROVE proc'[e] \in {"serving", "flushing"}
          BY <1>0, <2>2, <2>7 DEF SessionsLive, SupervisorTypes, AppStates
    <3> QED BY <2>3, <3>1, <3>2 DEF SessionsLive, EndedForReason
  <2>9. /\ to \in {"booting", "bound"} => app.at = "ready"
        /\ to \in {"bound", "serving", "flushing", "unsock"} => sock' = d
        /\ to \in {"serving", "flushing", "unsock", "untoken"} => token' = d
        /\ to \in {"serving", "flushing", "unsock", "untoken", "unpid"} => pidf' = d
    <3>1. CASE DaemonBinds(d) BY <1>0, <2>2, <3>1 DEF DaemonBinds, Move, FilesAreOwn, SupervisorTypes, AppStates
    <3>2. CASE DaemonServes(d) BY <1>0, <2>2, <3>2 DEF DaemonServes, Move, FilesAreOwn, SupervisorTypes, AppStates
    <3>3. CASE DaemonDies(d) BY <1>0, <2>2, <3>3 DEF DaemonDies, SupervisorTypes, AppStates
    <3>4. CASE DaemonFlushed(d)
          BY <1>0, <2>2, <3>4 DEF DaemonFlushed, Move, FilesAreOwn, SupervisorTypes, AppStates, files
    <3>5. CASE DaemonCleansUp(d)
          BY <1>0, <2>2, <3>5 DEF DaemonCleansUp, Move, FilesAreOwn, SupervisorTypes, AppStates
    <3> QED BY <1>2, <3>1, <3>2, <3>3, <3>4, <3>5
  <2>10. FilesAreOwn' BY <2>2, <2>3, <2>9 DEF FilesAreOwn
  <2> QED BY <2>4, <2>5, <2>6, <2>8, <2>10
<1> QED BY <1>1, <1>2

\* The app moves, no process and no file does.
LEMMA AppAloneKeepsInv ==
  ASSUME SupervisorInv, UNCHANGED <<proc, sessions, sock, token, pidf>>, SupervisorTypes',
         app.at = "ready" => app'.at = "ready",
         PredecessorGone', SessionsLive', EndedForReason'
  PROVE  SupervisorInv'
<1>1. OneLives' BY DEF SupervisorInv, OneLives, Alive
<1>2. FilesAreOwn' BY DEF SupervisorInv, FilesAreOwn
<1> QED BY <1>1, <1>2 DEF SupervisorInv

\* A running daemon with sessions is the one that answers on the socket.
LEMMA SessionsAtSocket ==
  ASSUME SupervisorInv, NEW d \in sessions
  PROVE  d = sock /\ Connects /\ pidf = d /\ Alive(d)
<1>1. d \in Daemons /\ proc[d] \in {"serving", "flushing"}
      BY DEF SupervisorInv, SupervisorTypes, AppStates, SessionsLive
<1>2. sock = d /\ pidf = d BY <1>1 DEF SupervisorInv, FilesAreOwn
<1> QED BY <1>1, <1>2 DEF Connects, Listening, Alive, Daemons

\* The app looks for a daemon, and keeps it or gives it up.
LEMMA AppLooksKeepsInv ==
  ASSUME SupervisorInv,
         \/ \E ver \in Versions : Launch(ver)
         \/ RestartDaemon \/ AppQuits \/ ProbeHealth \/ CheckStale \/ CountSessions
         \/ UNCHANGED supervisorVars
  PROVE  SupervisorInv'
<1> USE DEF SupervisorInv
<1>1. UNCHANGED <<proc, sessions, sock, token, pidf>>
      BY DEF Launch, RestartDaemon, AppQuits, ProbeHealth, CheckStale, CountSessions,
             supervisorVars, files
<1>2. ASSUME SupervisorTypes', app'.at \in {"none", "probe", "stale", "count", "using"},
             app.at # "ready", app'.at = "stale" => app'.health = "healthy"
      PROVE  SupervisorInv'
  <2>1. PredecessorGone' /\ SessionsLive' /\ EndedForReason'
        BY <1>1, <1>2 DEF PredecessorGone, SessionsLive, EndedForReason
  <2> QED BY <1>1, <1>2, <2>1, AppAloneKeepsInv
<1>3. ASSUME NEW ver \in Versions, Launch(ver) PROVE SupervisorInv'
  <2>1. app.at # "ready" /\ app'.at = "probe" BY <1>3 DEF Launch, NoApp
  <2>2. SupervisorTypes'
    <3>1. app' = [at |-> "probe", ver |-> ver, health |-> "none", force |-> FALSE,
                  child |-> 0, on |-> 0]
          BY <1>3 DEF Launch, NoApp
    <3> QED BY <1>1, <3>1, SupervisorAssumption DEF SupervisorTypes, AppStates
  <2> QED BY <1>2, <2>1, <2>2
<1>4. CASE RestartDaemon
  <2>1. app.at = "using" /\ app'.at = "shutdown" /\ app'.force = TRUE
        BY <1>4 DEF RestartDaemon, NoApp
  <2>2. SupervisorTypes'
    <3>1. app' = [at |-> "shutdown", ver |-> app.ver, health |-> "none", force |-> TRUE,
                  child |-> 0, on |-> 0]
          BY <1>4 DEF RestartDaemon, NoApp
    <3> QED BY <1>1, <3>1, SupervisorAssumption DEF SupervisorTypes, AppStates
  <2>3. PredecessorGone' /\ SessionsLive' /\ EndedForReason'
        BY <1>1, <2>1 DEF PredecessorGone, SessionsLive, EndedForReason
  <2> QED BY <1>1, <2>1, <2>2, <2>3, AppAloneKeepsInv
<1>5. CASE AppQuits
  <2>1. app.at # "ready" /\ app'.at = "none" BY <1>5 DEF AppQuits, NoApp
  <2>2. SupervisorTypes' BY <1>1, <1>5, SupervisorAssumption DEF AppQuits, SupervisorTypes, AppStates, NoApp
  <2> QED BY <1>2, <2>1, <2>2
<1>6. CASE ProbeHealth
  <2>1. PICK h \in {"unreachable", "rejected", "healthy", "broken"} :
          app' = [app EXCEPT !.health = h, !.at = IF h = "healthy" THEN "stale" ELSE "count"]
        BY <1>6 DEF ProbeHealth
  <2>2. /\ SupervisorTypes' /\ app'.at \in {"stale", "count"}
        /\ app'.at = "stale" => app'.health = "healthy"
        BY <1>1, <2>1 DEF SupervisorTypes, AppStates
  <2>3. app.at # "ready" BY <1>6 DEF ProbeHealth
  <2> QED BY <1>2, <2>2, <2>3
<1>7. CASE CheckStale
  <2>1. CASE app' = [app EXCEPT !.at = "using", !.on = sock]
    <3>1. SupervisorTypes' /\ app'.at = "using" BY <1>1, <2>1 DEF SupervisorTypes, AppStates
    <3> QED BY <1>2, <1>7, <3>1 DEF CheckStale
  <2>2. CASE app' = [app EXCEPT !.at = "shutdown"]
    <3>1. SupervisorTypes' /\ app'.at = "shutdown" /\ app'.health = app.health /\ app.at = "stale"
          BY <1>1, <1>7, <2>2 DEF CheckStale, SupervisorTypes, AppStates
    <3>2. app.health = "healthy" BY <3>1 DEF EndedForReason
    <3>3. PredecessorGone' /\ SessionsLive' /\ EndedForReason'
          BY <1>1, <3>1, <3>2 DEF PredecessorGone, SessionsLive, EndedForReason
    <3> QED BY <1>1, <3>1, <3>3, AppAloneKeepsInv
  <2> QED BY <1>7, <2>1, <2>2 DEF CheckStale
<1>8. CASE CountSessions
  <2>1. CASE app' = [app EXCEPT !.at = "using", !.on = sock]
    <3>1. SupervisorTypes' /\ app'.at = "using" BY <1>1, <2>1 DEF SupervisorTypes, AppStates
    <3> QED BY <1>2, <1>8, <3>1 DEF CountSessions
  <2>2. CASE app' = [app EXCEPT !.at = "kill"]
    <3>1. /\ SupervisorTypes' /\ app'.at = "kill" /\ app'.health = app.health
          /\ app'.force = app.force /\ app.at = "count"
          BY <1>1, <1>8, <2>2 DEF CountSessions, SupervisorTypes, AppStates
    <3>2. app.health = "rejected" \/ ~Connects \/ sock \notin sessions
      <4>1. [app EXCEPT !.at = "using", !.on = sock].at = "using" BY DEF SupervisorTypes, AppStates
      <4> QED BY <1>8, <3>1, <4>1 DEF CountSessions
    <3>3. app.health = "rejected" \/ sessions = {} BY <3>2, SessionsAtSocket
    <3>4. PredecessorGone' /\ SessionsLive' /\ EndedForReason'
          BY <1>1, <3>1, <3>3 DEF PredecessorGone, SessionsLive, EndedForReason
    <3> QED BY <1>1, <3>1, <3>4, AppAloneKeepsInv
  <2> QED BY <1>8, <2>1, <2>2 DEF CountSessions
<1>9. CASE UNCHANGED supervisorVars
  <2>1. app' = app BY <1>9 DEF supervisorVars
  <2>2. SupervisorTypes' BY <1>1, <2>1 DEF SupervisorTypes, AppStates
  <2>3. PredecessorGone' BY <1>1, <2>1 DEF PredecessorGone, Alive
  <2>4. SessionsLive' /\ EndedForReason' BY <1>1, <2>1 DEF SessionsLive, EndedForReason
  <2> QED BY <1>1, <2>1, <2>2, <2>3, <2>4, AppAloneKeepsInv
<1> QED BY <1>3, <1>4, <1>5, <1>6, <1>7, <1>8, <1>9

\* The app ends the daemon it gave up, and starts the next.
LEMMA AppReplacesKeepsInv ==
  ASSUME SupervisorInv,
         \/ RequestShutdown \/ KillStaleTerm \/ KillStaleKill \/ KillStaleUnlink
         \/ SpawnDaemon \/ BinaryRefused \/ Ready \/ NotReady \/ UseDaemon
  PROVE  SupervisorInv'
<1> USE SupervisorAssumption DEF SupervisorInv
<1>0. SupervisorTypes /\ Daemons \subseteq 0..MaxDaemons /\ 0 \notin Daemons /\ 0 \in 0..MaxDaemons
      BY DEF Daemons
<1>1. CASE RequestShutdown
  <2>1. /\ app' = [app EXCEPT !.at = "kill"] /\ UNCHANGED <<sock, token, pidf>>
        /\ app.at = "shutdown"
        BY <1>1 DEF RequestShutdown, Goto, files
  <2>2. /\ app'.at = "kill" /\ app'.force = app.force /\ app'.health = app.health
        /\ app' \in AppStates
        BY <1>0, <2>1 DEF SupervisorTypes, AppStates
  <2>3. CASE UNCHANGED <<proc, sessions>>
    <3>1. SupervisorTypes' BY <1>0, <2>1, <2>2, <2>3 DEF SupervisorTypes, AppStates
    <3>2. PredecessorGone' /\ SessionsLive' /\ EndedForReason'
          BY <2>1, <2>2, <2>3 DEF PredecessorGone, SessionsLive, EndedForReason
    <3> QED BY <2>1, <2>3, <3>1, <3>2, AppAloneKeepsInv
  <2>4. CASE /\ Answers /\ token = sock /\ proc[sock] = "serving"
             /\ proc' = [proc EXCEPT ![sock] = "unsock"] /\ sessions' = sessions \ {sock}
    <3>1. sock \in Daemons BY <1>0, <2>4 DEF Answers, Connects, SupervisorTypes, AppStates, Daemons
    <3>2. /\ proc' \in [Daemons -> ProcStates] /\ proc'[sock] = "unsock" /\ Alive(sock)
          /\ \A e \in Daemons : e # sock => proc'[e] = proc[e]
          BY <1>0, <2>4, <3>1 DEF SupervisorTypes, AppStates, ProcStates, Alive
    <3>3. SupervisorTypes' BY <1>0, <2>1, <2>2, <2>4, <3>2 DEF SupervisorTypes, AppStates
    <3>4. OneLives' BY <3>2, FewerLive DEF Alive
    <3>5. FilesAreOwn'
      <4>1. sock = pidf BY <2>4, <3>1 DEF FilesAreOwn
      <4> QED BY <2>1, <2>2, <2>4, <3>1, <3>2, <4>1 DEF FilesAreOwn
    <3>6. PredecessorGone' BY <2>2 DEF PredecessorGone
    <3>7. SessionsLive' BY <1>0, <2>2, <2>4, <3>2 DEF SessionsLive, SupervisorTypes, AppStates
    <3>8. EndedForReason' BY <2>1, <2>2 DEF EndedForReason
    <3> QED BY <3>3, <3>4, <3>5, <3>6, <3>7, <3>8
  <2> QED BY <1>1, <2>3, <2>4 DEF RequestShutdown
<1>2. CASE KillStaleTerm
  <2>1. app.at = "kill" /\ UNCHANGED <<sessions, sock, token, pidf>> BY <1>2 DEF KillStaleTerm, files
  <2>2. \A d \in Daemons : Alive(d) => d = pidf
    <3>1. ASSUME NEW d \in Daemons, Alive(d) PROVE d = pidf
      <4>1. proc[d] \in ProcStates \ {"none", "dead", "booting", "bound"}
            BY <1>0, <2>1, <3>1 DEF Alive, FilesAreOwn, SupervisorTypes, AppStates
      <4> QED BY <3>1, <4>1 DEF FilesAreOwn, ProcStates
    <3> QED BY <3>1
  <2>3. CASE IsDaemonProcess
    <3>1. /\ pidf \in Daemons /\ Alive(pidf) /\ app' = [app EXCEPT !.at = "wait", !.child = pidf]
          /\ proc[pidf] \notin {"booting", "bound"}
          /\ proc' = [proc EXCEPT ![pidf] = IF @ = "serving" THEN "flushing"
                                            ELSE IF @ \in {"booting", "bound"} THEN "dead" ELSE @]
          BY <1>2, <2>1, <2>3 DEF KillStaleTerm, IsDaemonProcess, Alive, FilesAreOwn
    <3>2. /\ proc' \in [Daemons -> ProcStates] /\ \A e \in Daemons : e # pidf => proc'[e] = proc[e]
          /\ proc'[pidf] = IF proc[pidf] = "serving" THEN "flushing" ELSE proc[pidf]
          BY <1>0, <3>1 DEF SupervisorTypes, AppStates, ProcStates
    <3>3. SupervisorTypes' /\ app'.at = "wait" /\ app'.child = pidf /\ app'.force = app.force
          /\ app'.health = app.health
          BY <1>0, <2>1, <3>1, <3>2 DEF SupervisorTypes, AppStates
    <3>4. OneLives' /\ \A e \in Daemons : Alive(e)' => Alive(e)
          BY <3>1, <3>2, FewerLive DEF Alive
    <3>5. FilesAreOwn' BY <2>1, <3>1, <3>2, <3>3 DEF FilesAreOwn
    <3>6. PredecessorGone' BY <2>2, <3>1, <3>3, <3>4 DEF PredecessorGone
    <3>7. SessionsLive' BY <1>0, <2>1, <3>2, <3>3 DEF SessionsLive, SupervisorTypes, AppStates
    <3>8. EndedForReason' BY <2>1, <3>3 DEF EndedForReason
    <3> QED BY <3>3, <3>4, <3>5, <3>6, <3>7, <3>8
  <2>4. CASE ~IsDaemonProcess
    <3>1. app' = [app EXCEPT !.at = "unlink", !.child = 0] /\ proc' = proc
          BY <1>2, <2>4 DEF KillStaleTerm
    <3>2. \A d \in Daemons : ~Alive(d) BY <2>2, <2>4 DEF IsDaemonProcess
    <3>3. SupervisorTypes' /\ app'.at = "unlink" BY <1>0, <2>1, <3>1 DEF SupervisorTypes, AppStates
    <3>4. PredecessorGone' BY <3>1, <3>2, <3>3 DEF PredecessorGone, Alive
    <3>5. SessionsLive' /\ EndedForReason' BY <2>1, <3>1, <3>3 DEF SessionsLive, EndedForReason
    <3> QED BY <2>1, <3>1, <3>3, <3>4, <3>5, AppAloneKeepsInv
  <2> QED BY <2>3, <2>4
<1>3. CASE KillStaleKill
  <2>1. /\ app.at = "wait" /\ app' = [app EXCEPT !.at = "unlink"] /\ UNCHANGED <<sock, token, pidf>>
        /\ app.child \in Daemons
        BY <1>3 DEF KillStaleKill, Goto, files, PredecessorGone
  <2>2. /\ proc' \in [Daemons -> ProcStates] /\ sessions' \subseteq sessions
        /\ \A e \in Daemons : proc'[e] \in {"none", "dead"}
    <3>1. \A e \in Daemons : e # app.child => proc[e] \in {"none", "dead"}
          BY <2>1 DEF PredecessorGone, Alive
    <3>2. CASE ~Alive(app.child) /\ UNCHANGED <<proc, sessions>>
          BY <1>0, <2>1, <3>1, <3>2 DEF SupervisorTypes, AppStates, Alive
    <3>3. CASE proc' = [proc EXCEPT ![app.child] = "dead"] /\ sessions' = sessions \ {app.child}
          BY <1>0, <2>1, <3>1, <3>3 DEF SupervisorTypes, AppStates, ProcStates
    <3> QED BY <1>3, <3>2, <3>3 DEF KillStaleKill
  <2>3. SupervisorTypes' /\ app'.at = "unlink" BY <1>0, <2>1, <2>2 DEF SupervisorTypes, AppStates
  <2>4. \A e \in Daemons : ~Alive(e)' BY <2>2 DEF Alive
  <2>5. sessions' = {}
    <3>1. \A e \in sessions : e = app.child BY <1>0, <2>1, SessionsAtSocket DEF PredecessorGone, SupervisorTypes, AppStates
    <3>2. ~Alive(app.child) => app.child \notin sessions BY SessionsAtSocket
    <3> QED BY <1>3, <3>1, <3>2 DEF KillStaleKill
  <2> QED BY <2>2, <2>3, <2>4, <2>5 DEF OneLives, FilesAreOwn, PredecessorGone, SessionsLive,
                                       EndedForReason
<1>4. CASE KillStaleUnlink \/ BinaryRefused
  <2>1. /\ app.at \in {"unlink", "spawn"} /\ UNCHANGED <<proc, sessions>>
        /\ app' = [app EXCEPT !.at = "spawn", !.child = 0] \/ app' = [app EXCEPT !.at = "failed"]
        BY <1>4 DEF KillStaleUnlink, BinaryRefused, CanSpawn, Goto
  <2>2. /\ sock' \in {sock, 0} /\ pidf' \in {pidf, 0}
        /\ (token' = token \/ (token' = NextDaemon /\ \E d \in Daemons : proc[d] = "none"))
        BY <1>4 DEF KillStaleUnlink, BinaryRefused, CanSpawn
  <2>3. token' \in 0..MaxDaemons BY <1>0, <2>2 DEF SupervisorTypes, AppStates, NextDaemon
  <2>4. SupervisorTypes' /\ app'.at \in {"spawn", "failed"}
    <3>1. CASE app' = [app EXCEPT !.at = "spawn", !.child = 0]
      <4>1. app' \in AppStates /\ app'.at = "spawn" BY <1>0, <3>1 DEF SupervisorTypes, AppStates
      <4> QED BY <1>0, <2>1, <2>2, <2>3, <4>1 DEF SupervisorTypes, AppStates
    <3>2. CASE app' = [app EXCEPT !.at = "failed"]
      <4>1. app' \in AppStates /\ app'.at = "failed" BY <1>0, <3>2 DEF SupervisorTypes, AppStates
      <4> QED BY <1>0, <2>1, <2>2, <2>3, <4>1 DEF SupervisorTypes, AppStates
    <3> QED BY <2>1, <3>1, <3>2
  <2>5. \A d \in Daemons : ~Alive(d) /\ ~Alive(d)' /\ proc'[d] \in {"none", "dead"}
        BY <2>1 DEF PredecessorGone, Alive
  <2>6. sessions' = {} BY <1>0, <2>1, <2>5, SessionsAtSocket DEF SupervisorTypes, AppStates
  <2> QED BY <2>4, <2>5, <2>6 DEF OneLives, FilesAreOwn, PredecessorGone, SessionsLive,
                                 EndedForReason
<1>5. CASE SpawnDaemon
  <2> DEFINE d == NextDaemon
  <2>1. d \in Daemons /\ proc[d] = "none" BY <1>5 DEF SpawnDaemon, CanSpawn, NextDaemon
  <2>2. /\ app.at = "spawn" /\ token' = d /\ proc' = [proc EXCEPT ![d] = "booting"]
        /\ app' = [app EXCEPT !.at = "ready", !.child = d] /\ UNCHANGED <<sessions, sock, pidf>>
        BY <1>5 DEF SpawnDaemon, CanSpawn
  <2> HIDE DEF d
  <2>3. \A e \in Daemons : ~Alive(e) /\ proc[e] \in {"none", "dead"}
        BY <2>2 DEF PredecessorGone, Alive
  <2>4. /\ proc' \in [Daemons -> ProcStates] /\ proc'[d] = "booting"
        /\ \A e \in Daemons : e # d => proc'[e] \in {"none", "dead"}
        BY <1>0, <2>1, <2>2, <2>3 DEF SupervisorTypes, AppStates, ProcStates
  <2>5. SupervisorTypes' /\ app'.at = "ready" /\ app'.child = d
        BY <1>0, <2>1, <2>2, <2>4 DEF SupervisorTypes, AppStates
  <2>6. sessions' = {} BY <1>0, <2>2, <2>3, SessionsAtSocket DEF SupervisorTypes, AppStates
  <2>7. \A e \in Daemons : Alive(e)' => e = d BY <2>4 DEF Alive
  <2> QED BY <2>1, <2>4, <2>5, <2>6, <2>7 DEF OneLives, FilesAreOwn, PredecessorGone, SessionsLive,
                                 EndedForReason
<1>6. CASE Ready
  <2>1. /\ app.at = "ready" /\ Answers /\ sock = app.child /\ app.child \in Daemons
        /\ app' = [app EXCEPT !.at = "using", !.on = app.child] /\ pidf' = app.child
        /\ UNCHANGED <<proc, sessions, sock, token>>
        BY <1>6 DEF Ready, PredecessorGone
  <2>2. SupervisorTypes' /\ app'.at = "using" BY <1>0, <2>1 DEF SupervisorTypes, AppStates
  <2>3. proc[app.child] \in {"serving", "flushing"} BY <2>1 DEF Answers
  <2>4. \A e \in Daemons : e # app.child => proc[e] \in {"none", "dead"}
        BY <2>1 DEF PredecessorGone, Alive
  <2>5. FilesAreOwn' BY <2>1, <2>2, <2>3, <2>4 DEF FilesAreOwn
  <2>6. OneLives' BY <2>1 DEF OneLives, Alive
  <2>7. SessionsLive' BY <2>1, <2>2 DEF SessionsLive
  <2> QED BY <2>2, <2>5, <2>6, <2>7 DEF PredecessorGone, EndedForReason
<1>7. CASE NotReady
  <2>1. /\ app.at = "ready" /\ app' = [app EXCEPT !.at = "failed"] /\ app.child \in Daemons
        /\ proc' = [proc EXCEPT ![app.child] = "dead"]
        /\ UNCHANGED <<sessions, sock, token, pidf>> /\ sessions = {}
        BY <1>7 DEF NotReady, Goto, files, PredecessorGone, SessionsLive
  <2>2. /\ proc' \in [Daemons -> ProcStates] /\ \A e \in Daemons : proc'[e] \in {"none", "dead"}
        BY <1>0, <2>1 DEF SupervisorTypes, AppStates, ProcStates, PredecessorGone, Alive
  <2>3. SupervisorTypes' /\ app'.at = "failed" BY <1>0, <2>1, <2>2 DEF SupervisorTypes, AppStates
  <2>4. \A e \in Daemons : ~Alive(e)' BY <2>2 DEF Alive
  <2> QED BY <2>1, <2>2, <2>3, <2>4 DEF OneLives, FilesAreOwn, PredecessorGone, SessionsLive,
                                       EndedForReason
<1>8. CASE UseDaemon
  <2>1. /\ app.at = "using" /\ proc[sock] = "serving" /\ sock \in Daemons
        /\ UNCHANGED <<proc, sock, token, pidf, app>> /\ sessions' \subseteq sessions \cup {sock}
        BY <1>0, <1>8 DEF UseDaemon, Answers, Connects, files, SupervisorTypes, AppStates, Daemons
  <2>2. SupervisorTypes' BY <1>0, <2>1 DEF SupervisorTypes, AppStates
  <2>3. SessionsLive' BY <2>1 DEF SessionsLive
  <2> QED BY <2>1, <2>2, <2>3 DEF OneLives, Alive, FilesAreOwn, PredecessorGone, EndedForReason
<1> QED BY <1>1, <1>2, <1>3, <1>4, <1>5, <1>6, <1>7, <1>8

\* Every step of the app and of the daemons keeps the invariant.
LEMMA StepKeepsSupervisorInv ==
  ASSUME SupervisorInv, [SupervisorNext]_supervisorVars PROVE SupervisorInv'
BY DaemonKeepsInv, AppLooksKeepsInv, AppReplacesKeepsInv DEF SupervisorNext

\* UsedIsFound: a daemon an app uses, and that serves, owns the socket and the token, so
\* the next app finds it.  No predecessor is left that could remove them by name: a
\* daemon is started only when the last one is gone.
THEOREM UsedIsFoundTheorem == SupervisorSpec => []UsedIsFound
<1>1. SupervisorInv => UsedIsFound
  <2> SUFFICES ASSUME SupervisorInv, app.on # 0, proc[app.on] = "serving"
               PROVE  sock = app.on /\ token = app.on
      BY DEF UsedIsFound
  <2>1. app.on \in Daemons BY SupervisorAssumption DEF SupervisorInv, SupervisorTypes, AppStates, Daemons
  <2> QED BY <2>1 DEF SupervisorInv, FilesAreOwn
<1> QED BY InitSupervisorInv, StepKeepsSupervisorInv, <1>1, PTL DEF SupervisorSpec

\* With the invariant, a starting app ends sessions only where it may.
LEMMA StepKeepsSessions ==
  ASSUME SupervisorInv, [SupervisorNext]_supervisorVars PROVE KeepsSessions
<1> SUFFICES ASSUME NEW d \in sessions, d \notin sessions', app'.at # app.at, app.at # "using"
             PROVE  app.force \/ app.health \in {"healthy", "rejected"}
    BY DEF KeepsSessions
<1>1. CASE RequestShutdown BY <1>1 DEF RequestShutdown, SupervisorInv, EndedForReason
<1>2. CASE KillStaleKill BY <1>2 DEF KillStaleKill, SupervisorInv, EndedForReason
<1>3. ASSUME NEW e \in Daemons,
             \/ DaemonBinds(e) \/ DaemonServes(e) \/ DaemonDies(e) \/ DaemonFlushed(e)
             \/ DaemonCleansUp(e) \/ DaemonWedges(e)
      PROVE  FALSE
      BY <1>3 DEF DaemonBinds, DaemonServes, DaemonDies, DaemonFlushed, DaemonCleansUp, DaemonWedges
<1>4. CASE \/ \E ver \in Versions : Launch(ver)
           \/ RestartDaemon \/ AppQuits \/ ProbeHealth \/ CheckStale \/ CountSessions
           \/ KillStaleTerm \/ KillStaleUnlink \/ SpawnDaemon \/ BinaryRefused \/ Ready \/ NotReady
           \/ UNCHANGED supervisorVars
      BY <1>4 DEF Launch, RestartDaemon, AppQuits, ProbeHealth, CheckStale, CountSessions,
                  KillStaleTerm, KillStaleUnlink, SpawnDaemon, BinaryRefused, Ready, NotReady,
                  supervisorVars
<1>5. CASE UseDaemon BY <1>5 DEF UseDaemon
<1> QED BY <1>1, <1>2, <1>3, <1>4, <1>5 DEF SupervisorNext

\* SessionsKept: a starting app ends a daemon that has live sessions only when it was
\* asked to, when the daemon is of another version, or when it refused the hello.
THEOREM SessionsKeptTheorem == SupervisorSpec => SessionsKept
<1>1. SupervisorInv /\ [SupervisorNext]_supervisorVars => [KeepsSessions]_supervisorVars
      BY StepKeepsSessions
<1> QED BY InitSupervisorInv, StepKeepsSupervisorInv, <1>1, PTL DEF SupervisorSpec, SessionsKept

-----------------------------------------------------------------------------
(* PaneHost: from the shell to the screen                                  *)

PaneFrames == [kind : {"data", "exit"}, seq : Nat, data : Seq(Nat)]
FlowTypes ==
  /\ made \in Nat /\ fed \in Nat /\ ingest \in Nat /\ sent \in Nat /\ snap \in Nat \cup {-1}
  /\ pend \in Seq(Nat) /\ batch \in Seq(Nat) /\ stream \in Seq(PaneFrames)
  /\ gate \in [closed : BOOLEAN, frames : Seq(PaneFrames), exited : BOOLEAN]
  /\ reply \in [kind : {"none", "new", "warm"}, upto : Nat, seq : Nat]
  /\ painted \in Seq(Seq(Nat)) /\ subscribed \in BOOLEAN /\ cut \in BOOLEAN

\* Where the threads of the session and the call are.
FlowPhases ==
  /\ flusher = "done" => pend = <<>> /\ reader \in {"closing", "exited"}
  /\ flusher # "busy" => batch = <<>>
  /\ reader = "exited" => flusher = "done"
  /\ shell = "none" => made = 0
  /\ pane = "none" => gate.closed /\ gate.frames = <<>> /\ snap = -1 /\ reply = NoAnswer
  /\ pane \in {"asked", "answered"} => subscribed /\ gate.closed
  /\ pane = "open" => ~gate.closed
  /\ pane \in {"none", "failed", "closed"} => ~subscribed
  /\ pane = "answered" => reply.kind # "none" /\ painted = <<[i \in 1..reply.upto |-> i]>>
  /\ reply.kind = "none" => reply = NoAnswer
  /\ reply.seq <= reply.upto /\ (reply.kind = "new" => reply.upto = 0)

\* The chunks in a frame are those its sequence number says.
Start(f) == f.seq - Len(f.data)
Numbered(f) ==
  /\ Start(f) >= 0 /\ (f.kind = "exit" => f.data = <<>>)
  /\ \A k \in 1..Len(f.data) : f.data[k] = Start(f) + k

\* The frames of s hold the chunks after the a-th up to the b-th, in order.
Spans(s, a, b) ==
  /\ a <= b
  /\ \A i \in 1..Len(s) : Numbered(s[i]) /\ a <= Start(s[i]) /\ s[i].seq <= b
  /\ \A i, j \in 1..Len(s) : i < j => s[i].seq <= Start(s[j])
  /\ \A c \in (a + 1)..b : \E i \in 1..Len(s) : Start(s[i]) < c /\ c <= s[i].seq

\* From the reader to the stream, as long as the coalescer dropped nothing.
FlowCounts ==
  /\ fed = made /\ ingest = (IF reader = "fed" THEN made - 1 ELSE made) /\ snap <= fed
  /\ ~cut => /\ sent + Len(batch) + Len(pend) = (IF reader \in {"fed", "counted"} THEN made - 1 ELSE made)
             /\ \A k \in 1..Len(batch) : batch[k] = sent + k
             /\ \A k \in 1..Len(pend) : pend[k] = sent + Len(batch) + k

\* p has no chunk without its predecessor before it.
ShownIn(p, c) == \E j \in 1..Len(p) : \E m \in 1..Len(p[j]) : p[j][m] = c
EarlierIn(p, c, i, k) ==
  \/ \E m \in 1..(k - 1) : p[i][m] = c
  \/ \E j \in 1..(i - 1) : \E m \in 1..Len(p[j]) : p[j][m] = c
Gapless(p) ==
  \A i \in 1..Len(p) : \A k \in 1..Len(p[i]) : p[i][k] = 1 \/ EarlierIn(p, p[i][k] - 1, i, k)

\* The stream continues at the n-th chunk, the held frames at the g-th, which the
\* snapshot has.
FlowAt(n, g) ==
  /\ Spans(stream, n, sent)
  /\ pane \in {"asked", "answered"} =>
       /\ Spans(gate.frames, g, n)
       /\ snap # -1 => g <= snap
       /\ reply.kind # "none" => g <= reply.seq
  /\ pane = "open" => Gapless(painted) /\ (subscribed => \A c \in 1..n : ShownIn(painted, c))

Flow == ~cut => \E n, g \in Nat : FlowAt(n, g)

FlowInv == FlowTypes /\ FlowPhases /\ FlowCounts /\ Flow

\* Frames have a length, and their start is a number.
LEMMA FrameFacts ==
    ASSUME NEW f \in PaneFrames, Numbered(f)
    PROVE  /\ f.data \in Seq(Nat) /\ Len(f.data) \in Nat /\ f.seq \in Nat
           /\ Start(f) \in Nat /\ Start(f) <= f.seq /\ Len(f.data) = f.seq - Start(f)
<1>1. f.data \in Seq(Nat) /\ f.seq \in Nat
    BY DEF PaneFrames
<1>2. Len(f.data) \in Nat
    BY <1>1
<1> QED
    BY <1>1, <1>2 DEF Numbered, Start

\* No frame spans nothing.
LEMMA SpansNothing == ASSUME NEW a \in Nat PROVE Spans(<<>>, a, a)
BY DEF Spans

\* A frame that starts where the others end goes behind them.
LEMMA SpansAppend ==
    ASSUME NEW s \in Seq(PaneFrames), NEW f \in PaneFrames, NEW a \in Nat, NEW b \in Nat,
           Spans(s, a, b), Numbered(f), Start(f) = b
    PROVE  Spans(Append(s, f), a, f.seq)
<1> DEFINE u == Append(s, f)
<1>1. /\ Len(s) \in Nat /\ Len(u) = Len(s) + 1 /\ u[Len(s) + 1] = f
      /\ \A i \in 1 .. Len(s) : u[i] = s[i]
    OBVIOUS
<1>2. \A i \in 1..Len(u) : i \in 1..Len(s) \/ i = Len(s) + 1
    BY <1>1
<1>3. \A i \in 1..Len(s) : s[i] \in PaneFrames
    OBVIOUS
<1>4. \A i \in 1..Len(s) : s[i].seq \in Nat /\ s[i].seq <= b
    BY <1>3 DEF Spans, PaneFrames
<1>5. b <= f.seq /\ f.seq \in Nat
    BY FrameFacts
<1> HIDE DEF u
<1>6. a <= f.seq
    BY <1>5 DEF Spans
<1>7. \A i \in 1..Len(u) : Numbered(u[i]) /\ a <= Start(u[i]) /\ u[i].seq <= f.seq
    BY <1>1, <1>2, <1>4, <1>5 DEF Spans
<1>8. \A i, j \in 1..Len(u) : i < j => u[i].seq <= Start(u[j])
    BY <1>1, <1>2, <1>4 DEF Spans
<1>9. ASSUME NEW c \in (a + 1)..f.seq PROVE \E i \in 1..Len(u) : Start(u[i]) < c /\ c <= u[i].seq
  <2>1. CASE c <= b
    <3>1. PICK i \in 1..Len(s) : Start(s[i]) < c /\ c <= s[i].seq
        BY <2>1 DEF Spans
    <3> QED
        BY <1>1, <3>1
  <2>2. CASE c > b
      BY <1>1, <2>2
  <2> QED
      BY <2>1, <2>2
<1>10. Spans(u, a, f.seq)
    BY <1>6, <1>7, <1>8, <1>9 DEF Spans
<1> QED
    BY <1>10 DEF u

\* The first frame starts where all of them do, and the rest where it ends.
LEMMA SpansHead ==
    ASSUME NEW s \in Seq(PaneFrames), s # <<>>, NEW a \in Nat, NEW b \in Nat, Spans(s, a, b)
    PROVE  /\ Head(s) \in PaneFrames /\ Numbered(Head(s)) /\ Start(Head(s)) = a
           /\ Tail(s) \in Seq(PaneFrames) /\ Spans(Tail(s), Head(s).seq, b)
<1>1. /\ Len(s) \in Nat /\ Len(s) >= 1 /\ Head(s) = s[1]
      /\ Tail(s) \in Seq(PaneFrames) /\ Len(Tail(s)) = Len(s) - 1
      /\ \A i \in 1..Len(Tail(s)) : Tail(s)[i] = s[i + 1] /\ i + 1 \in 1..Len(s)
    BY EmptySeq, LenProperties, HeadTailProperties
<1>2. \A i \in 1..Len(s) : s[i] \in PaneFrames
    OBVIOUS
<1>3. \A i \in 1..Len(s) : /\ s[i].seq \in Nat /\ Start(s[i]) \in Nat /\ Start(s[i]) <= s[i].seq
                           /\ a <= Start(s[i]) /\ s[i].seq <= b
    BY <1>2, FrameFacts DEF Spans
<1> DEFINE e == s[1].seq
           t == Tail(s)
<1>4. 1 \in 1..Len(s)
    BY <1>1
<1>5. Start(s[1]) = a
  <2>1. CASE a = b
      BY <1>3, <1>4, <2>1
  <2>2. CASE a < b
    <3>1. PICK i \in 1..Len(s) : Start(s[i]) < a + 1 /\ a + 1 <= s[i].seq
        BY <2>2 DEF Spans
    <3>2. i = 1 \/ 1 < i
        OBVIOUS
    <3>3. 1 < i => s[1].seq <= Start(s[i])
        BY <1>4 DEF Spans
    <3> QED
        BY <1>3, <1>4, <3>1, <3>2, <3>3
  <2> QED
      BY <2>1, <2>2 DEF Spans
<1>6. e <= b /\ e \in Nat /\ a <= e
    BY <1>3, <1>4
<1>7. \A i \in 1..Len(t) : Numbered(t[i]) /\ e <= Start(t[i]) /\ t[i].seq <= b
  <2> SUFFICES ASSUME NEW i \in 1..Len(t) PROVE Numbered(t[i]) /\ e <= Start(t[i]) /\ t[i].seq <= b
      OBVIOUS
  <2>1. t[i] = s[i + 1] /\ i + 1 \in 1..Len(s) /\ 1 < i + 1
      BY <1>1
  <2> QED
      BY <1>4, <2>1 DEF Spans
<1>8. \A i, j \in 1..Len(t) : i < j => t[i].seq <= Start(t[j])
  <2> SUFFICES ASSUME NEW i \in 1..Len(t), NEW j \in 1..Len(t), i < j PROVE t[i].seq <= Start(t[j])
      OBVIOUS
  <2>1. t[i] = s[i + 1] /\ i + 1 \in 1..Len(s) /\ t[j] = s[j + 1] /\ j + 1 \in 1..Len(s) /\ i + 1 < j + 1
      BY <1>1
  <2> QED
      BY <2>1 DEF Spans
<1>9. ASSUME NEW c \in (e + 1)..b PROVE \E i \in 1..Len(t) : Start(t[i]) < c /\ c <= t[i].seq
  <2>1. PICK i \in 1..Len(s) : Start(s[i]) < c /\ c <= s[i].seq
      BY <1>6 DEF Spans
  <2>2. i # 1
      BY <1>6, <2>1
  <2>3. i - 1 \in 1..Len(t) /\ t[i - 1] = s[i]
      BY <1>1, <2>2
  <2> QED
      BY <2>1, <2>3
<1>10. Spans(t, e, b)
    BY <1>6, <1>7, <1>8, <1>9 DEF Spans
<1> QED
    BY <1>1, <1>2, <1>4, <1>5, <1>10 DEF Spans

\* What an earlier piece shows was shown earlier.
LEMMA EarlierPiece ==
    ASSUME NEW p, NEW c, NEW i, NEW k, \E j \in 1..(i - 1) : \E m \in 1..Len(p[j]) : p[j][m] = c
    PROVE  EarlierIn(p, c, i, k)
BY Zenon DEF EarlierIn

\* A piece that starts behind the n-th chunk, when the first n are shown.
LEMMA PaintPiece ==
    ASSUME NEW p \in Seq(Seq(Nat)), NEW d \in Seq(Nat), NEW n \in Nat,
           Gapless(p), \A c \in 1..n : ShownIn(p, c), \A k \in 1..Len(d) : d[k] = n + k
    PROVE  Gapless(Append(p, d)) /\ \A c \in 1..(n + Len(d)) : ShownIn(Append(p, d), c)
<1> DEFINE q == Append(p, d)
<1>1. /\ Len(p) \in Nat /\ Len(q) = Len(p) + 1 /\ q[Len(p) + 1] = d
      /\ \A i \in 1 .. Len(p) : q[i] = p[i]
    OBVIOUS
<1>2. Len(d) \in Nat
    OBVIOUS
<1> HIDE DEF q
<1>3. \A i \in 1..Len(q) : i \in 1..Len(p) \/ i = Len(p) + 1
    BY <1>1
<1>4. \A c : ShownIn(p, c) => ShownIn(q, c) /\ \A k : EarlierIn(q, c, Len(p) + 1, k)
  <2> SUFFICES ASSUME NEW c, ShownIn(p, c) PROVE ShownIn(q, c) /\ \A k : EarlierIn(q, c, Len(p) + 1, k)
      OBVIOUS
  <2>1. PICK j \in 1..Len(p) : \E m \in 1..Len(p[j]) : p[j][m] = c
      BY DEF ShownIn
  <2>2. j \in 1..Len(q) /\ q[j] = p[j] /\ j \in 1..(Len(p) + 1 - 1)
      BY <1>1
  <2>3. PICK m \in 1..Len(q[j]) : q[j][m] = c
      BY <2>1, <2>2
  <2>4. ShownIn(q, c)
      BY <2>2, <2>3, Zenon DEF ShownIn
  <2>5. ASSUME NEW k PROVE EarlierIn(q, c, Len(p) + 1, k)
    <3>1. PICK i : i = Len(p) + 1
        OBVIOUS
    <3>2. j \in 1..(i - 1)
        BY <2>2, <3>1
    <3>3. \E l \in 1..(i - 1) : \E h \in 1..Len(q[l]) : q[l][h] = c
        BY <2>3, <3>2, Zenon
    <3>4. EarlierIn(q, c, i, k)
        BY <3>3, EarlierPiece, Zenon
    <3> QED
        BY <3>1, <3>4
  <2> QED
      BY <2>4, <2>5
<1>5. ASSUME NEW i \in 1..Len(q), NEW k \in 1..Len(q[i])
      PROVE  q[i][k] = 1 \/ EarlierIn(q, q[i][k] - 1, i, k)
  <2>1. CASE i \in 1..Len(p)
    <3>1. q[i] = p[i] /\ \A j \in 1..(i - 1) : q[j] = p[j]
        BY <1>1, <2>1
    <3>2. p[i][k] = 1 \/ EarlierIn(p, p[i][k] - 1, i, k)
        BY <2>1, <3>1 DEF Gapless
    <3> QED
        BY <3>1, <3>2 DEF EarlierIn
  <2>2. CASE i = Len(p) + 1
    <3>1. q[i] = d /\ d[k] = n + k
        BY <1>1, <2>2
    <3>2. CASE k = 1
      <4>1. n = 0 \/ ShownIn(p, n)
          OBVIOUS
      <4> QED
          BY <1>4, <2>2, <3>1, <3>2, <4>1
    <3>3. CASE k # 1
      <4>1. k - 1 \in 1..(k - 1) /\ k - 1 \in 1..Len(d)
          BY <1>2, <3>1, <3>3
      <4>2. d[k - 1] = d[k] - 1
          BY <3>1, <4>1
      <4> QED
          BY <3>1, <4>1, <4>2 DEF EarlierIn
    <3> QED
        BY <3>2, <3>3
  <2> QED
      BY <1>3, <2>1, <2>2
<1>6. ASSUME NEW c \in 1..(n + Len(d)) PROVE ShownIn(q, c)
  <2>1. CASE c <= n
      BY <1>4, <2>1
  <2>2. CASE c > n
    <3>1. c - n \in 1..Len(d) /\ d[c - n] = c
        BY <1>2, <2>2, SMTT(30)
    <3>2. Len(p) + 1 \in 1..Len(q) /\ c - n \in 1..Len(q[Len(p) + 1]) /\ q[Len(p) + 1][c - n] = c
        BY <1>1, <3>1
    <3> QED
        BY <3>2 DEF ShownIn
  <2> QED
      BY <2>1, <2>2
<1>7. Gapless(q) /\ \A c \in 1..(n + Len(d)) : ShownIn(q, c)
    BY <1>5, <1>6 DEF Gapless
<1> QED
    BY <1>7 DEF q

\* What open_gate paints of a held frame: the chunks behind Beyond(f), up to its last.
Beyond(f) == IF Start(f) < reply.seq THEN reply.seq ELSE Start(f)
Piece(d, b, e) ==
  /\ \A k \in 1..Len(d) : d[k] = b + k /\ b + k <= e
  /\ \A c \in Nat : b < c /\ c <= e => c - b \in 1..Len(d)

\* A suffix of a sequence of chunks.
LEMMA Suffix ==
    ASSUME NEW t \in Seq(Nat), NEW k \in Nat, k <= Len(t)
    PROVE  LET d == SubSeq(t, k + 1, Len(t)) IN
           /\ d \in Seq(Nat) /\ Len(d) = Len(t) - k
           /\ \A i \in 1..(Len(t) - k) : d[i] = t[k + i]
<1> DEFINE m == Len(t)
<1>1. m \in Nat /\ k \in Nat /\ k <= m /\ m = Len(t)
    OBVIOUS
<1> HIDE DEF m
<1>2. k + 1 \in 1..m + 1 /\ m \in (k + 1 - 1)..m /\ (m - (k + 1)) + 1 = m - k
    BY <1>1
<1>3. \A i \in (k + 1)..m : i \in 1..Len(t)
    BY <1>1
<1>4. SubSeq(t, k + 1, m) = [i \in 1..(m - k) |-> t[(k + 1) + i - 1]]
    BY <1>1, <1>2
<1>5. \A i \in 1..(m - k) : (k + 1) + i - 1 = k + i /\ k + i \in 1..m
    BY <1>1
<1>6. \A i \in 1..(m - k) : t[k + i] \in Nat
    BY <1>1, <1>5
<1>7. SubSeq(t, k + 1, m) = [i \in 1..(m - k) |-> t[k + i]]
    BY <1>4, <1>5
<1> DEFINE d == [i \in 1..(m - k) |-> t[k + i]]
<1>8. m - k \in Nat
    BY <1>1
<1>9. PICK j \in Nat : j = m - k
    BY <1>8
<1>10. d \in Seq(Nat) /\ Len(d) = m - k
  <2>1. d \in [1..j -> Nat] /\ DOMAIN d = 1..j
      BY <1>6, <1>9
  <2> HIDE DEF d
  <2>2. d \in Seq(Nat)
      BY <2>1
  <2> QED
      BY <1>9, <2>1, <2>2, LenProperties
<1> QED
    BY <1>1, <1>7, <1>10

\* Of a numbered frame, open_gate paints that piece.
LEMMA PieceShape ==
    ASSUME NEW f \in PaneFrames, Numbered(f), reply.seq \in Nat,
           reply.kind = "new" => reply.seq = 0
    PROVE  AfterSnapshot(f) \in Seq(Nat) /\ Piece(AfterSnapshot(f), Beyond(f), f.seq)
<1>1. /\ f.data \in Seq(Nat) /\ Len(f.data) \in Nat /\ f.seq \in Nat
      /\ Start(f) \in Nat /\ Start(f) <= f.seq /\ Len(f.data) = f.seq - Start(f)
    BY FrameFacts
<1>2. \A k \in 1..Len(f.data) : f.data[k] = Start(f) + k
    BY DEF Numbered
<1>3. CASE reply.kind = "new"
  <2>1. AfterSnapshot(f) = f.data /\ Beyond(f) = Start(f)
      BY <1>1, <1>3 DEF AfterSnapshot, Beyond
  <2> QED
      BY <1>1, <1>2, <2>1, SMTT(30) DEF Piece
<1>4. CASE reply.kind # "new"
  <2>1. PICK a \in Nat : a = Start(f)
      BY <1>1
  <2>2. PICK e \in Nat : e = f.seq
      BY <1>1
  <2>3. PICK r \in Nat : r = reply.seq
      OBVIOUS
  <2>4. PICK m \in Nat : m = Len(f.data)
      BY <1>1
  <2>5. PICK skip \in Nat : skip = (IF e <= r THEN m ELSE IF a < r THEN r - a ELSE 0)
      OBVIOUS
  <2>6. PICK b \in Nat : b = (IF a < r THEN r ELSE a)
      OBVIOUS
  <2>7. a <= e /\ m = e - a
      BY <1>1, <2>1, <2>2, <2>4
  <2>8. skip <= m /\ (e <= b => skip = m) /\ (b < e => skip = b - a)
      BY <2>5, <2>6, <2>7
  <2>9. AfterSnapshot(f) = SubSeq(f.data, skip + 1, m)
      BY <1>4, <2>1, <2>2, <2>3, <2>4, <2>5 DEF AfterSnapshot, Start
  <2>10. Beyond(f) = b
      BY <2>1, <2>3, <2>6 DEF Beyond
  <2> DEFINE d == SubSeq(f.data, skip + 1, m)
  <2>11. d \in Seq(Nat) /\ Len(d) = m - skip /\ \A i \in 1..(m - skip) : d[i] = f.data[skip + i]
      BY <1>1, <2>4, <2>8, Suffix
  <2> HIDE DEF d
  <2>12. ASSUME NEW k \in 1..Len(d) PROVE d[k] = b + k /\ b + k <= e
    <3>1. k \in Int /\ 1 <= k /\ k <= m - skip
        BY <2>11
    <3>2. skip < m
        BY <3>1
    <3>3. skip = b - a /\ b < e
        BY <2>8, <3>2
    <3>4. skip + k \in 1..m
        BY <3>1
    <3>5. f.data[skip + k] = a + (skip + k)
        BY <1>2, <2>1, <2>4, <3>4
    <3>6. d[k] = f.data[skip + k]
        BY <2>11, <3>1
    <3>7. m = e - a /\ k <= m - (b - a) /\ skip = b - a
        BY <2>7, <3>1, <3>3
    <3>8. a + (skip + k) = b + k /\ b + k <= e
        BY <3>7
    <3> QED
        BY <3>5, <3>6, <3>8
  <2>13. ASSUME NEW c \in Nat, b < c, c <= e PROVE c - b \in 1..Len(d)
      BY <2>7, <2>8, <2>11, <2>13
  <2> QED
      BY <2>2, <2>9, <2>10, <2>11, <2>12, <2>13 DEF Piece, d
<1> QED
    BY <1>3, <1>4

\* L spans that follow each other from the g-th to the n-th chunk, the i-th from S[i] to
\* E[i], of which B[i] leaves out what lies below r.
Spread(L, r, g, n, S, E, B) ==
  /\ \A i \in 1..L : /\ B[i] = r \/ B[i] = S[i]
                     /\ S[i] <= B[i] /\ r <= B[i] /\ E[i] <= n
  /\ \A i, j \in 1..L : i < j => E[i] <= S[j]
  /\ \A c \in (g + 1)..n : \E i \in 1..L : S[i] < c /\ c <= E[i]

\* Behind a piece with the first u chunks, one piece for each span.
LEMMA SpansPaint ==
    ASSUME NEW L \in Nat, NEW u \in Nat, NEW r \in Nat, NEW g \in Nat, NEW n \in Nat, g <= r, r <= u,
           NEW S \in [1..L -> Nat], NEW E \in [1..L -> Nat], NEW B \in [1..L -> Nat],
           Spread(L, r, g, n, S, E, B),
           NEW q \in Seq(Seq(Nat)), Len(q) = L + 1, Piece(q[1], 0, u),
           \A i \in 1..L : Piece(q[i + 1], B[i], E[i])
    PROVE  Gapless(q) /\ \A c \in 1..n : ShownIn(q, c)
<1>1. ASSUME NEW c \in Nat, u < c, NEW j \in 1..L, S[j] < c, c <= E[j]
      PROVE  \E m \in 1..Len(q[j + 1]) : q[j + 1][m] = c
  <2>1. PICK b \in Nat : b = B[j]
      OBVIOUS
  <2>2. PICK e \in Nat : e = E[j]
      OBVIOUS
  <2>3. b = r \/ b = S[j]
      BY <2>1 DEF Spread
  <2>4. PICK a \in Nat : a = S[j]
      OBVIOUS
  <2>5. a < c /\ c <= e /\ (b = r \/ b = a)
      BY <1>1, <2>2, <2>3, <2>4
  <2>6. r < c
      BY <1>1
  <2>7. b < c /\ c <= e
      BY <2>5, <2>6
  <2>8. Piece(q[j + 1], b, e)
      BY <2>1, <2>2
  <2>9. c - b \in 1..Len(q[j + 1])
      BY <2>7, <2>8 DEF Piece
  <2>10. q[j + 1][c - b] = b + (c - b)
      BY <2>8, <2>9 DEF Piece
  <2>11. q[j + 1][c - b] = c
      BY <2>10
  <2> QED
      BY <2>9, <2>11
<1>2. ASSUME NEW c \in 1..u PROVE c \in 1..Len(q[1]) /\ q[1][c] = c
  <2>1. c - 0 \in 1..Len(q[1]) /\ c - 0 = c
      BY DEF Piece
  <2>2. q[1][c] = 0 + c
      BY <2>1 DEF Piece
  <2> QED
      BY <2>1, <2>2
<1>3. ASSUME NEW i \in 1..Len(q), NEW k \in 1..Len(q[i]), NEW b \in Nat, NEW e \in Nat,
             Piece(q[i], b, e), k # 1
      PROVE  EarlierIn(q, q[i][k] - 1, i, k)
  <2>1. Len(q[i]) \in Nat
      OBVIOUS
  <2>2. k - 1 \in 1..(k - 1) /\ k - 1 \in 1..Len(q[i])
      BY <1>3, <2>1
  <2>3. q[i][k - 1] = b + (k - 1) /\ q[i][k] = b + k
      BY <1>3, <2>2 DEF Piece
  <2>4. q[i][k - 1] = q[i][k] - 1
      BY <2>3
  <2> QED
      BY <2>2, <2>4 DEF EarlierIn
<1>4. ASSUME NEW h \in 1..L, NEW b \in Nat, b = B[h], b # 0, b < E[h]
      PROVE  \E j \in 1..h : \E m \in 1..Len(q[j]) : q[j][m] = b
  <2>1. CASE b <= u
    <3>1. b \in 1..u /\ 1 \in 1..h
        BY <1>4, <2>1
    <3> QED
        BY <1>2, <3>1
  <2>2. CASE u < b
    <3>1. PICK e \in Nat : e = E[h]
        OBVIOUS
    <3>2. b = S[h] /\ e <= n
        BY <1>4, <2>2, <3>1 DEF Spread
    <3>3. b < e /\ g < b
        BY <1>4, <2>2, <3>1
    <3>4. e <= n
        BY <3>2
    <3>5. b <= n /\ g + 1 <= b
        BY <3>3, <3>4
    <3>6. b \in (g + 1)..n
        BY <3>5
    <3>7. PICK j \in 1..L : S[j] < b /\ b <= E[j]
        BY <3>6 DEF Spread
    <3>8. PICK sj \in Nat : sj = S[j]
        OBVIOUS
    <3>9. j # h
        BY <3>2, <3>7, <3>8
    <3>10. h < j => e <= sj
        BY <3>1, <3>8 DEF Spread
    <3>11. ~(h < j)
        BY <1>4, <3>1, <3>7, <3>8, <3>10
    <3>12. j + 1 \in 1..h
        BY <3>9, <3>11
    <3>13. \E m \in 1..Len(q[j + 1]) : q[j + 1][m] = b
        BY <1>1, <2>2, <3>7
    <3> QED
        BY <3>12, <3>13
  <2> QED
      BY <2>1, <2>2
<1>5. ASSUME NEW i \in 1..Len(q), NEW k \in 1..Len(q[i])
      PROVE  q[i][k] = 1 \/ EarlierIn(q, q[i][k] - 1, i, k)
  <2>1. CASE i = 1
    <3>1. q[i][1] = 1 \/ k # 1
        BY <2>1 DEF Piece
    <3> QED
        BY <1>3, <2>1, <3>1
  <2>2. CASE i # 1
    <3>1. PICK h \in 1..L : i = h + 1
        BY <2>2
    <3>2. PICK b \in Nat : b = B[h]
        OBVIOUS
    <3>3. PICK e \in Nat : e = E[h]
        OBVIOUS
    <3>4. Piece(q[i], b, e)
        BY <3>1, <3>2, <3>3
    <3>5. q[i][k] = b + k /\ b + k <= e
        BY <3>4 DEF Piece
    <3>6. CASE k # 1
        BY <1>3, <3>4, <3>6
    <3>7. CASE k = 1
      <4>1. q[i][k] = b + 1 /\ b + 1 <= e
          BY <3>5, <3>7
      <4>2. b + 1 <= e
          BY <4>1
      <4>3. b < e /\ (b + 1) - 1 = b
          BY <4>2
      <4>4. b < e /\ (b + 1) - 1 = b /\ i - 1 = h
          BY <3>1, <4>3
      <4>5. q[i][k] - 1 = b /\ b < e /\ i - 1 = h
          BY <4>1, <4>4
      <4>6. CASE b = 0
          BY <3>5, <3>7, <4>6
      <4>7. CASE b # 0
        <5>1. \E j \in 1..h : \E m \in 1..Len(q[j]) : q[j][m] = b
            BY <1>4, <3>2, <3>3, <4>5, <4>7
        <5> QED
            BY <4>5, <5>1 DEF EarlierIn
      <4> QED
          BY <4>6, <4>7
    <3> QED
        BY <3>6, <3>7
  <2> QED
      BY <2>1, <2>2
<1>6. ASSUME NEW c \in 1..n PROVE ShownIn(q, c)
  <2>1. CASE c <= u
    <3>1. 1 \in 1..Len(q) /\ c \in 1..u
        BY <2>1
    <3> QED
        BY <1>2, <3>1 DEF ShownIn
  <2>2. CASE u < c
    <3>1. c \in (g + 1)..n /\ c \in Nat
        BY <2>2
    <3>2. PICK j \in 1..L : S[j] < c /\ c <= E[j]
        BY <3>1 DEF Spread
    <3>3. j + 1 \in 1..Len(q)
        OBVIOUS
    <3>4. \E m \in 1..Len(q[j + 1]) : q[j + 1][m] = c
        BY <1>1, <2>2, <3>1, <3>2
    <3> QED
        BY <3>3, <3>4 DEF ShownIn
  <2> QED
      BY <2>1, <2>2
<1> QED
    BY <1>5, <1>6 DEF Gapless

\* The snapshot and, behind it, what open_gate paints of the held frames.
LEMMA PaintHeld ==
    ASSUME FlowTypes, reply.kind = "new" => reply.seq = 0, reply.seq <= reply.upto,
           NEW s \in Seq(PaneFrames), NEW g \in Nat, NEW n \in Nat, Spans(s, g, n), g <= reply.seq,
           NEW x, x = [i \in 1..reply.upto |-> i],
           NEW F, F = [i \in 1..Len(s) |-> AfterSnapshot(s[i])]
    PROVE  /\ <<x>> \o F \in Seq(Seq(Nat)) /\ Gapless(<<x>> \o F)
           /\ \A c \in 1..n : ShownIn(<<x>> \o F, c)
<1>1. reply.upto \in Nat /\ reply.seq \in Nat /\ Len(s) \in Nat
    BY DEF FlowTypes
<1>2. x \in Seq(Nat) /\ Len(x) = reply.upto /\ \A k \in 1..reply.upto : x[k] = k
    BY <1>1
<1>3. Piece(x, 0, reply.upto)
    BY <1>1, <1>2 DEF Piece
<1>4. ASSUME NEW i \in 1..Len(s)
      PROVE  /\ s[i].seq \in Nat /\ Start(s[i]) \in Nat /\ F[i] \in Seq(Nat)
             /\ Piece(F[i], Beyond(s[i]), s[i].seq)
             /\ s[i].seq <= n /\ g <= Start(s[i])
  <2>1. s[i] \in PaneFrames /\ Numbered(s[i]) /\ s[i].seq <= n /\ g <= Start(s[i])
      BY DEF Spans
  <2>2. F[i] = AfterSnapshot(s[i])
      OBVIOUS
  <2> QED
      BY <1>1, <2>1, <2>2, FrameFacts, PieceShape
<1>5. F \in Seq(Seq(Nat)) /\ Len(F) = Len(s)
  <2>1. DOMAIN F = 1..Len(s) /\ F \in [1..Len(s) -> Seq(Nat)]
      BY <1>4
  <2> QED
      BY <1>1, <2>1, IsASeq, LenProperties, SMTT(30)
<1> DEFINE q == <<x>> \o F
<1>6. <<x>> \in Seq(Seq(Nat)) /\ Len(<<x>>) = 1 /\ <<x>>[1] = x
    BY <1>2
<1>7. /\ q \in Seq(Seq(Nat)) /\ Len(q) = 1 + Len(F)
      /\ \A i \in 1..(1 + Len(F)) : q[i] = IF i <= 1 THEN <<x>>[i] ELSE F[i - 1]
    BY <1>5, <1>6, ConcatProperties
<1>8. /\ Len(q) = Len(s) + 1 /\ q[1] = x
      /\ \A i \in 1..Len(s) : q[i + 1] = F[i]
    BY <1>1, <1>5, <1>6, <1>7
<1> HIDE DEF q
<1> DEFINE S == [i \in 1..Len(s) |-> Start(s[i])]
           E == [i \in 1..Len(s) |-> s[i].seq]
           B == [i \in 1..Len(s) |-> Beyond(s[i])]
<1>9. \A i \in 1..Len(s) :
        /\ Beyond(s[i]) \in Nat /\ (Beyond(s[i]) = reply.seq \/ Beyond(s[i]) = Start(s[i]))
        /\ Start(s[i]) <= Beyond(s[i]) /\ reply.seq <= Beyond(s[i])
    BY <1>1, <1>4 DEF Beyond
<1>10. S \in [1..Len(s) -> Nat] /\ E \in [1..Len(s) -> Nat] /\ B \in [1..Len(s) -> Nat]
    BY <1>4, <1>9
<1>11. \A i \in 1..Len(s) : /\ B[i] = reply.seq \/ B[i] = S[i]
                            /\ S[i] <= B[i] /\ reply.seq <= B[i] /\ E[i] <= n
    BY <1>4, <1>9
<1>12. \A i, j \in 1..Len(s) : i < j => E[i] <= S[j]
    BY DEF Spans
<1>13. \A c \in (g + 1)..n : \E i \in 1..Len(s) : S[i] < c /\ c <= E[i]
    BY DEF Spans
<1>14. ASSUME NEW i \in 1..Len(s) PROVE Piece(q[i + 1], B[i], E[i])
  <2>1. q[i + 1] = F[i] /\ B[i] = Beyond(s[i]) /\ E[i] = s[i].seq
      BY <1>8
  <2> QED
      BY <1>4, <2>1
<1>15. Piece(q[1], 0, reply.upto)
    BY <1>3, <1>8
<1>16. q \in Seq(Seq(Nat))
    BY <1>7
<1> HIDE DEF S, E, B
<1>17. Spread(Len(s), reply.seq, g, n, S, E, B)
    BY <1>11, <1>12, <1>13 DEF Spread
<1>18. PICK L \in Nat : L = Len(s)
    BY <1>1
<1>19. PICK u \in Nat : u = reply.upto
    BY <1>1
<1>20. PICK r \in Nat : r = reply.seq
    BY <1>1
<1>21. /\ g <= r /\ r <= u /\ S \in [1..L -> Nat] /\ E \in [1..L -> Nat] /\ B \in [1..L -> Nat]
       /\ Spread(L, r, g, n, S, E, B) /\ Len(q) = L + 1 /\ Piece(q[1], 0, u)
    BY <1>8, <1>10, <1>15, <1>17, <1>18, <1>19, <1>20
<1>22. \A i \in 1..L : Piece(q[i + 1], B[i], E[i])
    BY <1>14, <1>18
<1>23. Gapless(q) /\ \A c \in 1..n : ShownIn(q, c)
    BY <1>16, <1>21, <1>22, SpansPaint
<1> QED
    BY <1>16, <1>23 DEF q

\* Initially the emulator, the counters and the frames agree.
LEMMA FlowInit == PaneInit => FlowInv
<1> SUFFICES ASSUME PaneInit PROVE FlowInv
    OBVIOUS
<1>1. made \in Nat /\ sent = made /\ fed = made /\ ingest = made
    BY DEF PaneInit
<1>2. FlowTypes
  <2>1. reply \in [kind : {"none", "new", "warm"}, upto : Nat, seq : Nat]
      BY DEF PaneInit, NoAnswer
  <2>2. gate \in [closed : BOOLEAN, frames : Seq(PaneFrames), exited : BOOLEAN]
      BY DEF PaneInit
  <2>3. /\ pend = <<>> /\ batch = <<>> /\ stream = <<>> /\ painted = <<>> /\ snap = -1
        /\ subscribed = FALSE /\ cut = FALSE
      BY DEF PaneInit
  <2>4. pend \in Seq(Nat) /\ batch \in Seq(Nat) /\ stream \in Seq(PaneFrames) /\ painted \in Seq(Seq(Nat))
      BY <2>3
  <2>5. snap \in Nat \cup {-1} /\ subscribed \in BOOLEAN /\ cut \in BOOLEAN
      BY <2>3
  <2> QED
      BY <1>1, <2>1, <2>2, <2>4, <2>5 DEF FlowTypes
<1>3. FlowPhases
    BY DEF PaneInit, FlowPhases, NoAnswer
<1>4. FlowCounts
    BY <1>1 DEF PaneInit, FlowCounts
<1>5. FlowAt(made, 0)
    BY <1>1, SpansNothing DEF PaneInit, FlowAt
<1> QED
    BY <1>1, <1>2, <1>3, <1>4, <1>5 DEF FlowInv, Flow

\* A step that leaves the frames, the screen and the call alone.
LEMMA FlowQuiet ==
    ASSUME Flow, UNCHANGED <<stream, sent, gate, pane, painted, subscribed, snap, reply>>, cut => cut'
    PROVE  Flow'
<1> SUFFICES ASSUME ~cut PROVE Flow'
    BY DEF Flow
<1>1. PICK n, g \in Nat : FlowAt(n, g)
    BY DEF Flow
<1>2. FlowAt(n, g)'
    BY <1>1 DEF FlowAt
<1> QED
    BY <1>2 DEF Flow

\* A read chunk is in the emulator and not yet counted.
LEMMA TeeFlow == FlowInv /\ Tee => FlowInv'
<1> SUFFICES ASSUME FlowInv, Tee PROVE FlowInv'
    OBVIOUS
<1>1. Flow'
    BY FlowQuiet DEF FlowInv, Tee, coalescer, host
<1>2. FlowTypes'
    BY DEF FlowInv, FlowTypes, Tee, coalescer, host
<1>3. FlowPhases'
    BY DEF FlowInv, FlowPhases, Tee, coalescer, host
<1>4. FlowCounts'
    BY DEF FlowInv, FlowTypes, FlowCounts, Tee, coalescer, host
<1> QED
    BY <1>1, <1>2, <1>3, <1>4 DEF FlowInv

\* The count catches up with the emulator.
LEMMA CountChunkFlow == FlowInv /\ CountChunk => FlowInv'
<1> SUFFICES ASSUME FlowInv, CountChunk PROVE FlowInv'
    OBVIOUS
<1>1. Flow'
    BY FlowQuiet DEF FlowInv, CountChunk, coalescer, host
<1>2. FlowTypes'
    BY DEF FlowInv, FlowTypes, CountChunk, coalescer, host
<1>3. FlowPhases'
    BY DEF FlowInv, FlowPhases, CountChunk, coalescer, host
<1>4. FlowCounts'
    BY DEF FlowInv, FlowTypes, FlowCounts, CountChunk, coalescer, host
<1> QED
    BY <1>1, <1>2, <1>3, <1>4 DEF FlowInv

\* A pushed chunk is the next one of the pending output, unless the cap drops some.
LEMMA PushFlow == FlowInv /\ Push => FlowInv'
<1> SUFFICES ASSUME FlowInv, Push PROVE FlowInv'
    OBVIOUS
<1> DEFINE p == Append(pend, made)
<1>1. Flow'
    BY FlowQuiet DEF FlowInv, Push, host
<1>2. pend \in Seq(Nat) /\ made \in Nat /\ Len(pend) \in Nat
    BY DEF FlowInv, FlowTypes
<1>3. /\ p \in Seq(Nat) /\ p # <<>> /\ Len(p) = Len(pend) + 1 /\ p[Len(pend) + 1] = made
      /\ \A k \in 1..Len(pend) : p[k] = pend[k]
    BY <1>2
<1>4. /\ pend' = IF Len(p) > MaxPendingOut THEN Tail(p) ELSE p
      /\ cut' = (cut \/ Len(p) > MaxPendingOut)
    BY DEF Push
<1> HIDE DEF p
<1>5. FlowTypes'
  <2>1. Tail(p) \in Seq(Nat)
      BY <1>3
  <2>2. pend' \in Seq(Nat)
      BY <1>3, <1>4, <2>1
  <2>3. cut' \in BOOLEAN
      BY <1>4
  <2> QED
      BY <2>2, <2>3 DEF FlowInv, FlowTypes, Push, host
<1>6. FlowPhases'
    BY DEF FlowInv, FlowPhases, Push, host
<1>7. FlowCounts'
  <2>1. fed' = made' /\ ingest' = made' /\ reader' = "idle"
      BY DEF FlowInv, FlowCounts, Push
  <2>2. ASSUME ~cut'
        PROVE  /\ sent' + Len(batch') + Len(pend') = made'
               /\ \A k \in 1..Len(batch') : batch'[k] = sent' + k
               /\ \A k \in 1..Len(pend') : pend'[k] = sent' + Len(batch') + k
    <3>1. pend' = p /\ ~cut
        BY <1>4, <2>2
    <3>2. /\ sent + Len(batch) + Len(pend) = made - 1
          /\ \A k \in 1..Len(batch) : batch[k] = sent + k
          /\ \A k \in 1..Len(pend) : pend[k] = sent + Len(batch) + k
        BY <3>1 DEF FlowInv, FlowCounts, Push
    <3>3. sent' = sent /\ batch' = batch /\ made' = made
        BY DEF Push
    <3>4. sent \in Nat /\ Len(batch) \in Nat
        BY DEF FlowInv, FlowTypes
    <3>5. ASSUME NEW k \in 1..Len(p) PROVE p[k] = sent + Len(batch) + k
      <4>1. CASE k = Len(pend) + 1
          BY <1>2, <1>3, <3>2, <3>4, <4>1
      <4>2. CASE k # Len(pend) + 1
          BY <1>2, <1>3, <3>2, <4>2, SMTT(30)
      <4> QED
          BY <4>1, <4>2
    <3>6. sent + Len(batch) + Len(p) = made
        BY <1>2, <1>3, <3>2, <3>4
    <3> QED
        BY <3>1, <3>2, <3>3, <3>5, <3>6
  <2>3. snap' <= fed'
      BY DEF FlowInv, FlowCounts, Push
  <2> QED
      BY <2>1, <2>2, <2>3 DEF FlowCounts
<1> QED
    BY <1>1, <1>5, <1>6, <1>7 DEF FlowInv

\* The batch is what was pending.
LEMMA FlusherDrainsFlow == FlowInv /\ FlusherDrains => FlowInv'
<1> SUFFICES ASSUME FlowInv, FlusherDrains PROVE FlowInv'
    OBVIOUS
<1>1. Flow'
    BY FlowQuiet DEF FlowInv, FlusherDrains, host
<1>2. FlowTypes'
    BY DEF FlowInv, FlowTypes, FlusherDrains, session, host
<1>3. FlowPhases'
    BY DEF FlowInv, FlowPhases, FlusherDrains, session, host
<1>4. FlowCounts'
  <2>1. batch = <<>> /\ batch' = pend /\ pend' = <<>> /\ sent \in Nat /\ Len(pend) \in Nat
      BY DEF FlowInv, FlowPhases, FlusherDrains, FlowTypes
  <2> QED
      BY <2>1 DEF FlowInv, FlowTypes, FlowCounts, FlusherDrains, session
<1> QED
    BY <1>1, <1>2, <1>3, <1>4 DEF FlowInv

\* The flusher ends with nothing pending.
LEMMA FlusherEndsFlow == FlowInv /\ FlusherEnds => FlowInv'
<1> SUFFICES ASSUME FlowInv, FlusherEnds PROVE FlowInv'
    OBVIOUS
<1>1. Flow'
    BY FlowQuiet DEF FlowInv, FlusherEnds, host
<1>2. FlowTypes'
    BY DEF FlowInv, FlowTypes, FlusherEnds, session, host
<1>3. FlowPhases'
    BY DEF FlowInv, FlowPhases, FlusherEnds, session, host
<1>4. FlowCounts'
    BY DEF FlowInv, FlowTypes, FlowCounts, FlusherEnds, session
<1> QED
    BY <1>1, <1>2, <1>3, <1>4 DEF FlowInv

\* The end of file touches neither counters nor frames.
LEMMA ReadEofFlow == FlowInv /\ ReadEof => FlowInv'
<1> SUFFICES ASSUME FlowInv, ReadEof PROVE FlowInv'
    OBVIOUS
<1>1. Flow'
    BY FlowQuiet DEF FlowInv, ReadEof, coalescer, host
<1>2. FlowTypes'
    BY DEF FlowInv, FlowTypes, ReadEof, coalescer, host
<1>3. FlowPhases'
    BY DEF FlowInv, FlowPhases, ReadEof, coalescer, host
<1>4. FlowCounts'
    BY DEF FlowInv, FlowTypes, FlowCounts, ReadEof, coalescer
<1> QED
    BY <1>1, <1>2, <1>3, <1>4 DEF FlowInv

\* The new frame starts where the last one ended.
LEMMA FlusherEmitsFlow == FlowInv /\ FlusherEmits => FlowInv'
<1> SUFFICES ASSUME FlowInv, FlusherEmits PROVE FlowInv'
    OBVIOUS
<1> DEFINE f == [kind |-> "data", seq |-> sent', data |-> batch]
<1>1. /\ sent \in Nat /\ batch \in Seq(Nat) /\ Len(batch) \in Nat /\ stream \in Seq(PaneFrames)
      /\ pend \in Seq(Nat) /\ Len(pend) \in Nat
    BY DEF FlowInv, FlowTypes
<1>2. sent' = sent + Len(batch) /\ sent' \in Nat /\ stream' = Append(stream, f) /\ batch' = <<>>
    BY <1>1 DEF FlusherEmits
<1>3. f \in PaneFrames /\ f.seq = sent' /\ f.data = batch /\ f.kind = "data"
    BY <1>1, <1>2 DEF PaneFrames
<1> HIDE DEF f
<1>4. FlowTypes'
  <2>1. stream' \in Seq(PaneFrames) /\ batch' \in Seq(Nat)
      BY <1>1, <1>2, <1>3
  <2> QED
      BY <1>2, <2>1 DEF FlowInv, FlowTypes, FlusherEmits, session, host
<1>5. FlowPhases'
    BY DEF FlowInv, FlowPhases, FlusherEmits, session, host
<1>6. FlowCounts'
  <2>1. /\ fed' = made' /\ ingest' = (IF reader' = "fed" THEN made' - 1 ELSE made') /\ snap' <= fed'
        /\ cut' = cut /\ reader' = reader /\ made' = made /\ pend' = pend
      BY DEF FlowInv, FlowCounts, FlusherEmits, session
  <2>2. ASSUME ~cut
        PROVE  /\ sent' + Len(batch') + Len(pend) = sent + Len(batch) + Len(pend)
               /\ \A k \in 1..Len(pend) : pend[k] = sent' + Len(batch') + k
    <3>1. Len(batch') = 0 /\ sent' + 0 = sent + Len(batch)
        BY <1>1, <1>2
    <3>2. \A k \in 1..Len(pend) : pend[k] = sent + Len(batch) + k
        BY <2>2 DEF FlowInv, FlowCounts
    <3> QED
        BY <1>1, <1>2, <3>1, <3>2
  <2>3. \A k \in 1..Len(batch') : batch'[k] = sent' + k
      BY <1>2
  <2>4. ~cut => sent + Len(batch) + Len(pend) = (IF reader \in {"fed", "counted"} THEN made - 1 ELSE made)
      BY DEF FlowInv, FlowCounts
  <2> QED
      BY <2>1, <2>2, <2>3, <2>4 DEF FlowCounts
<1>7. Flow'
  <2> SUFFICES ASSUME ~cut' PROVE Flow'
      BY DEF Flow
  <2>1. ~cut
      BY DEF FlusherEmits
  <2>2. PICK n, g \in Nat : FlowAt(n, g)
      BY <2>1 DEF FlowInv, Flow
  <2>3. Start(f) = sent
      BY <1>1, <1>2, <1>3 DEF Start
  <2>4. Numbered(f)
    <3>1. \A k \in 1..Len(batch) : batch[k] = sent + k
        BY <2>1 DEF FlowInv, FlowCounts
    <3>2. Start(f) >= 0 /\ f.kind # "exit"
        BY <1>1, <1>3, <2>3
    <3>3. \A k \in 1..Len(f.data) : f.data[k] = Start(f) + k
        BY <1>3, <2>3, <3>1
    <3> QED
        BY <3>2, <3>3 DEF Numbered
  <2>5. Spans(stream', n, sent')
      BY <1>1, <1>2, <1>3, <2>2, <2>3, <2>4, SpansAppend DEF FlowAt
  <2>6. FlowAt(n, g)'
      BY <2>2, <2>5 DEF FlowAt, FlusherEmits, host
  <2> QED
      BY <2>6 DEF Flow
<1> QED
    BY <1>4, <1>5, <1>6, <1>7 DEF FlowInv

\* The Exit frame holds no chunk and goes behind all others.
LEMMA EmitExitFlow == FlowInv /\ EmitExit => FlowInv'
<1> SUFFICES ASSUME FlowInv, EmitExit PROVE FlowInv'
    OBVIOUS
<1> DEFINE f == [kind |-> "exit", seq |-> sent, data |-> <<>>]
<1>1. sent \in Nat /\ stream \in Seq(PaneFrames) /\ stream' = Append(stream, f) /\ sent' = sent
    BY DEF FlowInv, FlowTypes, EmitExit, coalescer
<1>2. f \in PaneFrames /\ f.seq = sent /\ f.data = <<>>
    BY <1>1 DEF PaneFrames
<1> HIDE DEF f
<1>3. FlowTypes'
  <2>1. stream' \in Seq(PaneFrames)
      BY <1>1, <1>2
  <2> QED
      BY <2>1 DEF FlowInv, FlowTypes, EmitExit, coalescer, host
<1>4. FlowPhases'
    BY DEF FlowInv, FlowPhases, EmitExit, coalescer, host
<1>5. FlowCounts'
    BY DEF FlowInv, FlowTypes, FlowCounts, EmitExit, coalescer
<1>6. Flow'
  <2> SUFFICES ASSUME ~cut' PROVE Flow'
      BY DEF Flow
  <2>1. PICK n, g \in Nat : FlowAt(n, g)
      BY DEF FlowInv, Flow, EmitExit, coalescer
  <2>2. Start(f) = sent /\ Numbered(f)
      BY <1>1, <1>2 DEF Start, Numbered
  <2>3. Spans(stream', n, sent')
      BY <1>1, <1>2, <2>1, <2>2, SpansAppend DEF FlowAt
  <2>4. FlowAt(n, g)'
      BY <2>1, <2>3 DEF FlowAt, EmitExit, host
  <2> QED
      BY <2>4 DEF Flow
<1> QED
    BY <1>3, <1>4, <1>5, <1>6 DEF FlowInv

\* What was delivered before the held frames is in the emulator when it is counted.
LEMMA HeldCounted ==
    ASSUME FlowInv, ~cut, NEW n \in Nat, NEW g \in Nat, FlowAt(n, g), pane \in {"asked", "answered"}
    PROVE  g <= ingest /\ g <= made
<1>1. g <= n /\ n <= sent
    BY DEF FlowAt, Spans
<1>2. /\ sent \in Nat /\ Len(batch) \in Nat /\ Len(pend) \in Nat /\ made \in Nat
    BY DEF FlowInv, FlowTypes
<1>3. sent + Len(batch) + Len(pend) = (IF reader \in {"fed", "counted"} THEN made - 1 ELSE made)
    BY DEF FlowInv, FlowCounts
<1>4. ingest = (IF reader = "fed" THEN made - 1 ELSE made)
    BY DEF FlowInv, FlowCounts
<1>5. sent <= made /\ sent <= ingest
    BY <1>2, <1>3, <1>4
<1>6. ingest \in Nat
    BY DEF FlowInv, FlowTypes
<1> QED
    BY <1>1, <1>2, <1>5, <1>6

\* The held frames will start where the stream stands at the subscription.
LEMMA CreateFlow == FlowInv /\ Create => FlowInv'
<1> SUFFICES ASSUME FlowInv, Create PROVE FlowInv'
    OBVIOUS
<1>1. FlowTypes'
    BY DEF FlowInv, FlowTypes, Create, session, coalescer
<1>2. FlowPhases'
    BY DEF FlowInv, FlowPhases, Create, session, coalescer
<1>3. FlowCounts'
    BY DEF FlowInv, FlowCounts, Create, session, coalescer
<1>4. Flow'
  <2> SUFFICES ASSUME ~cut' PROVE Flow'
      BY DEF Flow
  <2>1. PICK n, g \in Nat : FlowAt(n, g)
      BY DEF FlowInv, Flow, Create, coalescer
  <2>2. gate'.frames = <<>> /\ snap' = -1 /\ reply'.kind = "none" /\ pane' = "asked"
      BY DEF FlowInv, FlowPhases, Create, NoAnswer
  <2>3. FlowAt(n, n)'
      BY <2>1, <2>2, SpansNothing DEF FlowAt, Create, coalescer
  <2> QED
      BY <2>3 DEF Flow
<1> QED
    BY <1>1, <1>2, <1>3, <1>4 DEF FlowInv

\* A new session has printed nothing.
LEMMA AnswerNewFlow == FlowInv /\ AnswerNew => FlowInv'
<1> SUFFICES ASSUME FlowInv, AnswerNew PROVE FlowInv'
    OBVIOUS
<1>1. reply' = [kind |-> "new", upto |-> 0, seq |-> 0] /\ made = 0
    BY DEF FlowInv, FlowPhases, AnswerNew
<1>2. FlowTypes'
    BY <1>1 DEF FlowInv, FlowTypes, AnswerNew, coalescer, host
<1>3. FlowPhases'
    BY <1>1 DEF FlowInv, FlowPhases, AnswerNew, coalescer, host
<1>4. FlowCounts'
    BY DEF FlowInv, FlowCounts, AnswerNew, coalescer
<1>5. Flow'
  <2> SUFFICES ASSUME ~cut' PROVE Flow'
      BY DEF Flow
  <2>1. ~cut
      BY DEF AnswerNew, coalescer
  <2>2. PICK n, g \in Nat : FlowAt(n, g)
      BY <2>1 DEF FlowInv, Flow
  <2>3. g <= 0
      BY <1>1, <2>1, <2>2, HeldCounted DEF AnswerNew
  <2>4. FlowAt(n, g)'
      BY <1>1, <2>2, <2>3 DEF FlowAt, AnswerNew, coalescer, host
  <2> QED
      BY <2>4 DEF Flow
<1> QED
    BY <1>2, <1>3, <1>4, <1>5 DEF FlowInv

\* What was delivered before the subscription is below the snapshot's number.
LEMMA SnapshotSeqFlow == FlowInv /\ SnapshotSeq => FlowInv'
<1> SUFFICES ASSUME FlowInv, SnapshotSeq PROVE FlowInv'
    OBVIOUS
<1>1. FlowTypes'
    BY DEF FlowInv, FlowTypes, SnapshotSeq, session, coalescer, host
<1>2. FlowPhases'
    BY DEF FlowInv, FlowPhases, SnapshotSeq, session, coalescer, host
<1>3. FlowCounts'
  <2>1. ingest <= fed
      BY DEF FlowInv, FlowTypes, FlowCounts
  <2> QED
      BY <2>1 DEF FlowInv, FlowCounts, SnapshotSeq, session, coalescer
<1>4. Flow'
  <2> SUFFICES ASSUME ~cut' PROVE Flow'
      BY DEF Flow
  <2>1. ~cut
      BY DEF SnapshotSeq, coalescer
  <2>2. PICK n, g \in Nat : FlowAt(n, g)
      BY <2>1 DEF FlowInv, Flow
  <2>3. g <= snap'
      BY <2>1, <2>2, HeldCounted DEF SnapshotSeq
  <2>4. FlowAt(n, g)'
      BY <2>2, <2>3 DEF FlowAt, SnapshotSeq, coalescer, host
  <2> QED
      BY <2>4 DEF Flow
<1> QED
    BY <1>1, <1>2, <1>3, <1>4 DEF FlowInv

\* The emulator holds at least what was counted before it was read.
LEMMA SnapshotContentFlow == FlowInv /\ SnapshotContent => FlowInv'
<1> SUFFICES ASSUME FlowInv, SnapshotContent PROVE FlowInv'
    OBVIOUS
<1>1. /\ reply' = [kind |-> "warm", upto |-> fed, seq |-> snap] /\ snap \in Nat /\ fed \in Nat
      /\ snap <= fed /\ pane \notin {"none", "answered"}
    BY DEF FlowInv, FlowTypes, FlowPhases, FlowCounts, SnapshotContent, NoAnswer
<1>2. FlowTypes'
    BY <1>1 DEF FlowInv, FlowTypes, SnapshotContent, session, coalescer, host
<1>3. FlowPhases'
    BY <1>1 DEF FlowInv, FlowPhases, SnapshotContent, session, coalescer, host
<1>4. FlowCounts'
    BY DEF FlowInv, FlowCounts, SnapshotContent, session, coalescer
<1>5. Flow'
  <2> SUFFICES ASSUME ~cut' PROVE Flow'
      BY DEF Flow
  <2>1. PICK n, g \in Nat : FlowAt(n, g)
      BY DEF FlowInv, Flow, SnapshotContent, coalescer
  <2>2. FlowAt(n, g)'
      BY <1>1, <2>1 DEF FlowAt, SnapshotContent, coalescer, host
  <2> QED
      BY <2>2 DEF Flow
<1> QED
    BY <1>2, <1>3, <1>4, <1>5 DEF FlowInv

\* A failed call leaves nobody subscribed.
LEMMA CreateFailsFlow == FlowInv /\ CreateFails => FlowInv'
<1> SUFFICES ASSUME FlowInv, CreateFails PROVE FlowInv'
    OBVIOUS
<1>1. FlowTypes'
    BY DEF FlowInv, FlowTypes, CreateFails, session, coalescer
<1>2. FlowPhases'
    BY DEF FlowInv, FlowPhases, CreateFails, session, coalescer
<1>3. FlowCounts'
    BY DEF FlowInv, FlowCounts, CreateFails, session, coalescer
<1>4. Flow'
  <2> SUFFICES ASSUME ~cut' PROVE Flow'
      BY DEF Flow
  <2>1. PICK n, g \in Nat : FlowAt(n, g)
      BY DEF FlowInv, Flow, CreateFails, coalescer
  <2>2. FlowAt(n, g)'
      BY <2>1 DEF FlowAt, CreateFails, coalescer
  <2> QED
      BY <2>2 DEF Flow
<1> QED
    BY <1>1, <1>2, <1>3, <1>4 DEF FlowInv

\* The snapshot is the first piece on the screen.
LEMMA AnsweredFlow == FlowInv /\ Answered => FlowInv'
<1> SUFFICES ASSUME FlowInv, Answered PROVE FlowInv'
    OBVIOUS
<1> DEFINE x == [i \in 1..reply.upto |-> i]
<1>1. x \in Seq(Nat)
  <2>1. reply.upto \in Nat
      BY DEF FlowInv, FlowTypes
  <2> QED
      BY <2>1
<1>2. painted' = <<x>> /\ reply.kind # "none" /\ reply' = reply /\ pane' = "answered"
    BY DEF Answered, FlowInv, FlowPhases
<1>3. FlowPhases'
    BY <1>2 DEF FlowInv, FlowPhases, Answered, session, coalescer
<1> HIDE DEF x
<1>4. FlowTypes'
  <2>1. painted' \in Seq(Seq(Nat))
      BY <1>1, <1>2
  <2> QED
      BY <2>1 DEF FlowInv, FlowTypes, Answered, session, coalescer
<1>5. FlowCounts'
    BY DEF FlowInv, FlowCounts, Answered, session, coalescer
<1>6. Flow'
  <2> SUFFICES ASSUME ~cut' PROVE Flow'
      BY DEF Flow
  <2>1. PICK n, g \in Nat : FlowAt(n, g)
      BY DEF FlowInv, Flow, Answered, coalescer
  <2>2. FlowAt(n, g)'
      BY <2>1 DEF FlowAt, Answered, coalescer
  <2> QED
      BY <2>2 DEF Flow
<1> QED
    BY <1>3, <1>4, <1>5, <1>6 DEF FlowInv

\* Of any frame, open_gate paints a sequence of chunks.
LEMMA PieceType ==
    ASSUME NEW f \in PaneFrames, reply.seq \in Nat
    PROVE  AfterSnapshot(f) \in Seq(Nat)
<1>1. f.data \in Seq(Nat) /\ f.seq \in Nat /\ Len(f.data) \in Nat
    BY DEF PaneFrames
<1>2. CASE reply.kind = "new"
    BY <1>1, <1>2 DEF AfterSnapshot
<1>3. CASE reply.kind # "new"
  <2> DEFINE start == f.seq - Len(f.data)
             skip == IF f.seq <= reply.seq THEN Len(f.data)
                     ELSE IF start < reply.seq THEN reply.seq - start ELSE 0
  <2>1. AfterSnapshot(f) = SubSeq(f.data, skip + 1, Len(f.data))
      BY <1>3 DEF AfterSnapshot
  <2>2. skip \in Nat
      BY <1>1
  <2> HIDE DEF skip
  <2>3. skip + 1 \in Int /\ \A i \in (skip + 1)..Len(f.data) : i \in 1..Len(f.data)
      BY <1>1, <2>2
  <2>4. \A i \in (skip + 1)..Len(f.data) : f.data[i] \in Nat
      BY <1>1, <2>3
  <2> QED
      BY <1>1, <2>1, <2>3, <2>4, SubSeqProperties
<1> QED
    BY <1>2, <1>3

\* What is painted of the held frames continues the snapshot.
LEMMA OpenGateFlow == FlowInv /\ OpenGate => FlowInv'
<1> SUFFICES ASSUME FlowInv, OpenGate PROVE FlowInv'
    OBVIOUS
<1> DEFINE x == [i \in 1..reply.upto |-> i]
           s == gate.frames
           F == [i \in 1..Len(s) |-> AfterSnapshot(s[i])]
<1>1. painted = <<x>> /\ painted' = painted \o F
    BY DEF OpenGate, FlowInv, FlowPhases
<1>2. s \in Seq(PaneFrames) /\ reply.seq \in Nat /\ reply.upto \in Nat
    BY DEF FlowInv, FlowTypes
<1>3. reply.kind # "none" /\ (reply.kind = "new" => reply.upto = 0) /\ reply.seq <= reply.upto
    BY DEF OpenGate, FlowInv, FlowPhases
<1> HIDE DEF x, s, F
<1>4. /\ painted' = <<x>> \o F /\ reply.kind # "none"
      /\ s \in Seq(PaneFrames) /\ reply.seq \in Nat /\ reply.upto \in Nat
      /\ (reply.kind = "new" => reply.seq = 0) /\ reply.seq <= reply.upto
    BY <1>1, <1>2, <1>3
<1>5. gate' = [closed |-> FALSE, frames |-> <<>>, exited |-> gate.exited] /\ gate.exited \in BOOLEAN
    BY DEF OpenGate, FlowInv, FlowTypes
<1>6. FlowPhases'
    BY <1>5 DEF FlowInv, FlowPhases, OpenGate, session, coalescer
<1>7. FlowCounts'
    BY DEF FlowInv, FlowCounts, OpenGate, session, coalescer
<1>8. painted' \in Seq(Seq(Nat))
  <2>1. Len(s) \in Nat /\ \A i \in 1..Len(s) : s[i] \in PaneFrames
      BY <1>4
  <2>2. \A i \in 1..Len(s) : AfterSnapshot(s[i]) \in Seq(Nat)
      BY <1>4, <2>1, PieceType
  <2>3. F \in Seq(Seq(Nat))
      BY <2>1, <2>2 DEF F
  <2>4. painted \in Seq(Seq(Nat))
      BY DEF FlowInv, FlowTypes
  <2> QED
      BY <1>1, <2>3, <2>4
<1>9. FlowTypes'
  <2>1. subscribed' \in BOOLEAN
      BY <1>5 DEF OpenGate, FlowInv, FlowTypes
  <2>2. gate' \in [closed : BOOLEAN, frames : Seq(PaneFrames), exited : BOOLEAN]
      BY <1>5
  <2> QED
      BY <1>8, <2>1, <2>2 DEF FlowInv, FlowTypes, OpenGate, session, coalescer
<1>10. Flow'
  <2> SUFFICES ASSUME ~cut' PROVE Flow'
      BY DEF Flow
  <2>1. PICK n, g \in Nat : FlowAt(n, g)
      BY DEF FlowInv, Flow, OpenGate, coalescer
  <2>2. Spans(s, g, n) /\ g <= reply.seq
      BY <1>4, <2>1 DEF FlowAt, OpenGate, s
  <2>3. Gapless(painted') /\ \A c \in 1..n : ShownIn(painted', c)
      BY <1>4, <2>2, PaintHeld DEF x, F, FlowInv
  <2>4. FlowAt(n, g)'
      BY <2>1, <2>3 DEF FlowAt, OpenGate, coalescer
  <2> QED
      BY <2>4 DEF Flow
<1> QED
    BY <1>6, <1>7, <1>9, <1>10 DEF FlowInv

\* A frame is the next one behind the gate or on the screen.
LEMMA OnDataFlow == FlowInv /\ OnData => FlowInv'
<1> SUFFICES ASSUME FlowInv, OnData PROVE FlowInv'
    OBVIOUS
<1> DEFINE f == Head(stream)
<1>1. stream \in Seq(PaneFrames) /\ stream # <<>> /\ gate.frames \in Seq(PaneFrames)
    BY DEF FlowInv, FlowTypes, OnData
<1>2. f \in PaneFrames /\ stream' = Tail(stream) /\ Tail(stream) \in Seq(PaneFrames)
    BY <1>1 DEF OnData
<1>3. f.data \in Seq(Nat)
    BY <1>2 DEF PaneFrames
<1>4. gate \in [closed : BOOLEAN, frames : Seq(PaneFrames), exited : BOOLEAN]
    BY DEF FlowInv, FlowTypes
<1>5. /\ gate' = IF subscribed /\ gate.closed
                 THEN [gate EXCEPT !.frames = Append(gate.frames, f)] ELSE gate
      /\ painted' = IF subscribed /\ ~gate.closed THEN Append(painted, f.data) ELSE painted
      /\ UNCHANGED <<session, coalescer, snap, reply, pane, subscribed, known, registered, overtaken>>
    BY DEF OnData
<1> HIDE DEF f
<1>6. /\ gate' \in [closed : BOOLEAN, frames : Seq(PaneFrames), exited : BOOLEAN]
      /\ gate'.closed = gate.closed
      /\ subscribed /\ gate.closed => gate'.frames = Append(gate.frames, f)
  <2>1. Append(gate.frames, f) \in Seq(PaneFrames)
      BY <1>1, <1>2
  <2> QED
      BY <1>4, <1>5, <2>1
<1>7. FlowTypes'
  <2>1. painted' \in Seq(Seq(Nat))
      BY <1>3, <1>5 DEF FlowInv, FlowTypes
  <2> QED
      BY <1>2, <1>5, <1>6, <2>1 DEF FlowInv, FlowTypes, session, coalescer
<1>8. FlowPhases'
  <2>1. pane = "none" => gate' = gate
      BY <1>5 DEF FlowInv, FlowPhases
  <2>2. pane = "answered" => painted' = painted
      BY <1>5 DEF FlowInv, FlowPhases
  <2> QED
      BY <1>5, <1>6, <2>1, <2>2 DEF FlowInv, FlowPhases, session, coalescer
<1>9. FlowCounts'
    BY <1>5 DEF FlowInv, FlowCounts, session, coalescer
<1>10. Flow'
  <2> SUFFICES ASSUME ~cut' PROVE Flow'
      BY DEF Flow
  <2>1. PICK n, g \in Nat : FlowAt(n, g)
      BY <1>5 DEF FlowInv, Flow, coalescer
  <2>2. sent \in Nat /\ Spans(stream, n, sent)
      BY <2>1 DEF FlowAt, FlowInv, FlowTypes
  <2>3. Numbered(f) /\ Start(f) = n /\ Spans(stream', f.seq, sent)
      BY <1>1, <1>2, <2>2, SpansHead DEF f
  <2>4. f.seq \in Nat /\ n + Len(f.data) = f.seq /\ \A k \in 1..Len(f.data) : f.data[k] = n + k
    <3>1. f.seq \in Nat /\ Len(f.data) \in Nat /\ Len(f.data) = f.seq - Start(f)
        BY <1>2, <2>3, FrameFacts
    <3>2. \A k \in 1..Len(f.data) : f.data[k] = Start(f) + k
        BY <2>3 DEF Numbered
    <3> QED
        BY <2>3, <3>1, <3>2
  <2>5. PICK e \in Nat : e = f.seq
      BY <2>4
  <2>6. ASSUME pane \in {"asked", "answered"}
        PROVE  /\ Spans(gate'.frames, g, f.seq)
               /\ snap # -1 => g <= snap
               /\ reply.kind # "none" => g <= reply.seq
    <3>1. gate'.frames = Append(gate.frames, f)
        BY <1>6, <2>6 DEF FlowInv, FlowPhases
    <3>2. Spans(gate.frames, g, n)
        BY <2>1, <2>6 DEF FlowAt
    <3>3. Spans(Append(gate.frames, f), g, f.seq)
        BY <1>1, <1>2, <2>3, <3>2, SpansAppend
    <3> QED
        BY <2>1, <2>6, <3>1, <3>3 DEF FlowAt
  <2>7. ASSUME pane = "open"
        PROVE  Gapless(painted') /\ (subscribed => \A c \in 1..f.seq : ShownIn(painted', c))
    <3>1. Gapless(painted) /\ (subscribed => \A c \in 1..n : ShownIn(painted, c))
        BY <2>1, <2>7 DEF FlowAt
    <3>2. CASE subscribed
      <4>1. painted' = Append(painted, f.data)
          BY <1>5, <2>7, <3>2 DEF FlowInv, FlowPhases
      <4>2. painted \in Seq(Seq(Nat))
          BY DEF FlowInv, FlowTypes
      <4> QED
          BY <1>3, <2>4, <3>1, <3>2, <4>1, <4>2, PaintPiece
    <3>3. CASE ~subscribed
        BY <1>5, <3>1, <3>3
    <3> QED
        BY <3>2, <3>3
  <2>8. FlowAt(e, g)'
      BY <1>5, <2>3, <2>6, <2>7, <2>5 DEF FlowAt, coalescer
  <2> QED
      BY <2>8 DEF Flow
<1> QED
    BY <1>7, <1>8, <1>9, <1>10 DEF FlowInv

\* An Exit frame takes no chunk with it.
LEMMA OnExitFlow == FlowInv /\ OnExit => FlowInv'
<1> SUFFICES ASSUME FlowInv, OnExit PROVE FlowInv'
    OBVIOUS
<1> DEFINE f == Head(stream)
<1>1. stream \in Seq(PaneFrames) /\ stream # <<>>
    BY DEF FlowInv, FlowTypes, OnExit
<1>2. f.kind = "exit" /\ stream' = Tail(stream) /\ Tail(stream) \in Seq(PaneFrames)
    BY <1>1 DEF OnExit
<1>3. gate \in [closed : BOOLEAN, frames : Seq(PaneFrames), exited : BOOLEAN]
    BY DEF FlowInv, FlowTypes
<1>4. /\ gate' = [gate EXCEPT !.exited = TRUE] \/ gate' = gate
      /\ subscribed' = subscribed \/ (subscribed' = FALSE /\ ~gate.closed)
      /\ UNCHANGED <<session, coalescer, snap, reply, pane, painted>>
    BY DEF OnExit
<1>5. /\ gate' \in [closed : BOOLEAN, frames : Seq(PaneFrames), exited : BOOLEAN]
      /\ gate'.closed = gate.closed /\ gate'.frames = gate.frames
    BY <1>3, <1>4
<1> HIDE DEF f
<1>6. FlowTypes'
    BY <1>2, <1>4, <1>5 DEF FlowInv, FlowTypes, session, coalescer
<1>7. FlowPhases'
    BY <1>4, <1>5 DEF FlowInv, FlowPhases, session, coalescer
<1>8. FlowCounts'
    BY <1>4 DEF FlowInv, FlowCounts, session, coalescer
<1>9. Flow'
  <2> SUFFICES ASSUME ~cut' PROVE Flow'
      BY DEF Flow
  <2>1. PICK n, g \in Nat : FlowAt(n, g)
      BY <1>4 DEF FlowInv, Flow, coalescer
  <2>2. sent \in Nat /\ Spans(stream, n, sent)
      BY <2>1 DEF FlowAt, FlowInv, FlowTypes
  <2>3. f \in PaneFrames /\ Numbered(f) /\ Start(f) = n /\ Spans(stream', f.seq, sent)
      BY <1>1, <1>2, <2>2, SpansHead DEF f
  <2>4. f.seq \in Nat /\ Len(f.data) = 0 /\ f.seq = n
    <3>1. f.data = <<>>
        BY <1>2, <2>3 DEF Numbered
    <3>2. f.seq \in Nat /\ Len(f.data) = f.seq - Start(f)
        BY <2>3, FrameFacts
    <3> QED
        BY <2>3, <3>1, <3>2
  <2>5. FlowAt(n, g)'
      BY <1>4, <1>5, <2>1, <2>3, <2>4 DEF FlowAt, coalescer
  <2> QED
      BY <2>5 DEF Flow
<1> QED
    BY <1>6, <1>7, <1>8, <1>9 DEF FlowInv

\* A closed pane has no subscription.
LEMMA ClosePaneFlow == FlowInv /\ ClosePane => FlowInv'
<1> SUFFICES ASSUME FlowInv, ClosePane PROVE FlowInv'
    OBVIOUS
<1>1. FlowTypes'
    BY DEF FlowInv, FlowTypes, ClosePane, session, coalescer
<1>2. FlowPhases'
    BY DEF FlowInv, FlowPhases, ClosePane, session, coalescer
<1>3. FlowCounts'
    BY DEF FlowInv, FlowCounts, ClosePane, session, coalescer
<1>4. Flow'
  <2> SUFFICES ASSUME ~cut' PROVE Flow'
      BY DEF Flow
  <2>1. PICK n, g \in Nat : FlowAt(n, g)
      BY DEF FlowInv, Flow, ClosePane, coalescer
  <2>2. FlowAt(n, g)'
      BY <2>1 DEF FlowAt, ClosePane, coalescer
  <2> QED
      BY <2>2 DEF Flow
<1> QED
    BY <1>1, <1>2, <1>3, <1>4 DEF FlowInv

\* Nothing in flight is missing: what the frames hold leads up to what is on the screen.
LEMMA FlowShows == FlowInv => NothingLost
<1> SUFFICES ASSUME FlowInv PROVE NothingLost
    OBVIOUS
<1>1. reader = "exited" => pend = <<>> /\ batch = <<>>
    BY DEF FlowInv, FlowPhases
<1>2. ASSUME pane = "open", ~cut
      PROVE  /\ \A i \in 1..Len(painted) : \A k \in 1..Len(painted[i]) :
                  painted[i][k] = 1 \/ ShownBefore(painted[i][k] - 1, i, k)
             /\ subscribed /\ reader = "idle" /\ flusher = "idle" /\ pend = <<>> /\ stream = <<>>
                  => \A c \in 1..made : Shown(c)
  <2>1. PICK n, g \in Nat : FlowAt(n, g)
      BY <1>2 DEF FlowInv, Flow
  <2>2. Gapless(painted) /\ (subscribed => \A c \in 1..n : ShownIn(painted, c))
      BY <1>2, <2>1 DEF FlowAt
  <2>3. ASSUME reader = "idle", flusher = "idle", pend = <<>>, stream = <<>>
        PROVE  n = made
    <3>1. sent \in Nat /\ made \in Nat /\ batch = <<>>
        BY <2>3 DEF FlowInv, FlowTypes, FlowPhases
    <3>2. sent + Len(batch) + Len(pend) = made
        BY <1>2, <2>3 DEF FlowInv, FlowCounts
    <3>3. sent = made
        BY <2>3, <3>1, <3>2
    <3>4. n <= sent /\ ~(n < sent)
      <4>1. Spans(<<>>, n, sent)
          BY <2>1, <2>3 DEF FlowAt
      <4>2. n < sent => n + 1 \in (n + 1)..sent
          BY <3>1
      <4> QED
          BY <4>1, <4>2 DEF Spans
    <3> QED
        BY <3>1, <3>3, <3>4
  <2>4. \A i \in 1..Len(painted) : \A k \in 1..Len(painted[i]) :
          painted[i][k] = 1 \/ ShownBefore(painted[i][k] - 1, i, k)
      BY <2>2 DEF Gapless, EarlierIn, ShownBefore
  <2> QED
      BY <2>2, <2>3, <2>4 DEF ShownIn, Shown
<1> QED
    BY <1>1, <1>2 DEF NothingLost

\* What a step does to the output in flight.
LEMMA StepKeepsFlowInv == ASSUME FlowInv, [PaneNext]_paneVars PROVE FlowInv'
<1>1. CASE PaneNext
    BY <1>1, TeeFlow, CountChunkFlow, PushFlow, FlusherDrainsFlow, FlusherEmitsFlow, FlusherEndsFlow,
       ReadEofFlow, EmitExitFlow, CreateFlow, AnswerNewFlow, SnapshotSeqFlow, SnapshotContentFlow,
       CreateFailsFlow, AnsweredFlow, OpenGateFlow, OnDataFlow, OnExitFlow, ClosePaneFlow DEF PaneNext
<1>2. CASE UNCHANGED paneVars
  <2>1. UNCHANGED <<session, coalescer, snap, reply, stream, host>>
      BY <1>2 DEF paneVars
  <2>2. Flow'
      BY <2>1, FlowQuiet DEF FlowInv, coalescer, host
  <2>3. FlowTypes' /\ FlowPhases' /\ FlowCounts'
      BY <2>1 DEF FlowInv, FlowTypes, FlowPhases, FlowCounts, session, coalescer, host
  <2> QED
      BY <2>2, <2>3 DEF FlowInv
<1> QED
    BY <1>1, <1>2

\* No output is lost on its way to the screen (pty.rs: "nothing is lost"), for any number
\* of chunks and any cap of the coalescer.
THEOREM NothingLostTheorem == PaneSpec => []NothingLost
<1> QED
    BY FlowInit, StepKeepsFlowInv, FlowShows, PTL DEF PaneSpec

-----------------------------------------------------------------------------
(* PaneHost: an exit that overtakes the reply                              *)

PaneTypes ==
  /\ registered \in BOOLEAN /\ overtaken \in BOOLEAN /\ known \in BOOLEAN
  /\ shell \in {"none", "live", "dead"}
  /\ pane \in {"none", "asked", "answered", "open", "closed", "failed"}

\* The Exit frame is the last of the stream, and the session is dead before it is sent.
ExitLast ==
  /\ \A i \in 1..Len(stream) : stream[i].kind = "exit" => i = Len(stream) /\ reader = "exited"
  /\ reader \in {"closing", "exited"} => shell = "dead"
  /\ reader # "idle" => shell # "none"

\* Until its exit is read, a session that this call did not spawn is in known_alive, and
\* so is any session once the call has been answered.
KnownAlive ==
  /\ snap # -1 \/ reply.kind # "none" => shell # "none"
  /\ shell # "none" /\ reply.kind # "new" => known \/ ExitDelivered
  /\ pane \in {"answered", "open", "closed"} => known \/ ExitDelivered

\* An exit that was read is recorded in the closed gate, where open_gate finds it, or has
\* taken the pane out of the registry; or it was too early; or nothing will be answered.
ExitRecorded ==
  /\ pane \in {"asked", "answered"} /\ ExitDelivered =>
       \/ gate.exited
       \/ overtaken /\ reply.kind = "new"
       \/ reply.kind = "none" /\ snap = -1
  /\ registered => pane = "open" /\ subscribed
  /\ registered /\ ExitDelivered => overtaken /\ reply.kind = "new"

PaneInv == PaneTypes /\ ExitLast /\ KnownAlive /\ ExitRecorded

\* An earlier session is in known_alive; nothing has ended.
LEMMA InitPaneInv == PaneInit => PaneInv
<1> SUFFICES ASSUME PaneInit PROVE PaneInv
    OBVIOUS
<1>1. /\ shell \in {"none", "live"} /\ reader = "idle" /\ snap = -1 /\ stream = <<>>
      /\ pane = "none" /\ registered = FALSE /\ overtaken = FALSE
    BY DEF PaneInit
<1>2. known = (shell = "live") /\ reply.kind = "none"
    BY DEF PaneInit, NoAnswer
<1>3. known \in BOOLEAN /\ (shell # "none" => known)
    BY <1>1, <1>2
<1>4. PaneTypes
    BY <1>1, <1>3 DEF PaneTypes
<1>5. Len(stream) = 0
    BY <1>1
<1>6. ExitLast
    BY <1>1, <1>5 DEF ExitLast
<1> QED
    BY <1>1, <1>2, <1>3, <1>4, <1>6 DEF PaneInv, KnownAlive, ExitRecorded

\* A step that leaves the stream and the reader's end alone neither sends nor reads an
\* exit.
LEMMA SameDelivered ==
    ASSUME UNCHANGED stream, reader' = "exited" <=> reader = "exited"
    PROVE  ExitDelivered' <=> ExitDelivered
BY DEF ExitDelivered

\* The daemon's threads send the Exit frame, and nothing behind it.
LEMMA DaemonKeepsPaneInv ==
    ASSUME PaneInv, FlowInv,
           Tee \/ CountChunk \/ Push \/ FlusherDrains \/ FlusherEmits \/ FlusherEnds \/ ReadEof
             \/ EmitExit
    PROVE  PaneInv'
<1> USE DEF PaneInv, PaneTypes
<1>1. UNCHANGED host /\ UNCHANGED <<snap, reply>>
    BY DEF Tee, CountChunk, Push, FlusherDrains, FlusherEmits, FlusherEnds, ReadEof, EmitExit
<1>2. UNCHANGED <<pane, subscribed, known, gate, registered, overtaken>>
    BY <1>1 DEF host
<1>3. shell' \in {"none", "live", "dead"} /\ (shell' = "none" <=> shell = "none")
    BY DEF Tee, CountChunk, Push, FlusherDrains, FlusherEmits, FlusherEnds, ReadEof, EmitExit, session
<1>4. CASE Tee \/ CountChunk \/ Push \/ FlusherDrains \/ FlusherEnds \/ ReadEof
  <2>1. UNCHANGED stream /\ (reader' = "exited" <=> reader = "exited")
      BY <1>4 DEF Tee, CountChunk, Push, FlusherDrains, FlusherEnds, ReadEof, session
  <2>2. /\ reader' \in {"closing", "exited"} => shell' = "dead"
        /\ reader' # "idle" => shell' # "none"
      BY <1>4 DEF ExitLast, Tee, CountChunk, Push, FlusherDrains, FlusherEnds, ReadEof, session
  <2>3. ExitDelivered' <=> ExitDelivered
      BY <2>1, SameDelivered
  <2>4. ExitLast'
      BY <2>1, <2>2 DEF ExitLast
  <2> QED
      BY <1>1, <1>2, <1>3, <2>3, <2>4 DEF KnownAlive, ExitRecorded
<1>5. CASE FlusherEmits
  <2>1. reader # "exited" /\ UNCHANGED <<shell, reader>>
      BY <1>5 DEF FlusherEmits, session, FlowInv, FlowPhases
  <2> DEFINE f == [kind |-> "data", seq |-> sent', data |-> batch]
  <2>2. stream' = Append(stream, f) /\ stream \in Seq(PaneFrames)
      BY <1>5 DEF FlusherEmits, FlowInv, FlowTypes
  <2>3. f.kind = "data" /\ f.kind # "exit"
      OBVIOUS
  <2> HIDE DEF f
  <2>4. \A i \in 1..Len(stream) : stream[i].kind # "exit"
      BY <2>1 DEF ExitLast
  <2>5. \A i \in 1..Len(stream') : stream'[i].kind # "exit"
      BY <2>2, <2>3, <2>4
  <2>6. ~ExitDelivered /\ ~ExitDelivered'
      BY <2>1 DEF ExitDelivered
  <2>7. ExitLast'
      BY <2>1, <2>5 DEF ExitLast
  <2> QED
      BY <1>1, <1>2, <1>3, <2>6, <2>7 DEF KnownAlive, ExitRecorded
<1>6. CASE EmitExit
  <2>1. reader = "closing" /\ reader' = "exited" /\ shell' = shell
      BY <1>6 DEF EmitExit
  <2> DEFINE f == [kind |-> "exit", seq |-> sent, data |-> <<>>]
  <2>2. stream' = Append(stream, f) /\ stream \in Seq(PaneFrames)
      BY <1>6 DEF EmitExit, FlowInv, FlowTypes
  <2>3. f.kind = "exit"
      OBVIOUS
  <2> HIDE DEF f
  <2>4. \A i \in 1..Len(stream) : stream[i].kind # "exit"
      BY <2>1 DEF ExitLast
  <2>5. \A i \in 1..Len(stream') : stream'[i].kind = "exit" => i = Len(stream')
      BY <2>2, <2>4
  <2>6. Len(stream') \in 1..Len(stream') /\ stream'[Len(stream')].kind = "exit"
      BY <2>2, <2>3
  <2>7. ~ExitDelivered /\ ~ExitDelivered'
      BY <2>1, <2>6 DEF ExitDelivered
  <2>8. ExitLast'
      BY <2>1, <2>5 DEF ExitLast
  <2> QED
      BY <1>1, <1>2, <1>3, <2>7, <2>8 DEF KnownAlive, ExitRecorded
<1> QED
    BY <1>4, <1>5, <1>6

\* A call is asked and answered; a dead session gives no new answer.
LEMMA CallKeepsPaneInv ==
    ASSUME PaneInv, FlowInv,
           Create \/ AnswerNew \/ SnapshotSeq \/ SnapshotContent \/ CreateFails \/ Answered
             \/ OpenGate \/ ClosePane
    PROVE  PaneInv'
<1> USE DEF PaneInv, PaneTypes
<1>1. UNCHANGED <<stream, reader>>
    BY DEF Create, AnswerNew, SnapshotSeq, SnapshotContent, CreateFails, Answered, OpenGate, ClosePane,
           session
<1>2. ExitDelivered' <=> ExitDelivered
    BY <1>1, SameDelivered
<1>3. ExitLast'
    BY <1>1 DEF ExitLast, Create, AnswerNew, SnapshotSeq, SnapshotContent, CreateFails, Answered, OpenGate,
           ClosePane, session
<1>4. ExitDelivered => shell = "dead"
    BY DEF ExitDelivered, ExitLast
<1> USE DEF KnownAlive, ExitRecorded
<1>5. CASE Create
  <2>1. snap = -1 /\ reply.kind = "none"
      BY <1>5 DEF Create, FlowInv, FlowPhases, NoAnswer
  <2> QED
      BY <1>2, <1>3, <1>5, <2>1 DEF Create, session
<1>6. CASE AnswerNew
  <2>1. shell' = "live" /\ shell = "none" /\ reply'.kind = "new" /\ pane = "asked"
      BY <1>6 DEF AnswerNew
  <2> QED
      BY <1>2, <1>3, <1>4, <1>6, <2>1 DEF AnswerNew, host
<1>7. CASE SnapshotSeq
  <2>1. shell = "live" /\ reply.kind = "none"
      BY <1>7 DEF SnapshotSeq, NoAnswer
  <2> QED
      BY <1>2, <1>3, <1>4, <1>7, <2>1 DEF SnapshotSeq, host, session
<1>8. CASE SnapshotContent
  <2>1. snap # -1 /\ reply.kind = "none" /\ reply'.kind = "warm"
      BY <1>8 DEF SnapshotContent, NoAnswer
  <2> QED
      BY <1>2, <1>3, <1>8, <2>1 DEF SnapshotContent, host, session
<1>9. CASE CreateFails
    BY <1>2, <1>3, <1>9 DEF CreateFails, session
<1>10. CASE Answered
    BY <1>2, <1>3, <1>10 DEF Answered, session
<1>11. CASE OpenGate
  <2>1. /\ pane = "answered" /\ pane' = "open" /\ registered' = ~gate.exited
        /\ subscribed' = (subscribed /\ ~gate.exited)
        /\ UNCHANGED <<session, snap, reply, known, overtaken>>
      BY <1>11 DEF OpenGate
  <2>2. subscribed /\ reply.kind # "none" /\ gate.exited \in BOOLEAN
      BY <2>1 DEF FlowInv, FlowPhases, FlowTypes
  <2> QED
      BY <1>2, <1>3, <2>1, <2>2 DEF session
<1>12. CASE ClosePane
    BY <1>2, <1>3, <1>12 DEF ClosePane, session
<1> QED
    BY <1>5, <1>6, <1>7, <1>8, <1>9, <1>10, <1>11, <1>12

\* A Data frame before the Exit frame changes nothing of it.
LEMMA OnDataKeepsPaneInv == ASSUME PaneInv, FlowInv, OnData PROVE PaneInv'
<1> USE DEF PaneInv, PaneTypes
<1>1. stream # <<>> /\ stream \in Seq(PaneFrames) /\ stream' = Tail(stream) /\ stream[1].kind = "data"
    BY DEF OnData, FlowInv, FlowTypes
<1>2. UNCHANGED <<session, snap, reply, pane, subscribed, known, registered, overtaken>>
    BY DEF OnData
<1>3. /\ Len(stream) \in Nat /\ Len(stream) >= 1 /\ Len(stream') = Len(stream) - 1
      /\ \A i \in 1..Len(stream') : i + 1 \in 1..Len(stream) /\ stream'[i] = stream[i + 1]
    BY <1>1
<1>4. ExitLast'
  <2>1. \A i \in 1..Len(stream') : stream'[i].kind = "exit" => i = Len(stream') /\ reader = "exited"
      BY <1>3 DEF ExitLast
  <2> QED
      BY <1>2, <2>1 DEF ExitLast, session
<1>5. ExitDelivered' <=> ExitDelivered
  <2>1. ASSUME ExitDelivered PROVE ExitDelivered'
    <3>1. \A i \in 1..Len(stream') : stream'[i].kind # "exit"
        BY <1>3, <2>1 DEF ExitDelivered
    <3> QED
        BY <1>2, <2>1, <3>1 DEF ExitDelivered, session
  <2>2. ASSUME ExitDelivered' PROVE ExitDelivered
    <3>1. ASSUME NEW i \in 1..Len(stream) PROVE stream[i].kind # "exit"
      <4>1. CASE i = 1
          BY <1>1, <4>1
      <4>2. CASE i # 1
        <5>1. i - 1 \in 1..Len(stream') /\ (i - 1) + 1 = i
            BY <1>3, <4>2
        <5>2. stream'[i - 1] = stream[i]
            BY <1>3, <5>1
        <5> QED
            BY <2>2, <5>1, <5>2 DEF ExitDelivered
      <4> QED
          BY <4>1, <4>2
    <3> QED
        BY <1>2, <2>2, <3>1 DEF ExitDelivered, session
  <2> QED
      BY <2>1, <2>2
<1>6. gate'.exited = gate.exited
    BY DEF OnData, FlowInv, FlowTypes
<1> QED
    BY <1>2, <1>4, <1>5, <1>6 DEF KnownAlive, ExitRecorded, session

\* The Exit frame of a session in known_alive is recorded, or ends the pane; only that of
\* a session this call spawned can come before the session is in there.
LEMMA OnExitKeepsPaneInv == ASSUME PaneInv, FlowInv, OnExit PROVE PaneInv'
<1> USE DEF PaneInv, PaneTypes
<1>1. stream # <<>> /\ stream \in Seq(PaneFrames) /\ stream' = Tail(stream) /\ stream[1].kind = "exit"
    BY DEF OnExit, FlowInv, FlowTypes
<1>2. UNCHANGED <<session, snap, reply, pane>> /\ known' = FALSE
    BY DEF OnExit
<1>3. 1 \in 1..Len(stream)
    BY <1>1
<1>4. Len(stream) = 1 /\ reader = "exited" /\ shell = "dead" /\ ~ExitDelivered
    BY <1>1, <1>3 DEF ExitLast, ExitDelivered
<1>5. Len(stream') = 0
    BY <1>1, <1>4
<1>6. ExitDelivered' /\ ExitLast'
    BY <1>2, <1>4, <1>5 DEF ExitDelivered, ExitLast, session
<1>7. overtaken' \in BOOLEAN /\ registered' \in BOOLEAN /\ (pane = "asked" => overtaken')
    BY DEF OnExit
<1>8. /\ pane \in {"asked", "answered"} => subscribed /\ gate.closed /\ ~registered
      /\ pane = "open" => ~gate.closed
      /\ gate \in [closed : BOOLEAN, frames : Seq(PaneFrames), exited : BOOLEAN]
    BY DEF FlowInv, FlowPhases, FlowTypes, ExitRecorded
<1>9. KnownAlive'
    BY <1>2, <1>6 DEF KnownAlive, session
<1>10. ASSUME pane \in {"asked", "answered"} PROVE ExitRecorded'
  <2>1. CASE known
    <3>1. gate' = [gate EXCEPT !.exited = TRUE] /\ registered' = registered
        BY <1>8, <1>10, <2>1 DEF OnExit
    <3>2. gate'.exited
        BY <1>8, <3>1
    <3> QED
        BY <1>2, <1>8, <1>10, <3>1, <3>2 DEF ExitRecorded
  <2>2. CASE ~known
    <3>1. reply.kind = "new" /\ pane = "asked" /\ registered' = registered
        BY <1>4, <1>10, <2>2 DEF KnownAlive, OnExit
    <3> QED
        BY <1>2, <1>7, <1>8, <3>1 DEF ExitRecorded
  <2> QED
      BY <2>1, <2>2
<1>11. ASSUME pane \notin {"asked", "answered"} PROVE ExitRecorded'
  <2>1. ~registered'
    <3>1. CASE registered
      <4>1. known /\ subscribed /\ ~gate.closed
          BY <1>4, <1>8, <3>1 DEF ExitRecorded, KnownAlive
      <4> QED
          BY <4>1 DEF OnExit
    <3>2. CASE ~registered
        BY <3>2 DEF OnExit
    <3> QED
        BY <3>1, <3>2
  <2> QED
      BY <1>2, <1>11, <2>1 DEF ExitRecorded
<1> QED
    BY <1>2, <1>4, <1>6, <1>7, <1>9, <1>10, <1>11 DEF session

LEMMA StepKeepsPaneInv == ASSUME PaneInv, FlowInv, [PaneNext]_paneVars PROVE PaneInv'
<1>1. CASE UNCHANGED paneVars
  <2>1. UNCHANGED <<session, snap, reply, stream, host>>
      BY <1>1 DEF paneVars
  <2>2. ExitDelivered' <=> ExitDelivered
      BY <2>1 DEF ExitDelivered, session
  <2> QED
      BY <2>1, <2>2 DEF PaneInv, PaneTypes, ExitLast, KnownAlive, ExitRecorded, session, host
<1> QED
    BY <1>1, DaemonKeepsPaneInv, CallKeepsPaneInv, OnDataKeepsPaneInv, OnExitKeepsPaneInv DEF PaneNext

\* ExitedNotRegistered: a pane whose session's Exit frame was read is not in the registry
\* once create is done, also when the exit came before open_gate and was only recorded;
\* a session spawned by the same call excepted if its exit came before the answer.
THEOREM ExitedNotRegisteredTheorem == PaneSpec => []ExitedNotRegistered
<1>1. PaneInv => ExitedNotRegistered
    BY DEF PaneInv, ExitRecorded, ExitedNotRegistered
<1> QED
    BY InitPaneInv, FlowInit, StepKeepsFlowInv, StepKeepsPaneInv, <1>1, PTL DEF PaneSpec

-----------------------------------------------------------------------------
(* AgentStatus: whose badge it is, and what it says                        *)

Phases == {"running", "attention", "idle"}
Terminals == AgentPanes \cup {"tmux", "none"}
Claim == [id : Nat, pid : Pids, start : Nat, phase : Phases, at : Nat]
HookEvent == [claim : Nat, pane : AgentPanes \cup {"none"}, kind : Kinds, at : Nat]

AgentTypes ==
  /\ starts \in Nat /\ minted \in Nat /\ clock \in Nat
  /\ procs \in [Pids -> [start : Nat, stat : {"none", "run", "stop", "zombie"}, tty : Terminals]]
  /\ env \in [Pids -> [pane : AgentPanes \cup {"none"}, claim : Nat]]
  /\ asking \subseteq [pid : Pids, start : Nat, pane : AgentPanes]
  /\ claims \in [AgentPanes -> SUBSET Claim]
  /\ events \subseteq HookEvent /\ delivered \subseteq HookEvent

\* Start times, claim ids and hook times are given out once, in increasing order.
GivenOut ==
  /\ \A p \in Pids : /\ procs[p].start <= starts /\ env[p].claim <= minted
                     /\ Lives(p) => procs[p].start > 0
  /\ \A r \in asking : r.start \in 1..starts
  /\ \A s \in AgentPanes : \A c \in claims[s] : c.id \in 1..minted /\ c.start \in 1..starts
  /\ \A e \in events \cup delivered : e.claim <= minted /\ e.at \in 1..clock

\* While the process that made a claim is there, it is on the claimed pane's terminal.
OnOwnTerminal ==
  \A s \in AgentPanes : \A c \in claims[s] :
    procs[c.pid].start = c.start => procs[c.pid].tty = s

\* A claim id is used with the key of the pane that holds the claim.
OwnKey ==
  /\ \A r \in asking : procs[r.pid].start = r.start => env[r.pid].pane = r.pane
  /\ \A s \in AgentPanes : \A c \in claims[s] :
       /\ \A p \in Pids : env[p].claim = c.id => env[p].pane = s
       /\ \A e \in events : e.claim = c.id => e.pane = s

\* A claim's fence is the time of an event that arrived for it, none that arrived is
\* newer, and the phase is that event's.
Fenced ==
  \A s \in AgentPanes : \A c \in claims[s] :
    /\ c.at = 0 \/ \E f \in delivered : f.claim = c.id /\ f.at = c.at
    /\ \A e \in delivered : e.claim = c.id =>
         /\ e.at <= c.at
         /\ e.at = c.at /\ MapEvent(e.kind) # "unknown" => c.phase = MapEvent(e.kind)

OneAtATime == \A e, f \in events \cup delivered : e.at = f.at => e = f

AgentInv == AgentTypes /\ GivenOut /\ OnOwnTerminal /\ OwnKey /\ Fenced /\ OneAtATime

\* Nothing runs, nothing is claimed.
LEMMA InitAgentInv == AgentInit => AgentInv
<1> SUFFICES ASSUME AgentInit PROVE AgentInv OBVIOUS
<1>1. AgentTypes BY DEF AgentInit, AgentTypes, NoProcess, Terminals
<1>2. GivenOut BY <1>1 DEF AgentInit, AgentTypes, GivenOut, NoProcess, Lives
<1> QED BY <1>1, <1>2 DEF AgentInit, AgentInv, OnOwnTerminal, OwnKey, Fenced, OneAtATime

\* A process starts, moves or is reaped: no start time comes back with its pid.
LEMMA ProcessKeepsAgentInv ==
  ASSUME AgentInv, NEW p \in Pids,
         \/ \E s \in AgentPanes, t \in Terminals : StartAgent(p, s, t)
         \/ ProcessMoves(p)
  PROVE  AgentInv'
<1> USE DEF AgentInv
<1>1. ASSUME NEW s \in AgentPanes, NEW t \in Terminals, StartAgent(p, s, t) PROVE AgentInv'
  <2>1. /\ starts' = starts + 1
        /\ procs' = [procs EXCEPT ![p] = [start |-> starts + 1, stat |-> "run", tty |-> t]]
        /\ env' = [env EXCEPT ![p] = [pane |-> s, claim |-> 0]]
        /\ asking' = asking \cup {[pid |-> p, start |-> starts + 1, pane |-> s]}
        /\ UNCHANGED <<claims, events, delivered, clock, minted>>
        BY <1>1 DEF StartAgent, PeerClaim
  <2>2. AgentTypes' BY <2>1 DEF AgentTypes
  <2>3. GivenOut' BY <2>1 DEF GivenOut, AgentTypes, Lives
  <2>4. OnOwnTerminal' BY <2>1 DEF OnOwnTerminal, GivenOut, AgentTypes, Claim
  <2>5. OwnKey'
    <3>1. \A r \in asking' : procs'[r.pid].start = r.start => env'[r.pid].pane = r.pane
          BY <2>1 DEF OwnKey, GivenOut, AgentTypes
    <3>2. ASSUME NEW z \in AgentPanes, NEW c \in claims[z], NEW q \in Pids, env'[q].claim = c.id
          PROVE  env'[q].pane = z
          BY <2>1, <3>2 DEF OwnKey, AgentTypes, Claim, GivenOut
    <3> QED BY <2>1, <3>1, <3>2 DEF OwnKey
  <2>6. Fenced' /\ OneAtATime' BY <2>1 DEF Fenced, OneAtATime
  <2> QED BY <2>2, <2>3, <2>4, <2>5, <2>6
<1>2. CASE ProcessMoves(p)
  <2>1. /\ UNCHANGED <<env, asking, claims, events, delivered, clock, starts, minted>>
        /\ \/ \E x \in {"run", "stop", "zombie"} : procs' = [procs EXCEPT ![p].stat = x] /\ Lives(p)
           \/ procs' = [procs EXCEPT ![p] = NoProcess]
        BY <1>2 DEF ProcessMoves, Lives
  <2>2. /\ procs' \in [Pids -> [start : Nat, stat : {"none", "run", "stop", "zombie"}, tty : Terminals]]
        /\ \A q \in Pids : \/ procs'[q].start = procs[q].start /\ procs'[q].tty = procs[q].tty
                           \/ procs'[q].start = 0
        /\ \A q \in Pids : Lives(q)' => procs'[q].start > 0
    <3>1. CASE procs' = [procs EXCEPT ![p] = NoProcess]
          BY <3>1 DEF AgentTypes, GivenOut, Lives, NoProcess, Terminals
    <3>2. ASSUME NEW x \in {"run", "stop", "zombie"}, procs' = [procs EXCEPT ![p].stat = x], Lives(p)
          PROVE  /\ procs' \in [Pids -> [start : Nat, stat : {"none", "run", "stop", "zombie"}, tty : Terminals]]
                 /\ \A q \in Pids : procs'[q].start = procs[q].start /\ procs'[q].tty = procs[q].tty
                 /\ \A q \in Pids : Lives(q)' => procs'[q].start > 0
          BY <3>2 DEF AgentTypes, GivenOut, Lives
    <3> QED BY <2>1, <3>1, <3>2
  <2>3. AgentTypes' BY <2>1, <2>2 DEF AgentTypes
  <2>4. GivenOut' BY <2>1, <2>2 DEF GivenOut, AgentTypes
  <2>5. OnOwnTerminal' BY <2>1, <2>2 DEF OnOwnTerminal, GivenOut, AgentTypes, Claim
  <2>6. OwnKey' BY <2>1, <2>2 DEF OwnKey, GivenOut, AgentTypes
  <2>7. Fenced' /\ OneAtATime' BY <2>1 DEF Fenced, OneAtATime
  <2> QED BY <2>3, <2>4, <2>5, <2>6, <2>7
<1> QED BY <1>1, <1>2

\* A hook reads the clock: its event is newer than all before it, and carries the key of
\* the claim's pane.
LEMMA HookKeepsAgentInv ==
  ASSUME AgentInv, NEW p \in Pids, NEW k \in Kinds, FireHook(p, k) PROVE AgentInv'
<1> USE DEF AgentInv
<1> DEFINE e == [claim |-> env[p].claim, pane |-> env[p].pane, kind |-> k, at |-> clock + 1]
<1>1. /\ clock' = clock + 1 /\ events' = events \cup {e}
      /\ UNCHANGED <<procs, env, asking, claims, delivered, starts, minted>>
      BY DEF FireHook
<1>2. e \in HookEvent /\ e.claim <= minted /\ e.claim = env[p].claim /\ e.pane = env[p].pane
      BY DEF AgentTypes, GivenOut, HookEvent
<1>3. e.at = clock + 1 OBVIOUS
<1> HIDE DEF e
<1>4. AgentTypes' BY <1>1, <1>2 DEF AgentTypes
<1>5. GivenOut' BY <1>1, <1>2, <1>3 DEF AgentTypes, GivenOut, Lives
<1>6. OnOwnTerminal' /\ Fenced' BY <1>1 DEF OnOwnTerminal, Fenced
<1>7. OwnKey' BY <1>1, <1>2 DEF OwnKey
<1>8. OneAtATime'
  <2>1. \A f \in events \cup delivered : f.at # e.at BY <1>3 DEF GivenOut, AgentTypes
  <2> QED BY <1>1, <2>1 DEF OneAtATime
<1> QED BY <1>4, <1>5, <1>6, <1>7, <1>8

\* A claim is admitted on its own terminal, under an id nobody has seen, and its launcher
\* learns the id only while it is still the process that asked.
LEMMA ClaimKeepsAgentInv == ASSUME AgentInv, NEW r \in asking, HandleClaim(r) PROVE AgentInv'
<1> USE DEF AgentInv
<1>0. r.pid \in Pids /\ r.pane \in AgentPanes BY DEF AgentTypes
<1>1. CASE ~Admits(r)
  <2>1. asking' \subseteq asking /\ UNCHANGED <<procs, env, claims, events, delivered, clock, starts, minted>>
        BY <1>1 DEF HandleClaim
  <2>2. AgentTypes' BY <2>1 DEF AgentTypes
  <2>3. GivenOut' BY <2>1 DEF GivenOut, Lives
  <2>4. OwnKey' BY <2>1 DEF OwnKey
  <2> QED BY <2>1, <2>2, <2>3, <2>4 DEF OnOwnTerminal, Fenced, OneAtATime
<1>2. CASE Admits(r)
  <2> DEFINE new == [id |-> minted + 1, pid |-> r.pid, start |-> procs[r.pid].start,
                     phase |-> "idle", at |-> 0]
  <2>1. /\ asking' = asking \ {r} /\ minted' = minted + 1
        /\ claims' = [claims EXCEPT ![r.pane] = RecordClaim(@, new)]
        /\ UNCHANGED <<procs, events, delivered, clock, starts>>
        BY <1>2 DEF HandleClaim
  <2>2. \/ env' = env
        \/ env' = [env EXCEPT ![r.pid].claim = minted + 1] /\ procs[r.pid].start = r.start
        BY <1>2 DEF HandleClaim
  <2>3. /\ new \in Claim /\ new.id = minted + 1 /\ new.start = procs[r.pid].start /\ new.pid = r.pid
        /\ new.at = 0 /\ new.start \in 1..starts
        BY <1>0, <1>2 DEF AgentTypes, GivenOut, Claim, Phases, Admits
  <2>4. /\ claims' \in [AgentPanes -> SUBSET Claim]
        /\ \A s \in AgentPanes : \A c \in claims'[s] : c \in claims[s] \/ (s = r.pane /\ c = new)
        BY <1>0, <2>1, <2>3 DEF AgentTypes, RecordClaim, Prune
  <2> HIDE DEF new
  <2>5. /\ env' \in [Pids -> [pane : AgentPanes \cup {"none"}, claim : Nat]]
        /\ \A p \in Pids : env'[p].pane = env[p].pane
        /\ \A p \in Pids : \/ env'[p].claim = env[p].claim
                           \/ env'[p].claim = minted + 1 /\ env[p].pane = r.pane
    <3>1. CASE env' = env BY <3>1 DEF AgentTypes
    <3>2. CASE env' = [env EXCEPT ![r.pid].claim = minted + 1] /\ procs[r.pid].start = r.start
      <4>1. env[r.pid].pane = r.pane BY <3>2 DEF OwnKey
      <4> QED BY <1>0, <3>2, <4>1 DEF AgentTypes
    <3> QED BY <2>2, <3>1, <3>2
  <2>6. AgentTypes' BY <2>1, <2>4, <2>5 DEF AgentTypes
  <2>7. GivenOut'
    <3>1. \A p \in Pids : /\ procs'[p].start <= starts' /\ env'[p].claim <= minted'
                          /\ Lives(p)' => procs'[p].start > 0
          BY <2>1, <2>5 DEF GivenOut, AgentTypes, Lives
    <3>2. \A s \in AgentPanes : \A c \in claims'[s] : c.id \in 1..minted' /\ c.start \in 1..starts'
          BY <2>1, <2>3, <2>4 DEF GivenOut, AgentTypes, Claim
    <3>3. \A x \in events \cup delivered : x.claim <= minted'
          BY <2>1 DEF GivenOut, AgentTypes, HookEvent
    <3> QED BY <2>1, <3>1, <3>2, <3>3 DEF GivenOut
  <2>8. OnOwnTerminal'
    <3>1. procs[new.pid].tty = r.pane BY <1>2, <2>3 DEF Admits
    <3> QED BY <2>1, <2>4, <3>1 DEF OnOwnTerminal
  <2>9. OwnKey'
    <3>1. ASSUME NEW s \in AgentPanes, NEW c \in claims'[s], NEW p \in Pids, env'[p].claim = c.id
          PROVE  env'[p].pane = s
      <4>1. CASE c = new
        <5>1. s = r.pane \/ c \in claims[s] BY <2>4
        <5>2. c \notin claims[s] BY <2>3, <4>1 DEF GivenOut, AgentTypes
        <5>3. env[p].claim # minted + 1 BY DEF GivenOut, AgentTypes
        <5> QED BY <2>3, <2>5, <3>1, <4>1, <5>1, <5>2, <5>3
      <4>2. CASE c \in claims[s] /\ c # new
        <5>1. c.id # minted + 1 BY <4>2 DEF GivenOut, AgentTypes, Claim
        <5> QED BY <2>5, <3>1, <4>2, <5>1 DEF OwnKey
      <4> QED BY <2>4, <4>1, <4>2
    <3>2. ASSUME NEW s \in AgentPanes, NEW c \in claims'[s], NEW x \in events, x.claim = c.id
          PROVE  x.pane = s
      <4>1. x.claim # minted + 1 BY DEF GivenOut, AgentTypes, HookEvent
      <4> QED BY <2>3, <2>4, <3>2, <4>1 DEF OwnKey
    <3>3. \A q \in asking' : procs'[q.pid].start = q.start => env'[q.pid].pane = q.pane
      <4>1. \A q \in asking' : q \in asking /\ q.pid \in Pids BY <2>1 DEF AgentTypes
      <4> QED BY <2>1, <2>5, <4>1 DEF OwnKey
    <3> QED BY <2>1, <3>1, <3>2, <3>3 DEF OwnKey
  <2>10. Fenced'
    <3>1. \A x \in delivered : x.claim # new.id BY <2>3 DEF GivenOut, AgentTypes, HookEvent
    <3> QED BY <2>1, <2>3, <2>4, <3>1 DEF Fenced
  <2>11. OneAtATime' BY <2>1 DEF OneAtATime
  <2> QED BY <2>6, <2>7, <2>8, <2>9, <2>10, <2>11
<1> QED BY <1>1, <1>2

\* What an event does to a claim: nothing, or the fence moves up to it and the phase
\* with it.
LEMMA ApplyFences ==
  ASSUME NEW c \in Claim, NEW e \in HookEvent
  PROVE  /\ Apply(c, e) \in Claim
         /\ Apply(c, e).id = c.id /\ Apply(c, e).pid = c.pid /\ Apply(c, e).start = c.start
         /\ c.id # e.claim \/ e.at <= c.at => Apply(c, e) = c
         /\ c.id = e.claim /\ e.at > c.at =>
              /\ Apply(c, e).at = e.at
              /\ MapEvent(e.kind) # "unknown" => Apply(c, e).phase = MapEvent(e.kind)
<1>1. MapEvent(e.kind) \in Phases \cup {"unknown"} BY DEF HookEvent, Kinds, MapEvent, Phases
<1> DEFINE ph == IF MapEvent(e.kind) = "unknown" THEN c.phase ELSE MapEvent(e.kind)
           moved == [c EXCEPT !.at = e.at, !.phase = ph]
<1>2. c = [id |-> c.id, pid |-> c.pid, start |-> c.start, phase |-> c.phase, at |-> c.at]
      BY DEF Claim
<1>3. ph \in Phases BY <1>1 DEF Claim
<1>4. Apply(c, e) = IF c.id # e.claim \/ e.at <= c.at THEN c ELSE moved BY <1>2 DEF Apply
<1> HIDE DEF ph
<1>5. /\ moved \in Claim /\ moved.id = c.id /\ moved.pid = c.pid /\ moved.start = c.start
      /\ moved.at = e.at /\ moved.phase = ph
      BY <1>3 DEF Claim, HookEvent
<1>6. MapEvent(e.kind) # "unknown" => ph = MapEvent(e.kind) BY DEF ph
<1> HIDE DEF moved
<1> QED BY <1>4, <1>5, <1>6 DEF Claim, HookEvent

\* A late event does not move the fence back, and one of another pane's claim finds
\* nothing to move.
LEMMA EventKeepsAgentInv ==
  ASSUME AgentInv, NEW e \in events, HandleEvent(e) \/ LoseEvent(e) PROVE AgentInv'
<1> USE DEF AgentInv
<1>1. CASE LoseEvent(e)
  <2>1. events' \subseteq events /\ UNCHANGED <<procs, env, asking, claims, delivered, clock, starts, minted>>
        BY <1>1 DEF LoseEvent
  <2>2. AgentTypes' BY <2>1 DEF AgentTypes
  <2>3. GivenOut' BY <2>1 DEF GivenOut, Lives
  <2>4. OwnKey' BY <2>1 DEF OwnKey
  <2>5. OneAtATime' BY <2>1 DEF OneAtATime
  <2> QED BY <2>1, <2>2, <2>3, <2>4, <2>5 DEF OnOwnTerminal, Fenced
<1>2. CASE HandleEvent(e)
  <2>1. /\ events' = events \ {e} /\ delivered' = delivered \cup {e}
        /\ claims' = [claims EXCEPT ![e.pane] = {Apply(c, e) : c \in @}]
        /\ UNCHANGED <<procs, env, asking, clock, starts, minted>>
        BY <1>2 DEF HandleEvent
  <2>2. e \in HookEvent BY DEF AgentTypes
  <2>3. \A s \in AgentPanes : \A d \in claims'[s] : \E c \in claims[s] : d = Apply(c, e)
    <3> SUFFICES ASSUME NEW s \in AgentPanes, NEW d \in claims'[s]
                 PROVE  \E c \in claims[s] : d = Apply(c, e)
        OBVIOUS
    <3>1. CASE s = e.pane BY <2>1, <3>1 DEF AgentTypes
    <3>2. CASE s # e.pane
      <4>1. d \in claims[s] BY <2>1, <3>2 DEF AgentTypes
      <4>2. d \in Claim BY <4>1 DEF AgentTypes
      <4>3. Apply(d, e) = d BY <2>2, <3>2, <4>1, <4>2, ApplyFences DEF OwnKey
      <4> QED BY <4>1, <4>3
    <3> QED BY <3>1, <3>2
  <2>4. \A s \in AgentPanes : claims[s] \subseteq Claim BY DEF AgentTypes
  <2>5. AgentTypes'
    <3>1. \A s \in AgentPanes : claims'[s] \subseteq Claim BY <2>2, <2>3, <2>4, ApplyFences
    <3>2. claims' \in [AgentPanes -> SUBSET Claim] BY <2>1, <3>1 DEF AgentTypes
    <3> QED BY <2>1, <3>2 DEF AgentTypes
  <2>6. GivenOut'
    <3>1. \A s \in AgentPanes : \A d \in claims'[s] : d.id \in 1..minted /\ d.start \in 1..starts
          BY <2>2, <2>3, <2>4, ApplyFences DEF GivenOut
    <3> QED BY <2>1, <3>1 DEF GivenOut, Lives
  <2>7. OnOwnTerminal' BY <2>1, <2>2, <2>3, <2>4, ApplyFences DEF OnOwnTerminal
  <2>8. OwnKey' BY <2>1, <2>2, <2>3, <2>4, ApplyFences DEF OwnKey
  <2>9. Fenced'
    <3> SUFFICES ASSUME NEW s \in AgentPanes, NEW d \in claims'[s]
                 PROVE  /\ d.at = 0 \/ \E f \in delivered' : f.claim = d.id /\ f.at = d.at
                        /\ \A x \in delivered' : x.claim = d.id =>
                             /\ x.at <= d.at
                             /\ x.at = d.at /\ MapEvent(x.kind) # "unknown" => d.phase = MapEvent(x.kind)
        BY DEF Fenced
    <3>1. PICK c \in claims[s] : d = Apply(c, e) BY <2>3
    <3>2. c \in Claim /\ d.id = c.id BY <2>2, <2>4, <3>1, ApplyFences
    <3>3. CASE c.id = e.claim /\ e.at > c.at
      <4>1. d.at = e.at /\ (MapEvent(e.kind) # "unknown" => d.phase = MapEvent(e.kind))
            BY <2>2, <3>1, <3>2, <3>3, ApplyFences
      <4>2. \A x \in delivered : x.claim = d.id => x.at < e.at
            BY <2>2, <3>2, <3>3 DEF Fenced, AgentTypes, HookEvent, Claim
      <4> QED BY <2>1, <2>2, <3>2, <3>3, <4>1, <4>2 DEF HookEvent, AgentTypes
    <3>4. CASE c.id = e.claim /\ e.at <= c.at
      <4>1. d = c BY <2>2, <3>1, <3>2, <3>4, ApplyFences
      <4>2. e.at = c.at => e \in delivered
        <5> HAVE e.at = c.at
        <5>1. e.at > 0 BY DEF GivenOut, AgentTypes
        <5>2. PICK f \in delivered : f.at = c.at BY <5>1 DEF Fenced
        <5> QED BY <5>2 DEF OneAtATime
      <4> QED BY <2>1, <3>4, <4>1, <4>2 DEF Fenced
    <3>5. CASE c.id # e.claim
      <4>1. d = c BY <2>2, <3>1, <3>2, <3>5, ApplyFences
      <4> QED BY <2>1, <3>5, <4>1 DEF Fenced
    <3> QED BY <2>2, <3>2, <3>3, <3>4, <3>5 DEF HookEvent, Claim
  <2>10. OneAtATime' BY <2>1 DEF OneAtATime
  <2> QED BY <2>5, <2>6, <2>7, <2>8, <2>9, <2>10
<1> QED BY <1>1, <1>2

\* Every step keeps the invariant.
LEMMA StepKeepsAgentInv == ASSUME AgentInv, [AgentNext]_agentVars PROVE AgentInv'
<1>1. ASSUME NEW p \in Pids, NEW s \in AgentPanes, NEW t \in Terminals, StartAgent(p, s, t)
      PROVE  AgentInv'
      BY <1>1, ProcessKeepsAgentInv
<1>2. ASSUME NEW p \in Pids, ProcessMoves(p) PROVE AgentInv' BY <1>2, ProcessKeepsAgentInv
<1>3. CASE PollBells \/ UNCHANGED agentVars
  <2>1. UNCHANGED <<procs, env, asking, claims, events, delivered, clock, starts, minted>>
        BY <1>3 DEF PollBells, agentVars
  <2> QED BY <2>1 DEF AgentInv, AgentTypes, GivenOut, Lives, OnOwnTerminal, OwnKey, Fenced, OneAtATime
<1> QED BY <1>1, <1>2, <1>3, HookKeepsAgentInv, ClaimKeepsAgentInv, EventKeepsAgentInv
        DEF AgentNext, Terminals

\* NewestEventShows: whatever the order the hooks' events arrive in, and however many do
\* not, a claim's phase is that of the newest that did.
THEOREM NewestEventShowsTheorem == AgentSpec => []NewestEventShows
<1>1. ASSUME AgentInv PROVE NewestEventShows
  <2> SUFFICES ASSUME NEW s \in AgentPanes, NEW c \in claims[s],
                      NEW e \in delivered, e.claim = c.id, MapEvent(e.kind) # "unknown",
                      \A f \in delivered : f.claim = c.id => f.at <= e.at
               PROVE  c.phase = MapEvent(e.kind)
      BY DEF NewestEventShows
  <2>1. e.at > 0 /\ e.at <= c.at BY <1>1 DEF AgentInv, GivenOut, AgentTypes, Fenced
  <2>2. c.at = 0 \/ c.at <= e.at BY <1>1 DEF AgentInv, Fenced
  <2>3. c.at \in Nat /\ e.at \in Nat BY <1>1 DEF AgentInv, AgentTypes, Claim, HookEvent
  <2>4. e.at = c.at BY <2>1, <2>2, <2>3
  <2> QED BY <1>1, <2>4 DEF AgentInv, Fenced
<1> QED BY InitAgentInv, StepKeepsAgentInv, <1>1, PTL DEF AgentSpec

\* Among claims there is a newest one.
LEMMA NewestExists ==
  ASSUME AgentInv, NEW s \in AgentPanes, NEW L \in SUBSET claims[s], L # {}
  PROVE  \E c \in L : \A d \in L : d.id <= c.id
<1> DEFINE T == {minted - c.id : c \in L}
<1>1. \A c \in L : c.id \in Nat /\ c.id <= minted /\ minted \in Nat
      BY DEF AgentInv, AgentTypes, GivenOut, Claim
<1>2. T \subseteq Nat /\ T # {} BY <1>1
<1>3. PICK x \in T : \A y \in T : ~(<<y, x>> \in OpToRel(<, Nat))
      BY <1>2, WFMin, NatLessThanWellFounded
<1>4. \A y \in T : ~(y < x) BY <1>2, <1>3 DEF OpToRel
<1>5. PICK c \in L : x = minted - c.id OBVIOUS
<1>6. \A d \in L : ~(minted - d.id < minted - c.id) BY <1>4, <1>5
<1> HIDE DEF T
<1>7. \A d \in L : d.id <= c.id BY <1>1, <1>6
<1> QED BY <1>7

\* BadgeIsReal: a badge that changes shows a claim of a process that lives, is the one
\* that made the claim, and is on the terminal of the pane that wears the badge.
THEOREM BadgeIsRealTheorem == AgentSpec => BadgeIsReal
<1>1. ASSUME AgentInv, [AgentNext]_agentVars PROVE BadgesReal
  <2> SUFFICES ASSUME badge' # badge, NEW s \in AgentPanes, badge'[s] # "none"
               PROVE  \E c \in claims[s] :
                        /\ Lives(c.pid) /\ procs[c.pid].start = c.start /\ procs[c.pid].tty = s
                        /\ badge'[s] # "idle" => procs[c.pid].stat = "run"
      BY DEF BadgesReal, ShowsReal
  <2>1. PollBells
        BY <1>1 DEF AgentNext, agentVars, StartAgent, ProcessMoves, FireHook, HandleClaim, HandleEvent,
                    LoseEvent
  <2>2. badge'[s] = Resolve(s) BY <2>1 DEF PollBells, Bells
  <2> DEFINE live == {c \in claims[s] : Confirms(c)}
             newest == CHOOSE c \in live : \A d \in live : d.id <= c.id
  <2>3. live # {} BY <2>2 DEF Resolve
  <2>4. newest \in live BY <1>1, <2>3, NewestExists
  <2>5. badge'[s] # "idle" => procs[newest.pid].stat # "stop" BY <2>2, <2>3 DEF Resolve
  <2> HIDE DEF newest
  <2>6. Lives(newest.pid) /\ procs[newest.pid].start = newest.start BY <2>4 DEF Confirms
  <2>7. procs[newest.pid].tty = s BY <1>1, <2>4, <2>6 DEF AgentInv, OnOwnTerminal
  <2> QED BY <2>4, <2>5, <2>6, <2>7 DEF Lives
<1>2. AgentInv /\ [AgentNext]_agentVars => [BadgesReal]_agentVars BY <1>1
<1> QED BY InitAgentInv, StepKeepsAgentInv, <1>2, PTL DEF AgentSpec, BadgeIsReal

=============================================================================
