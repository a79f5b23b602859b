------------------------------ MODULE Missions ------------------------------
(***************************************************************************)
(* Missions (mission.rs): missions.json, the mission directories and the   *)
(* worktrees in them, under concurrent commands of one application.        *)
(* Mutations hold the store's write lock from their load to their save,    *)
(* across slow git calls; load_missions reads, and sweeps directories,     *)
(* without it.  A save is one step: it renames a complete file.            *)
(*                                                                         *)
(* A worktree is its mission and project.  Names and the collapsed flag    *)
(* are left out.  The terminals, layouts and snapshots that the lifecycle  *)
(* cleanup drops are those of TerminalGc and PaneHost.                     *)
(***************************************************************************)
EXTENDS Integers, FiniteSets

CONSTANTS MissionIds, Projects, Callers,
          Later     \* projects that are registered only later

ASSUME MissionAssumption == Later \subseteq Projects /\ "free" \notin Callers

VARIABLES
  store,      \* missions.json: [ids, members]
  mdirs,      \* missions that have a directory
  mtrees,     \* worktree directories, as <<mission, project>>
  gitTrees, gitBranches,  \* what the projects' repositories know of them
  custom,     \* missions with a branch name of their own
  known,      \* project ids in config.json
  lock,       \* the holder of the write lock, or "free"
  job,        \* job[c]: the command c executes
  owed,       \* what successful calls have promised and nobody has since withdrawn
  stripped    \* what a list took out that had not seen its project in config.json

disk == <<mdirs, mtrees, gitTrees, gitBranches>>
missionVars == <<store, disk, custom, known, lock, job, owed, stripped>>

Empty == [ids |-> {}, members |-> {}]
Asked(op, m, p, at, mine, seen, missed) ==
  [op |-> op, m |-> m, p |-> p, at |-> at, mine |-> mine, seen |-> seen, missed |-> missed]
Resting == Asked("none", "none", "none", "idle", Empty, {}, {})
Of(m, S) == {x \in S : x[1] = m}
Drop(m, s) == [ids |-> s.ids \ {m}, members |-> s.members \ Of(m, s.members)]

MissionInit ==
  /\ store = Empty /\ mdirs = {} /\ mtrees = {} /\ gitTrees = {} /\ gitBranches = {}
  /\ custom = {} /\ known = Projects \ Later
  /\ lock = "free" /\ job = [c \in Callers |-> Resting] /\ owed = Empty /\ stripped = {}

To(c, at, mine) == job' = [job EXCEPT ![c].at = at, ![c].mine = mine]
At(c, op, at) == job[c].op = op /\ job[c].at = at
Me(c) == <<job[c].m, job[c].p>>

\* A mutation returns: its guard goes out of scope.
Unlock(c) == lock' = "free" /\ job' = [job EXCEPT ![c] = Resting]

-----------------------------------------------------------------------------
(* Commands                                                                *)

\* What a call needs and does not find ends it, with nothing changed.  An add also ends
\* so when it meets a config.json that is cut short.
Rejected(op, m, p) ==
  \/ op # "create" /\ m \notin store.ids
  \/ op = "add" /\ (<<m, p>> \in store.members \/ p \notin known)
  \/ op = "remove" /\ <<m, p>> \notin store.members

\* A mutation starts with lock_mission_store_writes, then loads the store.  A removal
\* withdraws the promise.
LockAndLoad(c, op, m, p) ==
  /\ job[c] = Resting /\ lock = "free" /\ ~Rejected(op, m, p)
  /\ lock' = c
  /\ job' = [job EXCEPT ![c] = Asked(op, m, p, IF op = "collapse" THEN "save" ELSE "loaded",
                                      store, {}, {})]
  /\ owed' = CASE op = "delete" -> Drop(m, owed)
               [] op = "remove" -> [owed EXCEPT !.members = @ \ {<<m, p>>}]
               [] OTHER -> owed
  /\ UNCHANGED <<store, disk, custom, known, stripped>>

\* create_mission: an id neither stored nor on disk, and its directory.
CreateDir(c, own) ==
  /\ At(c, "create", "loaded") /\ job[c].m \notin store.ids \cup mdirs
  /\ mdirs' = mdirs \cup {job[c].m}
  /\ custom' = IF own THEN custom \cup {job[c].m} ELSE custom \ {job[c].m}
  /\ To(c, "save", [job[c].mine EXCEPT !.ids = @ \cup {job[c].m}])
  /\ UNCHANGED <<store, mtrees, gitTrees, gitBranches, known, lock, owed, stripped>>

\* The random id is taken: the loop draws another (here: the call starts over).
CreateRetries(c) ==
  /\ At(c, "create", "loaded") /\ job[c].m \in store.ids \cup mdirs
  /\ Unlock(c)
  /\ UNCHANGED <<store, disk, custom, known, owed, stripped>>

\* git worktree add refuses a directory that exists or is registered, and a mission's
\* own branch name must be new.
AddTree(c) ==
  /\ At(c, "add", "loaded")
  /\ Me(c) \notin mtrees \cup gitTrees
  /\ job[c].m \in custom => Me(c) \notin gitBranches
  /\ mdirs' = mdirs \cup {job[c].m} /\ mtrees' = mtrees \cup {Me(c)}
  /\ gitTrees' = gitTrees \cup {Me(c)} /\ gitBranches' = gitBranches \cup {Me(c)}
  /\ To(c, "save", [job[c].mine EXCEPT !.members = @ \cup {Me(c)}])
  /\ UNCHANGED <<store, custom, known, lock, owed, stripped>>

\* It refuses, or any git call fails; the mission's directory was made before it.
AddFails(c) ==
  /\ At(c, "add", "loaded")
  /\ Unlock(c) /\ mdirs' \in {mdirs, mdirs \cup {job[c].m}}
  /\ UNCHANGED <<store, mtrees, gitTrees, gitBranches, custom, known, owed, stripped>>

\* remove_project_from_mission: the repository, if the project is found in config.json,
\* forgets worktree and branch, and the directory goes; each may fail, unnoticed.
ForgetTree(m, p) ==
  /\ mtrees' \in {mtrees, mtrees \ {<<m, p>>}}
  /\ \/ UNCHANGED <<gitTrees, gitBranches>>
     \/ /\ p \in known
        /\ mtrees' = mtrees \ {<<m, p>>} /\ gitTrees' = gitTrees \ {<<m, p>>}
        /\ gitBranches' \in {gitBranches, gitBranches \ {<<m, p>>}}

RemoveTree(c) ==
  /\ At(c, "remove", "loaded")
  /\ ForgetTree(job[c].m, job[c].p)
  /\ To(c, "save", [job[c].mine EXCEPT !.members = @ \ {Me(c)}])
  /\ UNCHANGED <<store, mdirs, custom, known, lock, owed, stripped>>

\* delete_mission removes the projects one by one, each with a save of its own ...
DeleteTree(c, p) ==
  /\ At(c, "delete", "loaded") /\ <<job[c].m, p>> \in job[c].mine.members
  /\ ForgetTree(job[c].m, p)
  /\ store' = [store EXCEPT !.members = @ \ {<<job[c].m, p>>}]
  /\ To(c, "loaded", [job[c].mine EXCEPT !.members = @ \ {<<job[c].m, p>>}])
  /\ UNCHANGED <<mdirs, custom, known, lock, owed, stripped>>

\* ... one of which may fail, with the worktree already gone ...
DeleteFails(c, p) ==
  /\ At(c, "delete", "loaded") /\ <<job[c].m, p>> \in job[c].mine.members
  /\ ForgetTree(job[c].m, p)
  /\ Unlock(c)
  /\ UNCHANGED <<store, mdirs, custom, known, owed, stripped>>

\* ... then the directory, and loads the store again for the last save.
DeleteDir(c) ==
  /\ At(c, "delete", "loaded") /\ Of(job[c].m, job[c].mine.members) = {}
  /\ mdirs' = mdirs \ {job[c].m} /\ mtrees' = mtrees \ Of(job[c].m, mtrees)
  /\ To(c, "save", Drop(job[c].m, store))
  /\ UNCHANGED <<store, gitTrees, gitBranches, custom, known, lock, owed, stripped>>

Promise(c) ==
  CASE job[c].op = "create" -> [owed EXCEPT !.ids = @ \cup {job[c].m}]
    [] job[c].op = "add" /\ job[c].p \in known -> [owed EXCEPT !.members = @ \cup {Me(c)}]
    [] OTHER -> owed

Save(c) ==
  /\ job[c].at = "save"
  /\ store' = job[c].mine
  /\ owed' = Promise(c)
  /\ stripped' = IF job[c].op = "add" THEN stripped \ {Me(c)} ELSE stripped
  /\ Unlock(c)
  /\ UNCHANGED <<disk, custom, known>>

SaveFails(c) ==
  /\ job[c].at = "save"
  /\ Unlock(c)
  /\ UNCHANGED <<store, disk, custom, known, owed, stripped>>

-----------------------------------------------------------------------------
(* load_missions                                                           *)

\* It reads the configured projects, and finds none while config.json is cut short by
\* somebody's save; then, without the lock, the store ...
ReadProjects(c) ==
  /\ job[c] = Resting
  /\ \E seen \in {known, {}} :
       job' = [job EXCEPT ![c] = Asked("list", "none", "none", "projects", Empty, seen, known \ seen)]
  /\ UNCHANGED <<store, disk, custom, known, lock, owed, stripped>>

ReadStore(c) ==
  /\ At(c, "list", "projects")
  /\ To(c, "read", store)
  /\ UNCHANGED <<store, disk, custom, known, lock, owed, stripped>>

\* What load_missions takes out of a store: projects it did not see in config.json.
Orphans(c, s) == {x \in s.members : x[2] \notin job[c].seen}
Reconciled(c, s) == [s EXCEPT !.members = @ \ Orphans(c, s)]

\* ... and reconcile_missions removes the directories the store it read does not know.
SweepDirs(s) ==
  /\ mdirs' = mdirs \cap s.ids
  /\ mtrees' = {x \in mtrees : x[1] \in s.ids}

ReconcileUnlocked(c) ==
  /\ At(c, "list", "read")
  /\ SweepDirs(job[c].mine)
  /\ IF Orphans(c, job[c].mine) = {} THEN job' = [job EXCEPT ![c] = Resting] ELSE To(c, "changed", job[c].mine)
  /\ UNCHANGED <<store, gitTrees, gitBranches, custom, known, lock, owed, stripped>>

\* An orphan was found: everything again, now under the lock, from the projects that
\* were read at the start and a fresh copy of the store.
LockForCleanup(c) ==
  /\ At(c, "list", "changed") /\ lock = "free"
  /\ lock' = c
  /\ To(c, "reread", job[c].mine)
  /\ UNCHANGED <<store, disk, custom, known, owed, stripped>>

\* A failing save is ignored.
ReconcileFrom(c, fresh) ==
  /\ At(c, "list", "reread")
  /\ SweepDirs(fresh)
  /\ \/ UNCHANGED <<store, stripped>>
     \/ /\ store' = Reconciled(c, fresh)
        /\ stripped' = stripped \cup {x \in Orphans(c, fresh) : x[2] \in job[c].missed}
  /\ Unlock(c)
  /\ UNCHANGED <<gitTrees, gitBranches, custom, known, owed>>

\* Mutant: what was read without the lock is what is saved under it.
ReconcileStale(c) == ReconcileFrom(c, job[c].mine)

ReconcileLocked(c) == ReconcileFrom(c, store)

-----------------------------------------------------------------------------
(* Around it                                                               *)

\* remove_project: the id leaves config.json, and the repository is deleted.
ForgetProject(p) ==
  /\ p \in known
  /\ known' = known \ {p}
  /\ gitTrees' = {x \in gitTrees : x[2] # p} /\ gitBranches' = {x \in gitBranches : x[2] # p}
  /\ owed' = [owed EXCEPT !.members = {x \in @ : x[2] # p}]
  /\ UNCHANGED <<store, mdirs, mtrees, custom, lock, job, stripped>>

RegisterProject(p) ==
  /\ p \in Later \ known
  /\ known' = known \cup {p}
  /\ job' = [c \in Callers |-> IF job[c].op = "list"
                               THEN [job[c] EXCEPT !.missed = @ \cup {p}] ELSE job[c]]
  /\ UNCHANGED <<store, disk, custom, lock, owed, stripped>>

\* The application ends, whatever it was doing.
Quit ==
  /\ \E c \in Callers : job[c] # Resting
  /\ job' = [c \in Callers |-> Resting] /\ lock' = "free"
  /\ UNCHANGED <<store, disk, custom, known, owed, stripped>>

MissionNext ==
  \/ \E c \in Callers :
       \/ \E m \in MissionIds, p \in Projects, op \in {"add", "remove"} : LockAndLoad(c, op, m, p)
       \/ \E m \in MissionIds, op \in {"create", "delete", "collapse"} : LockAndLoad(c, op, m, "none")
       \/ \E own \in BOOLEAN : CreateDir(c, own)
       \/ CreateRetries(c) \/ AddTree(c) \/ AddFails(c) \/ RemoveTree(c)
       \/ \E p \in Projects : DeleteTree(c, p) \/ DeleteFails(c, p)
       \/ DeleteDir(c) \/ Save(c) \/ SaveFails(c)
       \/ ReadProjects(c) \/ ReadStore(c) \/ ReconcileUnlocked(c) \/ LockForCleanup(c) \/ ReconcileLocked(c)
  \/ \E p \in Projects : ForgetProject(p) \/ RegisterProject(p)
  \/ Quit

MissionSpec == MissionInit /\ [][MissionNext]_missionVars

-----------------------------------------------------------------------------
(* Properties                                                              *)

\* A mission that was created and a project that was added stay in missions.json until
\* somebody removes them, whatever commands overlap and wherever the application ends.
\* What a list takes out is the exception: members of a project that it had not seen in
\* config.json, cut short at that moment or not yet holding the project.
MissionsKept == owed.ids \subseteq store.ids /\ owed.members \subseteq store.members \cup stripped

\* They also keep their directory (mission.rs: "Reads are safe without the lock
\* because saves are atomic").
MissionDirsKept == owed.ids \subseteq mdirs

-----------------------------------------------------------------------------
(* Not kept by the code: TLC finds a counterexample, and no run checks it. *)

\* The cleanup under the lock leaves alone what an add has committed since the read
\* without it (mission.rs: "this cleanup cannot clobber a project a concurrent add
\* committed between our unlocked read above and this save").
CleanupSparesAdds ==
  [][\A c \in Callers : At(c, "list", "reread") =>
       (owed.members \cap store.members) \ job[c].mine.members \subseteq store'.members]_missionVars
=============================================================================
