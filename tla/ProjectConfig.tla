--------------------------- MODULE ProjectConfig ---------------------------
(***************************************************************************)
(* config.json and the project directories (config.rs, git_project.rs).    *)
(* Every command loads the file, changes its copy and writes it back,      *)
(* without a lock: commands run on a thread pool and overlap.  A save      *)
(* truncates the file and then writes it, so a load in between reads the   *)
(* default configuration, and two overlapping saves may leave a file that  *)
(* no longer parses.  Reconciling drops projects whose directory is gone   *)
(* and adds directories that are not listed.                               *)
(*                                                                         *)
(* A URL determines its directory; several spellings of one repository     *)
(* share one.  Of an entry only what identifies it is kept: its settings   *)
(* and its category, which a command copies in, and the preferences beside *)
(* the entries are left out, but not the loads and saves they cause.       *)
(***************************************************************************)
EXTENDS Integers, Sequences, FiniteSets

CONSTANTS Urls, Folders, FolderOf, Clients, MaxIds

ASSUME ConfigAssumption ==
  /\ IsFiniteSet(Folders) /\ FolderOf \in [Urls -> Folders]
  /\ MaxIds \in Nat

VARIABLES
  conf,        \* the projects of config.json, as a load reads them: none when it does not parse
  repo,        \* repo[f]: "none", or the origin URL of the repository in f
  cloning,     \* folders whose repository is still being cloned
  nextId,      \* the next fresh project id
  cmd,         \* cmd[c]: the command thread c executes
  wrote        \* threads between truncation and write behind whose back another one wrote

configVars == <<conf, repo, cloning, nextId, cmd, wrote>>

Default == <<>>
NoCommand == [op |-> "none", at |-> "idle", url |-> "none", id |-> 0, dir |-> "none", mine |-> Default]

ConfigInit ==
  /\ conf = Default
  /\ repo = [f \in Folders |-> "none"] /\ cloning = {}
  /\ nextId = 1 /\ cmd = [c \in Clients |-> NoCommand] /\ wrote = {}

Doing(c, op, at) == cmd[c].op = op /\ cmd[c].at = at
Then(c, at) == cmd' = [cmd EXCEPT ![c].at = at]
Done(c) == cmd' = [cmd EXCEPT ![c] = NoCommand]
Edited(c, new, at) == cmd' = [cmd EXCEPT ![c].at = at, ![c].mine = new]

\* The copy is of no further use.
Leaves(c, op, at) == cmd' = [cmd EXCEPT ![c].op = op, ![c].at = at, ![c].mine = Default]

\* The command's last save; its arguments are of no further use.
Saving(c, new) == cmd' = [cmd EXCEPT ![c] = [NoCommand EXCEPT !.op = "saving", !.at = "save", !.mine = new]]

Entry(u, id) == [id |-> id, url |-> u, dir |-> FolderOf[u]]

\* The members of a set in a row, in any order, or numbers in their own.
Orders(S) == {f \in [1..Cardinality(S) -> S] : \A i, j \in DOMAIN f : i # j => f[i] # f[j]}
Ascending(I) == {f \in Orders(I) : \A i, j \in DOMAIN f : i < j => f[i] < f[j]}

\* The entries at these places.
Picked(es, at) == [i \in DOMAIN at |-> es[at[i]]]

-----------------------------------------------------------------------------
(* Loading, reconciling, saving                                            *)

Reconciling == {"list", "clone", "create", "register", "reorder", "setcat", "delcat"}

Command(c, op, url, id) ==
  /\ cmd[c].at = "idle"
  /\ cmd' = [cmd EXCEPT ![c] = [NoCommand EXCEPT !.op = op, !.at = "load", !.url = url, !.id = id]]
  /\ UNCHANGED <<conf, repo, cloning, nextId, wrote>>

\* What cannot be read or parsed is the default.
LoadConfig(c) ==
  /\ cmd[c].at = "load"
  /\ Edited(c, conf,
            IF cmd[c].op \in Reconciling THEN "reconcile" ELSE "go")
  /\ UNCHANGED <<conf, repo, cloning, nextId, wrote>>

\* Mutant: an entry is known by its URL alone.
SameProjectByUrl(e, u) == e.url = u

\* find_matching_project: by directory or by URL.
SameProject(e, u) == e.dir = FolderOf[u] \/ e.url = u

\* Where the listed directories that exist are, the first entry of each.
KeptAt(es) ==
  {i \in 1..Len(es) : repo[es[i].dir] # "none" /\ \A j \in 1..(i - 1) : ~SameProject(es[j], es[i].url)}

\* Directories with a repository that nobody lists yet.
Unlisted(es) ==
  {f \in Folders : repo[f] # "none" /\ \A i \in 1..Len(es) : es[i].dir # f /\ es[i].url # repo[f]}

\* reconcile_project_entries: each of them becomes an entry with a new id.
Rediscovered(fs) == [i \in DOMAIN fs |-> [id |-> nextId + i - 1, url |-> repo[fs[i]], dir |-> fs[i]]]

\* load_reconciled_config: it saves what it changed, and whenever a category was stale.
Reconcile(c) ==
  /\ cmd[c].at = "reconcile"
  /\ \E at \in Ascending(KeptAt(cmd[c].mine)) :
       LET kept == Picked(cmd[c].mine, at) IN
       \E fs \in Orders(Unlisted(kept)) :
         LET found == Rediscovered(fs) IN
         /\ nextId + Len(found) <= MaxIds + 1
         /\ nextId' = nextId + Len(found)
         /\ \/ Edited(c, kept \o found, "first save")
            \/ kept \o found = cmd[c].mine /\ Then(c, "go")
  /\ UNCHANGED <<conf, repo, cloning, wrote>>

\* fs::write: open and truncate ...
SaveTruncates(c) ==
  /\ cmd[c].at \in {"first save", "save"}
  /\ conf' = Default /\ wrote' = wrote \ {c}
  /\ Then(c, IF cmd[c].at = "save" THEN "write" ELSE "first write")
  /\ UNCHANGED <<repo, cloning, nextId>>

\* ... and write.  Over what another thread wrote since, a longer tail may remain.
SaveWrites(c) ==
  /\ cmd[c].at \in {"first write", "write"}
  /\ conf' \in {cmd[c].mine} \cup (IF c \in wrote THEN {Default} ELSE {})
  /\ wrote' = (wrote \cup {d \in Clients : cmd[d].at \in {"first write", "write"}}) \ {c}
  /\ IF cmd[c].at = "write" THEN Done(c) ELSE Then(c, "go")
  /\ UNCHANGED <<repo, cloning, nextId>>

\* The application ends; a save may be half done.
AppEnds ==
  /\ \E c \in Clients : cmd[c].at # "idle"
  /\ cmd' = [c \in Clients |-> NoCommand] /\ wrote' = {} /\ cloning' = {}
  /\ UNCHANGED <<conf, repo, nextId>>

-----------------------------------------------------------------------------
(* The commands                                                            *)

Matches(c) == \E i \in 1..Len(cmd[c].mine) : SameProject(cmd[c].mine[i], cmd[c].url)

Found(c) == \E i \in 1..Len(cmd[c].mine) : cmd[c].mine[i].id = cmd[c].id

\* Nothing left to do: list_projects, a project that is already listed, an entry that
\* is not found.
NothingToDo(c) ==
  /\ cmd[c].at = "go" /\ cmd[c].dir = "none"
  /\ \/ cmd[c].op = "list"
     \/ cmd[c].op \in {"clone", "create", "register"} /\ Matches(c)
     \/ cmd[c].op \in {"edit", "remove", "setcat"} /\ ~Found(c)
     \/ cmd[c].op \in {"setcat", "delcat"}  \* no such category
  /\ Done(c)
  /\ UNCHANGED <<conf, repo, cloning, nextId, wrote>>

\* recover_existing_project: the directory is there without an entry; register it.
RecoverExisting(c) ==
  /\ cmd[c].op \in {"clone", "create"} /\ cmd[c].at = "go" /\ ~Matches(c)
  /\ repo[FolderOf[cmd[c].url]] # "none"
  /\ cmd' = [cmd EXCEPT ![c].op = "register", ![c].at = "load", ![c].mine = Default,
                        ![c].url = repo[FolderOf[cmd[c].url]]]
  /\ UNCHANGED <<conf, repo, cloning, nextId, wrote>>

\* add_project and start_clone, run_clone: git clone, with the directories made before.
CloneStarts(c) ==
  /\ Doing(c, "clone", "go") /\ ~Matches(c) /\ repo[FolderOf[cmd[c].url]] = "none"
  /\ Leaves(c, "clone", "clone")
  /\ UNCHANGED <<conf, repo, cloning, nextId, wrote>>

\* git creates the repository with its remote, and fetches.
CloneCreates(c) ==
  /\ Doing(c, "clone", "clone") /\ repo[FolderOf[cmd[c].url]] = "none"
  /\ repo' = [repo EXCEPT ![FolderOf[cmd[c].url]] = cmd[c].url]
  /\ cloning' = cloning \cup {FolderOf[cmd[c].url]}
  /\ Then(c, "fetch")
  /\ UNCHANGED <<conf, nextId, wrote>>

\* The clone is complete: register_project_entry, with a load of its own.
CloneEnds(c) ==
  /\ Doing(c, "clone", "fetch")
  /\ cloning' = cloning \ {FolderOf[cmd[c].url]}
  /\ Leaves(c, "register", "load")
  /\ UNCHANGED <<conf, repo, nextId, wrote>>

\* It fails, also because the directory is no longer empty: the project's directory
\* is removed.
CloneFails(c) ==
  /\ cmd[c].op = "clone" /\ cmd[c].at \in {"clone", "fetch"}
  /\ cmd[c].at = "clone" \/ FolderOf[cmd[c].url] \in cloning
  /\ repo' = [repo EXCEPT ![FolderOf[cmd[c].url]] = "none"]
  /\ cloning' = cloning \ {FolderOf[cmd[c].url]}
  /\ Done(c)
  /\ UNCHANGED <<conf, nextId, wrote>>

\* create_project: git init, remote, first commit; a step that fails leaves the rest.
CreateSource(c, ok) ==
  /\ Doing(c, "create", "go") /\ ~Matches(c) /\ repo[FolderOf[cmd[c].url]] = "none"
  /\ repo' = [repo EXCEPT ![FolderOf[cmd[c].url]] = cmd[c].url]
  /\ IF ok THEN Leaves(c, "register", "load") ELSE Done(c)
  /\ UNCHANGED <<conf, cloning, nextId, wrote>>

Register(c) ==
  /\ Doing(c, "register", "go") /\ ~Matches(c) /\ nextId <= MaxIds
  /\ Saving(c, Append(cmd[c].mine, Entry(cmd[c].url, nextId)))
  /\ nextId' = nextId + 1
  /\ UNCHANGED <<conf, repo, cloning, wrote>>

\* remove_project: the entry is saved away before the directory goes.
RemoveEntry(c) ==
  /\ Doing(c, "remove", "go") /\ cmd[c].dir = "none"
  /\ \E i \in 1..Len(cmd[c].mine) :
       /\ cmd[c].mine[i].id = cmd[c].id
       /\ \E at \in Ascending((1..Len(cmd[c].mine)) \ {i}) :
            cmd' = [cmd EXCEPT ![c].at = "first save", ![c].dir = cmd[c].mine[i].dir,
                               ![c].mine = Picked(@, at)]
  /\ UNCHANGED <<conf, repo, cloning, nextId, wrote>>

RemoveFolder(c) ==
  /\ Doing(c, "remove", "go") /\ cmd[c].dir \in Folders
  /\ repo' = [repo EXCEPT ![cmd[c].dir] = "none"] /\ cloning' = cloning \ {cmd[c].dir}
  /\ Done(c)
  /\ UNCHANGED <<conf, nextId, wrote>>

\* The settings of one entry: collapsed, focused, name, worktree order, base branch,
\* environment files.  The copy is saved as it was loaded, that field apart.
EditEntry(c) ==
  /\ Doing(c, "edit", "go") /\ Found(c)
  /\ Saving(c, cmd[c].mine)
  /\ UNCHANGED <<conf, repo, cloning, nextId, wrote>>

\* reorder_projects: the ids that were given, each once, then the others.
Reorder(c) ==
  /\ Doing(c, "reorder", "go")
  /\ \E at \in Orders(1..Len(cmd[c].mine)) : Saving(c, Picked(cmd[c].mine, at))
  /\ UNCHANGED <<conf, repo, cloning, nextId, wrote>>

\* set_project_category, for a category that exists or the default.
SetCategory(c) ==
  /\ Doing(c, "setcat", "go") /\ Found(c)
  /\ Saving(c, cmd[c].mine)
  /\ UNCHANGED <<conf, repo, cloning, nextId, wrote>>

\* delete_project_category: no entry keeps it.
DeleteCategory(c) ==
  /\ Doing(c, "delcat", "go")
  /\ Saving(c, cmd[c].mine)
  /\ UNCHANGED <<conf, repo, cloning, nextId, wrote>>

\* save_app_config, save_grove_preferences: the projects stay as loaded.
SavePreferences(c) ==
  /\ Doing(c, "prefs", "go")
  /\ Saving(c, cmd[c].mine)
  /\ UNCHANGED <<conf, repo, cloning, nextId, wrote>>

ConfigNext ==
  \/ \E c \in Clients :
       \/ \E u \in Urls, op \in {"clone", "create"} : Command(c, op, u, 0)
       \/ \E i \in 1..(nextId - 1), op \in {"edit", "remove", "setcat"} : Command(c, op, "none", i)
       \/ \E op \in {"list", "reorder", "prefs", "delcat"} : Command(c, op, "none", 0)
       \/ LoadConfig(c) \/ Reconcile(c) \/ SaveTruncates(c) \/ SaveWrites(c)
       \/ NothingToDo(c) \/ RecoverExisting(c)
       \/ CloneStarts(c) \/ CloneCreates(c) \/ CloneEnds(c) \/ CloneFails(c)
       \/ \E ok \in BOOLEAN : CreateSource(c, ok)
       \/ Register(c) \/ RemoveEntry(c) \/ RemoveFolder(c)
       \/ EditEntry(c) \/ Reorder(c) \/ SetCategory(c) \/ DeleteCategory(c) \/ SavePreferences(c)
  \/ AppEnds

ConfigSpec == ConfigInit /\ [][ConfigNext]_configVars

-----------------------------------------------------------------------------
(* Properties                                                              *)

\* However commands overlap, and whatever half-written file they load, no directory
\* and no id is listed twice: two sidebar entries would delete each other's worktrees.
OneEntryPerSource ==
  \A i, j \in 1..Len(conf) :
    i # j => conf[i].dir # conf[j].dir /\ conf[i].id # conf[j].id

-----------------------------------------------------------------------------
(* Not kept by the code: TLC finds a counterexample, and no run checks it. *)

\* A listed project's repository is taken away only by removing the project.
ListedKeepsRepo ==
  [][\A i \in 1..Len(conf) :
       LET f == conf[i].dir
       IN repo[f] # "none" /\ f \notin cloning /\ repo'[f] = "none"
            => \E c \in Clients : cmd[c].op = "remove"]_configVars
=============================================================================
