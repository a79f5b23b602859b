----------------------------- MODULE TerminalGc -----------------------------
(***************************************************************************)
(* run_terminal_gc (pty.rs, daemon/gc.rs) against everything that goes on  *)
(* while it runs: panes are opened and closed, sessions end, worktree      *)
(* directories come and go, another app connects.  The collector reads the *)
(* layouts, the registry, the daemon's client gauge, its session list, the *)
(* directories, the history folders, the directories again and the layouts *)
(* again, each in a step of its own, and acts on the copies.               *)
(*                                                                         *)
(* A session id is `grove-{hash of the worktree}-{pane}', so its worktree  *)
(* is WtOf; a pane's id is new for every pane, its session may have been   *)
(* opened before.  The wording of the report and of the log is left out,   *)
(* and the layout files of the worktrees and of the panels are one.        *)
(***************************************************************************)
EXTENDS Integers, Sequences, FiniteSets

CONSTANTS Worktrees, GcSessions, Panes,
          WtOf,    \* session -> worktree
          SessOf   \* pane -> session

ASSUME GcAssumption ==
  WtOf \in [GcSessions -> Worktrees] /\ SessOf \in [Panes -> GcSessions]

VARIABLES
  dirs,       \* worktree directories that exist
  layouts,    \* sessions whose pane a saved layout or snapshot names
  daemon,     \* sessions the daemon knows
  trees,      \* sessions with a process left
  hist,       \* hist[s]: the history folder: "none", "young" or "old"
  opened,     \* opened[p]: "no", "answered" (by createOrAttach) or "done" (create returned)
  attached,   \* panes whose session has lived on since
  registry,   \* panes in the registry
  otherApp,   \* a second app is connected
  reopened,   \* sessions opened in a folder they found, since the daemon was asked
  gc          \* the collector: where it is and what it has read

gcEnv == <<dirs, layouts, daemon, trees, hist, opened, attached, registry, otherApp, reopened>>
gcVars == <<gcEnv, gc>>

Idle == [at |-> "idle", refs |-> {}, panes |-> {}, known |-> {}, stale |-> {}, kill |-> {},
         roots |-> {}, folders |-> {}, exist |-> {}]

GcInit ==
  /\ dirs = Worktrees /\ layouts \in SUBSET GcSessions /\ daemon = {} /\ trees = {}
  /\ hist \in [GcSessions -> {"none", "old"}]
  /\ opened = [p \in Panes |-> "no"] /\ attached = {} /\ registry = {}
  /\ otherApp = FALSE /\ reopened = {} /\ gc = Idle

-----------------------------------------------------------------------------
(* What goes on meanwhile                                                  *)

\* createOrAttach answers: the session lives on, or is spawned.  A new one makes its
\* history folder; in one that is there, which is that of a pane a layout names, it goes
\* on, and a cold restore leaves the folder as old as it was.
OpenPane(p) ==
  LET s == SessOf[p]
      found == s \notin daemon /\ hist[s] # "none" IN
  /\ opened[p] = "no" /\ WtOf[s] \in dirs
  /\ found => s \in layouts
  /\ opened' = [opened EXCEPT ![p] = "answered"] /\ attached' = attached \cup {p}
  /\ daemon' = daemon \cup {s} /\ trees' = trees \cup {s}
  /\ \/ hist' = [hist EXCEPT ![s] = "young"] /\ s \notin daemon
     \/ hist' = hist /\ (s \in daemon \/ found)
  /\ reopened' = IF found THEN reopened \cup {s} ELSE reopened
  /\ UNCHANGED <<dirs, layouts, registry, otherApp, gc>>

\* A checkpoint of a live session renames a file into its folder.
Checkpointed(s) ==
  /\ s \in daemon /\ hist[s] = "old"
  /\ hist' = [hist EXCEPT ![s] = "young"]
  /\ UNCHANGED <<dirs, layouts, daemon, trees, opened, attached, registry, otherApp, reopened, gc>>

\* ... and only then is the pane registered, and the window saves its layout; unless the
\* session has ended and its exit came first.
RegisterPane(p) ==
  /\ opened[p] = "answered" /\ opened' = [opened EXCEPT ![p] = "done"]
  /\ \/ registry' = registry \cup {p} /\ layouts' = layouts \cup {SessOf[p]}
     \/ p \notin attached /\ UNCHANGED <<registry, layouts>>
  /\ UNCHANGED <<dirs, daemon, trees, hist, attached, otherApp, reopened, gc>>

Ends(s) ==
  /\ daemon' = daemon \ {s}
  /\ attached' = {p \in attached : SessOf[p] # s}

\* A shell ends by itself: its history is closed cleanly, its pane may not hear of it,
\* a detached child may outlive it.
SessionEnds(s) ==
  /\ s \in daemon
  /\ Ends(s)
  /\ hist' = [hist EXCEPT ![s] = "none"]
  /\ trees' \in {trees, trees \ {s}}
  /\ UNCHANGED <<dirs, layouts, opened, registry, otherApp, reopened, gc>>

\* close: the session is killed, whatever becomes of that the pane is gone.
GcClosePane(p) ==
  LET s == SessOf[p] IN
  /\ p \in registry
  /\ registry' = registry \ {p} /\ layouts' = layouts \ {s}
  /\ \/ /\ Ends(s) /\ trees' \in {trees, trees \ {s}}
        /\ hist' = IF s \in daemon THEN [hist EXCEPT ![s] = "none"] ELSE hist
     \/ UNCHANGED <<daemon, attached, hist, trees>>
  /\ UNCHANGED <<dirs, opened, otherApp, reopened, gc>>

\* The daemon dies: every session with it, the history folders stay.
DaemonEnds ==
  /\ daemon # {} /\ daemon' = {} /\ attached' = {} /\ trees' = {}
  /\ UNCHANGED <<dirs, layouts, hist, opened, registry, otherApp, reopened, gc>>

\* The exit reaches the pane.
ExitArrives(p) ==
  /\ p \in registry \ attached
  /\ registry' = registry \ {p}
  /\ UNCHANGED <<dirs, layouts, daemon, trees, hist, opened, attached, otherApp, reopened, gc>>

\* A directory is unmounted, or removed with git; or it is back.
DirToggles(w) ==
  /\ dirs' = IF w \in dirs THEN dirs \ {w} ELSE dirs \cup {w}
  /\ UNCHANGED <<layouts, daemon, trees, hist, opened, attached, registry, otherApp, reopened, gc>>

AppToggles ==
  /\ otherApp' = ~otherApp
  /\ UNCHANGED <<dirs, layouts, daemon, trees, hist, opened, attached, registry, reopened, gc>>

\* Five minutes without a write to a folder; a collection does not take that long.
FolderAges(s) ==
  /\ hist[s] = "young" /\ gc.at = "idle"
  /\ hist' = [hist EXCEPT ![s] = "old"]
  /\ UNCHANGED <<dirs, layouts, daemon, trees, opened, attached, registry, otherApp, reopened, gc>>

-----------------------------------------------------------------------------
(* The collector                                                           *)

\* Every worktree a layout names.
ReferencedWorktrees == {WtOf[s] : s \in layouts}

\* The referenced worktrees (a layout file that cannot be read ends the collection) ...
GcStart ==
  /\ gc.at = "idle"
  /\ gc' = [Idle EXCEPT !.at = "referenced", !.refs = ReferencedWorktrees]
  /\ UNCHANGED gcEnv

\* ... then the registry: both before the daemon is asked.
GcCopiesRegistry ==
  /\ gc.at = "referenced"
  /\ gc' = [gc EXCEPT !.at = "started", !.panes = registry]
  /\ UNCHANGED gcEnv

LayoutsWithout(ws) == {s \in layouts : WtOf[s] \notin ws}

\* No daemon: only what the file system says is pruned; part of it when a file cannot be
\* written, nothing in a dry run.
GcWithoutDaemon ==
  /\ gc.at = "started"
  /\ \E some \in SUBSET (gc.refs \ dirs) : layouts' = LayoutsWithout(some)
  /\ gc' = Idle
  /\ UNCHANGED <<dirs, daemon, trees, hist, opened, attached, registry, otherApp, reopened>>

\* The gauge counts this app too: more than one means another; an error reads as none.
GcCountsClients ==
  /\ gc.at = "started"
  /\ \/ otherApp /\ gc' = Idle
     \/ gc' = [gc EXCEPT !.at = "alone"] /\ ~otherApp
     \/ gc' = [gc EXCEPT !.at = "alone"]  \* the request failed
  /\ UNCHANGED gcEnv

GcLists ==
  /\ gc.at = "alone"
  /\ \/ gc' = [gc EXCEPT !.at = "listed", !.known = daemon] /\ reopened' = {}
     \/ gc' = Idle /\ UNCHANGED reopened
  /\ UNCHANGED <<dirs, layouts, daemon, trees, hist, opened, attached, registry, otherApp>>

\* Mutant: the registry is read when the plan is made.
ReapPlanLate == {p \in registry : SessOf[p] \notin gc.known}

\* A pane of the copy whose session the daemon did not list is dead: it was
\* registered after its session existed and before the list was made.
ReapPlan == {p \in gc.panes : SessOf[p] \notin gc.known}

\* daemon_gc_session_infos: a listed session of the worktree has a pane.
WorktreeAttached(w) == \E p \in gc.panes : SessOf[p] \in gc.known /\ WtOf[SessOf[p]] = w

\* A missing worktree is stale unless it is attached.
StaleWorktrees == {w \in gc.refs \ dirs : ~WorktreeAttached(w)}

\* The listed sessions of a stale worktree.
StaleSessions == {s \in gc.known : WtOf[s] \in StaleWorktrees}

\* The plan is made of the copies and of the directories as they are.
GcPlans ==
  /\ gc.at = "listed"
  /\ gc' = [gc EXCEPT !.at = "planned", !.stale = StaleWorktrees, !.kill = StaleSessions]
  /\ UNCHANGED gcEnv

\* Dead panes leave the registry, and the processes below the doomed sessions are noted.
GcReaps ==
  /\ gc.at = "planned"
  /\ registry' = registry \ ReapPlan
  /\ gc' = [gc EXCEPT !.at = "prune", !.roots = gc.kill \cap trees]
  /\ UNCHANGED <<dirs, layouts, daemon, trees, hist, opened, attached, otherApp, reopened>>

\* A dry run stops with the plan.
GcDryRun == gc.at = "planned" /\ gc' = Idle /\ UNCHANGED gcEnv

\* The stale worktrees' layouts go; one that cannot be written ends the collection.
GcPrunes ==
  /\ gc.at = "prune"
  /\ \/ layouts' = LayoutsWithout(gc.stale) /\ gc' = [gc EXCEPT !.at = "kill"]
     \/ /\ gc.stale # {} /\ gc' = Idle
        /\ \E some \in SUBSET gc.stale : layouts' = LayoutsWithout(some)
  /\ UNCHANGED <<dirs, daemon, trees, hist, opened, attached, registry, otherApp, reopened>>

\* The stale sessions are killed one by one; then every pane of such a session leaves
\* the registry.  A kill that fails is skipped.
GcKills(s) ==
  /\ gc.at = "kill" /\ s \in gc.kill
  /\ gc' = [gc EXCEPT !.kill = @ \ {s}]
  /\ \/ /\ Ends(s)
        /\ registry' = {p \in registry : SessOf[p] # s}
        /\ hist' = IF s \in daemon THEN [hist EXCEPT ![s] = "none"] ELSE hist
        /\ trees' \in {trees, trees \ {s}}
     \/ UNCHANGED <<daemon, attached, registry, hist, trees>>
  /\ UNCHANGED <<dirs, layouts, opened, otherApp, reopened>>

\* What is left of the noted processes is signalled: TERM, a grace period, KILL.
GcSweeps ==
  /\ gc.at = "kill" /\ gc.kill = {}
  /\ trees' = trees \ gc.roots
  /\ gc' = [gc EXCEPT !.at = "history"]
  /\ UNCHANGED <<dirs, layouts, daemon, hist, opened, attached, registry, otherApp, reopened>>

\* collect_history_dirs: the folders that have not been written for a while.  Without any
\* folder, or with a root that cannot be read, the collection is done.
GcScansFolders ==
  /\ gc.at = "history"
  /\ \/ gc' = [gc EXCEPT !.at = "scanned", !.folders = {s \in GcSessions : hist[s] = "old"}]
     \/ gc' = Idle
  /\ UNCHANGED gcEnv

\* collect_referenced_session_ids: the referenced worktrees that exist now ...
GcChecksDirs ==
  /\ gc.at = "scanned"
  /\ gc' = [gc EXCEPT !.at = "checked", !.exist = gc.refs \cap dirs]
  /\ UNCHANGED gcEnv

\* ... and the panes the layouts of those name; none, when the layouts are being saved
\* and the file is cut short.
ReferencedSessions == {{s \in layouts : WtOf[s] \in gc.exist}, {}}

\* plan_history_gc: the old folders of sessions that the daemon did not list and nothing
\* refers to.
HistoryPlan(referenced) == gc.folders \ (gc.known \cup referenced)

GcPlansHistory ==
  /\ gc.at = "checked"
  /\ \E referenced \in ReferencedSessions :
       gc' = [gc EXCEPT !.at = "remove", !.folders = HistoryPlan(referenced)]
  /\ UNCHANGED gcEnv

\* The folders are removed one by one; one that cannot be is left.
GcRemovesFolder(s) ==
  /\ gc.at = "remove" /\ s \in gc.folders
  /\ gc' = [gc EXCEPT !.folders = @ \ {s}]
  /\ hist' \in {hist, [hist EXCEPT ![s] = "none"]}
  /\ UNCHANGED <<dirs, layouts, daemon, trees, opened, attached, registry, otherApp, reopened>>

GcDone == gc.at = "remove" /\ gc.folders = {} /\ gc' = Idle /\ UNCHANGED gcEnv

GcNext ==
  \/ \E p \in Panes : OpenPane(p) \/ RegisterPane(p) \/ ExitArrives(p) \/ GcClosePane(p)
  \/ \E s \in GcSessions : SessionEnds(s) \/ FolderAges(s) \/ Checkpointed(s)
  \/ \E s \in GcSessions : GcKills(s) \/ GcRemovesFolder(s)
  \/ \E w \in Worktrees : DirToggles(w)
  \/ DaemonEnds \/ AppToggles
  \/ GcStart \/ GcCopiesRegistry \/ GcWithoutDaemon \/ GcCountsClients \/ GcLists
  \/ GcPlans \/ GcReaps \/ GcDryRun \/ GcPrunes \/ GcSweeps
  \/ GcScansFolders \/ GcChecksDirs \/ GcPlansHistory \/ GcDone

GcSpec == GcInit /\ [][GcNext]_gcVars

-----------------------------------------------------------------------------
(* Properties                                                              *)

\* A step of the collector takes nothing that is in use: a pane it reaps is dead, a
\* session it kills was not on the screen when it began, a history folder it removes is
\* of no session the daemon has, but for one that was reopened in an old folder since the
\* daemon was asked.
SparesLive ==
  /\ gc.at = "planned" /\ gc'.at = "prune" => \A p \in registry \ registry' : p \notin attached
  /\ gc.at = "kill" /\ gc'.kill # gc.kill =>
       \A p \in gc.panes \cap registry \cap attached : p \in registry' /\ p \in attached'
  /\ gc.at = "remove" /\ gc'.folders # gc.folders =>
       \A s \in daemon \ reopened : hist'[s] = hist[s]

\* That holds of every step, even if panes were opened since the daemon was asked, however
\* directories came and went, and for sessions that were spawned after the list was made.
GcSparesLive == [][SparesLive]_gcVars

-----------------------------------------------------------------------------
(* Not kept by the code: TLC finds a counterexample, and no run checks it. *)

\* What the comments on the age of a folder say, without that exception: it is taken from
\* the time of the last write "so the guard never races a live writer".  But a cold
\* restore writes nothing into the folder it goes on in until the first checkpoint, and
\* the folder of a live session that is gone does not come back.
LiveHasFolder == \A s \in daemon : hist[s] # "none"
=============================================================================
