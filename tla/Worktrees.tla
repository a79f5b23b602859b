----------------------------- MODULE Worktrees -----------------------------
(***************************************************************************)
(* The worktrees of one project (git_project.rs): add_worktree,            *)
(* add_stacked_worktree and remove_worktree, each a sequence of git calls  *)
(* and of loads and saves of the project's entry, on threads that may      *)
(* overlap, beside a user who runs git, and with an application that may   *)
(* end anywhere.  A name is a path, so that one branch can be a prefix of  *)
(* another; a worktree, its branch and its directory have the same name.   *)
(* Of config.json the stacked parents are kept (ProjectConfig has the rest *)
(* of it); a save is one step that works or leaves the file as it was, and *)
(* a load finds no project while somebody else's save is half-way.  Remote *)
(* branches only decide where a new branch starts and are left out, as is  *)
(* the copying of ignored files.                                           *)
(***************************************************************************)
EXTENDS Integers, Sequences, FiniteSets, SequencesExt

CONSTANTS Names, Threads,
          Older     \* branches the repository may have from before, which no command names

ASSUME WorktreeAssumption == \A n \in Names \cup Older : n \in Seq(STRING) /\ n # <<>>

VARIABLES
  trees, branches,   \* worktrees and local branches
  stacked,    \* the entry's stacked_parents, as <<child, parent>>
  task        \* task[t]: the command thread t executes

worktreeVars == <<trees, branches, stacked, task>>

NoTask == [op |-> "none", at |-> "idle", name |-> <<>>, parent |-> <<>>, had |-> FALSE, mine |-> {},
           alone |-> TRUE, erred |-> {}]

WorktreeInit ==
  /\ trees = {} /\ branches \in SUBSET Older /\ stacked = {}
  /\ task = [t \in Threads |-> NoTask]

GoTo(t, at) == task' = [task EXCEPT ![t].at = at]
Copies(t, mine) == task' = [task EXCEPT ![t].at = "save", ![t].mine = mine]
Fails(t, at, what) == task' = [task EXCEPT ![t].at = at, ![t].erred = @ \cup {what}]
Finish(t) == task' = [task EXCEPT ![t] = NoTask]
Busy(t, op, at) == task[t].op = op /\ task[t].at = at
Name(t) == task[t].name
Without(m, n) == {x \in m : x[1] # n}

-----------------------------------------------------------------------------
(* The stack of a project                                                  *)

ParentIn(m, n) == {x[2] : x \in {y \in m : y[1] = n}}

\* The names on the chain of parents from n, n's parent first.
Chain(m, n) ==
  LET up[k \in 0..Cardinality(m)] == IF k = 0 THEN ParentIn(m, n)
                                     ELSE up[k - 1] \cup UNION {ParentIn(m, x) : x \in up[k - 1]}
  IN up[Cardinality(m)]

\* stack_parent_chain_has_cycle: following the parents from n comes to a name twice.
HasCycle(m, n) == \E x \in Chain(m, n) \cup {n} : x \in Chain(m, x)

\* normalized_stacked_parents.
Normalized(m, ws) ==
  LET filtered == {x \in m : x[1] # x[2] /\ x[1] \in ws /\ x[2] \in ws}
  IN {x \in filtered : ~HasCycle(filtered, x[1])}

-----------------------------------------------------------------------------
(* Commands                                                                *)

\* A command that overlaps another one is not alone, and neither is the other.
StartTask(t, op, n, p) ==
  /\ task[t].at = "idle"
  /\ LET others == {u \in Threads \ {t} : task[u].at # "idle"} IN
     task' = [u \in Threads |->
                IF u = t THEN [op |-> op, at |-> "check", name |-> n, parent |-> p, had |-> FALSE,
                               mine |-> {}, alone |-> (others = {}), erred |-> {}]
                ELSE IF u \in others THEN [task[u] EXCEPT !.alone = FALSE] ELSE task[u]]
  /\ UNCHANGED <<trees, branches, stacked>>

Conflicts(n, bs) == \E b \in bs : b # n /\ (IsPrefix(b, n) \/ IsPrefix(n, b))

\* git worktree add works on a free path, with a branch that is new and collides with
\* no other, or that exists and no worktree has checked out.
GitCanAdd(n, new) == /\ n \notin trees
                     /\ IF new THEN n \notin branches /\ ~Conflicts(n, branches) ELSE n \in branches

\* add_worktree: look at the local branches ...
CheckAdd(t) ==
  /\ Busy(t, "add", "check")
  /\ IF Conflicts(Name(t), branches) THEN Finish(t)
     ELSE task' = [task EXCEPT ![t].at = "git", ![t].had = Name(t) \in branches]
  /\ UNCHANGED <<trees, branches, stacked>>

\* ... check out the branch or make it ...
GitAdd(t) ==
  /\ Busy(t, "add", "git") /\ GitCanAdd(Name(t), ~task[t].had)
  /\ trees' = trees \cup {Name(t)} /\ branches' = branches \cup {Name(t)}
  /\ GoTo(t, "load")
  /\ UNCHANGED stacked

GitAddFails(t) ==
  /\ Busy(t, "add", "git")
  /\ Finish(t)
  /\ UNCHANGED <<trees, branches, stacked>>

\* ... and take any old parent of the name out of the configuration.
LoadEntry(t) ==
  /\ task[t].op \in {"add", "remove"} /\ task[t].at = "load"
  /\ Copies(t, Without(stacked, Name(t)))
  /\ UNCHANGED <<trees, branches, stacked>>

SaveEntry(t) ==
  /\ task[t].op \in {"add", "remove"} /\ task[t].at = "save"
  /\ stacked' = task[t].mine
  /\ Finish(t)
  /\ UNCHANGED <<trees, branches>>

\* A command ends with an error when it does not find the project, or cannot save it.
EntryFails(t) ==
  /\ task[t].op \in {"add", "remove", "stack"} /\ task[t].at \in {"check", "load", "save"}
  /\ Finish(t)
  /\ UNCHANGED <<trees, branches, stacked>>

\* add_stacked_worktree: the parent is a worktree, the branch is new ...
CheckStack(t) ==
  /\ Busy(t, "stack", "check")
  /\ IF task[t].parent \notin trees \/ Conflicts(Name(t), branches) \/ Name(t) \in branches
     THEN Finish(t) ELSE GoTo(t, "load")
  /\ UNCHANGED <<trees, branches, stacked>>

\* ... its parent is saved first ...
LoadParent(t) ==
  /\ Busy(t, "stack", "load")
  /\ Copies(t, Without(stacked, Name(t)) \cup {<<Name(t), task[t].parent>>})
  /\ UNCHANGED <<trees, branches, stacked>>

SaveParent(t) ==
  /\ Busy(t, "stack", "save")
  /\ stacked' = task[t].mine
  /\ GoTo(t, "git")
  /\ UNCHANGED <<trees, branches>>

GitStack(t) ==
  /\ Busy(t, "stack", "git") /\ GitCanAdd(Name(t), TRUE)
  /\ trees' = trees \cup {Name(t)} /\ branches' = branches \cup {Name(t)}
  /\ Finish(t)
  /\ UNCHANGED stacked

\* ... and taken back when git fails, perhaps half-way (when it was able to begin).
GitStackFails(t) ==
  /\ Busy(t, "stack", "git")
  /\ \/ UNCHANGED <<trees, branches>>
     \/ /\ GitCanAdd(Name(t), TRUE)
        /\ branches' = branches \cup {Name(t)}
        /\ trees' \in {trees, trees \cup {Name(t)}}
  /\ task' = [task EXCEPT ![t].op = "undo", ![t].at = "load"]
  /\ UNCHANGED stacked

\* rollback_stacked_parent_metadata, unless somebody else's parent is there by now; a
\* project that is not found ends it, and the error of its save is only printed ...
LoadRollback(t) ==
  /\ Busy(t, "undo", "load")
  /\ \/ IF <<Name(t), task[t].parent>> \in stacked THEN Copies(t, Without(stacked, Name(t)))
                                                   ELSE GoTo(t, "clean")
     \/ Fails(t, "clean", "parent")
  /\ UNCHANGED <<trees, branches, stacked>>

Rollback(t) ==
  /\ Busy(t, "undo", "save")
  /\ \/ stacked' = task[t].mine /\ GoTo(t, "clean")
     \/ stacked' = stacked /\ Fails(t, "clean", "parent")
  /\ UNCHANGED <<trees, branches>>

\* ... and cleanup_failed_stacked_worktree_add removes the worktree, if there is one ...
CleanUp(t) ==
  /\ Busy(t, "undo", "clean")
  /\ \/ trees' = trees \ {Name(t)} /\ GoTo(t, "branch")
     \/ Name(t) \in trees /\ trees' = trees /\ Fails(t, "branch", "tree")
  /\ UNCHANGED <<branches, stacked>>

\* Mutant: the branch stays.
CleanUpTreeOnly(t) ==
  /\ Busy(t, "undo", "branch")
  /\ GoTo(t, "failed")
  /\ UNCHANGED <<trees, branches, stacked>>

\* ... and the branch, which git keeps while a worktree has it; what git answers is
\* ignored both times.
CleanUpBranch(t) ==
  /\ Busy(t, "undo", "branch")
  /\ \/ Name(t) \notin trees /\ branches' = branches \ {Name(t)} /\ GoTo(t, "failed")
     \/ branches' = branches /\ Fails(t, "failed", "branch")
  /\ UNCHANGED <<trees, stacked>>

ReportFailure(t) ==
  /\ Busy(t, "undo", "failed")
  /\ Finish(t)
  /\ UNCHANGED <<trees, branches, stacked>>

\* remove_worktree: not one with stacked children.  The panes, layouts and snapshots go
\* first ...
CheckRemove(t) ==
  /\ Busy(t, "remove", "check")
  /\ IF Name(t) \in {x[2] : x \in Normalized(stacked, trees)} THEN Finish(t) ELSE GoTo(t, "git")
  /\ UNCHANGED <<trees, branches, stacked>>

\* ... then the worktree and, if git agrees, the branch.
GitRemove(t) ==
  /\ Busy(t, "remove", "git") /\ Name(t) \in trees
  /\ trees' = trees \ {Name(t)}
  /\ branches' \in {branches, branches \ {Name(t)}}
  /\ GoTo(t, "load")
  /\ UNCHANGED stacked

GitRemoveFails(t) ==
  /\ Busy(t, "remove", "git")
  /\ Finish(t)
  /\ UNCHANGED <<trees, branches, stacked>>

-----------------------------------------------------------------------------
(* Around them                                                             *)

\* The user removes a worktree and its branch with git, or adds one.
UserGit(n) ==
  /\ \/ n \in trees /\ trees' = trees \ {n} /\ branches' = branches \ {n}
     \/ GitCanAdd(n, TRUE) /\ trees' = trees \cup {n} /\ branches' = branches \cup {n}
  /\ task' = [t \in Threads |-> IF task[t].at = "idle" THEN task[t] ELSE [task[t] EXCEPT !.alone = FALSE]]
  /\ UNCHANGED stacked

HostEnds ==
  /\ \E t \in Threads : task[t].at # "idle"
  /\ task' = [t \in Threads |-> NoTask]
  /\ UNCHANGED <<trees, branches, stacked>>

WorktreeNext ==
  \/ \E t \in Threads :
       \/ \E n \in Names, op \in {"add", "remove"} : StartTask(t, op, n, <<>>)
       \/ \E n, p \in Names : StartTask(t, "stack", n, p)
       \/ CheckAdd(t) \/ GitAdd(t) \/ GitAddFails(t) \/ LoadEntry(t) \/ SaveEntry(t) \/ EntryFails(t)
       \/ CheckStack(t) \/ LoadParent(t) \/ SaveParent(t) \/ GitStack(t) \/ GitStackFails(t)
       \/ LoadRollback(t) \/ Rollback(t) \/ CleanUp(t) \/ CleanUpBranch(t) \/ ReportFailure(t)
       \/ CheckRemove(t) \/ GitRemove(t) \/ GitRemoveFails(t)
  \/ \E n \in Names : UserGit(n)
  \/ HostEnds

WorktreeSpec == WorktreeInit /\ [][WorktreeNext]_worktreeVars

-----------------------------------------------------------------------------
(* Properties                                                              *)

\* What a stacked add that fails leaves behind, however far git came, is only what the
\* undo's own step for it could not take away: a step that fails keeps none of the others
\* from being done.  A leftover branch refuses the name from then on.
FailedAddUndone ==
  \A t \in Threads : task[t].at = "failed" /\ task[t].alone =>
    /\ Name(t) \in {x[1] : x \in stacked} => "parent" \in task[t].erred
    /\ Name(t) \in trees => "tree" \in task[t].erred
    /\ Name(t) \in branches => "branch" \in task[t].erred

-----------------------------------------------------------------------------
(* Not kept by the code: TLC finds a counterexample, and no run checks it. *)

\* The clean-up of a failed add takes away no worktree that another command has added.
CleanUpSparesOthers ==
  [][\A t \in Threads : task[t].at = "git" /\ task[t].op = "stack" /\ task'[t].op = "undo"
       => Name(t) \notin trees]_worktreeVars
=============================================================================
