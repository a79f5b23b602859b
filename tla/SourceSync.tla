----------------------------- MODULE SourceSync -----------------------------
(***************************************************************************)
(* The sync of a project's source repository with its remote               *)
(* (git_project.rs, refresh_project): local changes are stashed, the       *)
(* default branch is checked out, fetched and rebased, and the stash is    *)
(* applied and dropped.  Every git call is a process of its own that may   *)
(* fail; refreshes may overlap, the user goes on editing and stashing      *)
(* beside them, and the application may end at any of these points.        *)
(*                                                                         *)
(* An edit is a change to the working tree that no commit holds.  Which    *)
(* branch is the default one, what the commits are and the wording of the  *)
(* errors are left out.                                                    *)
(***************************************************************************)
EXTENDS Integers, Sequences, SequencesExt

CONSTANTS Edits, Syncs, MaxStashes

ASSUME SyncAssumption == MaxStashes \in Nat

VARIABLES
  tree,      \* the edits in the working tree
  stashes,   \* git stash list, newest first: the stash's number and its edits
  pushes,    \* how many stashes were ever made; a stash's number stands for its hash
  rebasing,  \* a rebase stopped half-way
  sync,      \* sync[r]: where refresh r is, the stash it believes is its own, and the
             \* place in the list it resolved that stash to
  raced      \* one of the two windows the code leaves open was hit (see LocalWorkKept)

syncVars == <<tree, stashes, pushes, rebasing, sync, raced>>

NoStash == [id |-> 0, has |-> {}]
NoSync == [at |-> "idle", ref |-> NoStash, selector |-> 0]

SyncInit ==
  /\ tree = {} /\ stashes = <<>> /\ pushes = 0 /\ rebasing = FALSE /\ raced = FALSE
  /\ sync = [r \in Syncs |-> NoSync]

Moves(r, from, to) == sync[r].at = from /\ sync' = [sync EXCEPT ![r].at = to]

\* refresh_source_repo ends, or an error ends it before a stash was made.
SyncEnds(r) == sync' = [sync EXCEPT ![r] = NoSync]

-----------------------------------------------------------------------------
(* refresh_source_repo                                                     *)

StartSync(r) ==
  /\ Moves(r, "idle", "resolve")
  /\ UNCHANGED <<tree, stashes, pushes, rebasing, raced>>

\* The configured base branch if the remote has it, else remote_default_branch.
ResolveBranch(r) ==
  /\ sync[r].at = "resolve"
  /\ Moves(r, "resolve", "look") \/ SyncEnds(r)
  /\ UNCHANGED <<tree, stashes, pushes, rebasing, raced>>

\* create_source_sync_stash: nothing to stash (or status fails, which reads as that) ...
LookForChanges(r) ==
  /\ Moves(r, "look", "checkout") \/ (tree # {} /\ Moves(r, "look", "push"))
  /\ UNCHANGED <<tree, stashes, pushes, rebasing, raced>>

\* git stash push, by a refresh or by the user.  Every other stash moves one place down,
\* the one a refresh is about to drop included.
PushStash ==
  /\ pushes < MaxStashes
  /\ pushes' = pushes + 1
  /\ stashes' = IF tree = {} THEN stashes ELSE <<[id |-> pushes + 1, has |-> tree]>> \o stashes
  /\ tree' = {}
  /\ raced' = (raced \/ (tree # {} /\ \E r \in Syncs : sync[r].at = "drop"))
  /\ UNCHANGED rebasing

\* ... or a stash of everything, untracked files too ...
StashPush(r) ==
  /\ Moves(r, "push", "name")
  /\ PushStash

StashPushFails(r) ==
  /\ sync[r].at = "push"
  /\ SyncEnds(r)
  /\ UNCHANGED <<tree, stashes, pushes, rebasing, raced>>

\* ... which is then named by whatever is on top of the list.
NameStash(r) ==
  /\ sync[r].at = "name"
  /\ IF stashes = <<>> THEN SyncEnds(r)
     ELSE \/ sync' = [sync EXCEPT ![r].at = "checkout", ![r].ref = Head(stashes)]
          \/ SyncEnds(r)
  /\ UNCHANGED <<tree, stashes, pushes, rebasing, raced>>

\* Where refresh_source_repo goes once it is done or has failed: the stash is put back.
Restored(r) == IF sync[r].ref = NoStash THEN "idle" ELSE "apply"

CheckoutBranch(r) ==
  /\ Moves(r, "checkout", "fetch") \/ Moves(r, "checkout", Restored(r))
  /\ UNCHANGED <<tree, stashes, pushes, rebasing, raced>>

Fetch(r) ==
  /\ Moves(r, "fetch", "pull") \/ Moves(r, "fetch", Restored(r))
  /\ UNCHANGED <<tree, stashes, pushes, rebasing, raced>>

\* git pull --rebase refuses a dirty tree and a tree that is being rebased.
Pull(r) ==
  /\ tree = {} /\ ~rebasing
  /\ Moves(r, "pull", Restored(r))
  /\ UNCHANGED <<tree, stashes, pushes, rebasing, raced>>

PullFails(r) ==
  /\ Moves(r, "pull", "abort")
  /\ rebasing' \in {rebasing, rebasing \/ tree = {}}
  /\ UNCHANGED <<tree, stashes, pushes, raced>>

\* git rebase --abort resets the tree when a rebase is under way; its result is ignored.
AbortRebase(r) ==
  /\ Moves(r, "abort", Restored(r))
  /\ \/ UNCHANGED <<tree, rebasing, raced>>
     \/ rebasing /\ rebasing' = FALSE /\ tree' = {} /\ raced' = (raced \/ tree # {})
  /\ UNCHANGED <<stashes, pushes>>

\* Mutant: a stash that could not be applied is dropped like any other.
ApplyStashAnyway(r) ==
  /\ Moves(r, "apply", "list")
  /\ tree' \in {tree, tree \cup sync[r].ref.has}
  /\ UNCHANGED <<stashes, pushes, rebasing, raced>>

\* restore_source_sync_stash: apply the stash by its hash, which works for a stash that is
\* no longer listed too.  One that does not apply stays, and the error says so ...
ApplyStash(r) ==
  /\ \/ Moves(r, "apply", "list") /\ tree' = tree \cup sync[r].ref.has
     \/ sync[r].at = "apply" /\ SyncEnds(r) /\ UNCHANGED tree
  /\ UNCHANGED <<stashes, pushes, rebasing, raced>>

\* ... else resolve_stash_selector finds its place in the list ...
FindSelector(r) ==
  LET here == {i \in DOMAIN stashes : stashes[i].id = sync[r].ref.id} IN
  /\ sync[r].at = "list"
  /\ \/ \E i \in here : sync' = [sync EXCEPT ![r].at = "drop", ![r].selector = i]
     \/ SyncEnds(r)
  /\ UNCHANGED <<tree, stashes, pushes, rebasing, raced>>

\* ... and whatever has that place now is dropped.
DropStash(r) ==
  /\ sync[r].at = "drop"
  /\ \/ sync[r].selector \in DOMAIN stashes /\ stashes' = RemoveAt(stashes, sync[r].selector)
     \/ UNCHANGED stashes
  /\ SyncEnds(r)
  /\ raced' = (raced \/ \E q \in Syncs \ {r} : sync[q].at = "drop")
  /\ UNCHANGED <<tree, pushes, rebasing>>

-----------------------------------------------------------------------------
(* Around it                                                               *)

\* The user makes a change that is nowhere yet, ...
Edit(e) ==
  /\ e \notin tree /\ \A i \in DOMAIN stashes : e \notin stashes[i].has
  /\ \A r \in Syncs : e \notin sync[r].ref.has
  /\ tree' = tree \cup {e}
  /\ UNCHANGED <<stashes, pushes, rebasing, sync, raced>>

\* ... or stashes the tree.
UserStash ==
  /\ PushStash
  /\ UNCHANGED sync

SyncHostEnds ==
  /\ \E r \in Syncs : sync[r].at # "idle"
  /\ sync' = [r \in Syncs |-> NoSync]
  /\ UNCHANGED <<tree, stashes, pushes, rebasing, raced>>

SyncNext ==
  \/ \E r \in Syncs :
       \/ StartSync(r) \/ ResolveBranch(r) \/ LookForChanges(r) \/ StashPush(r) \/ StashPushFails(r)
       \/ NameStash(r) \/ CheckoutBranch(r) \/ Fetch(r) \/ Pull(r) \/ PullFails(r) \/ AbortRebase(r)
       \/ ApplyStash(r) \/ FindSelector(r) \/ DropStash(r)
  \/ \E e \in Edits : Edit(e)
  \/ UserStash \/ SyncHostEnds

SyncSpec == SyncInit /\ [][SyncNext]_syncVars

-----------------------------------------------------------------------------
(* Properties                                                              *)

Held == tree \cup UNION {stashes[i].has : i \in DOMAIN stashes}

KeepsWork == Held \subseteq Held' \/ raced'

\* No step of a refresh takes an edit away: it is in the tree or in a listed stash, through
\* failing git calls, overlapping refreshes that take each other's stash for their own, and
\* an application that ends in between.  The two windows it leaves open are set apart: a
\* stash made or dropped between the resolution of a stash's place and the drop of what is
\* there, and an edit made between a rebase that stopped and its abort.
LocalWorkKept == [][KeepsWork]_syncVars
=============================================================================
