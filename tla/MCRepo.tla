------------------------------- MODULE MCRepo -------------------------------
(***************************************************************************)
(* The parts that keep a project's files; they share no state, so a        *)
(* behaviour of this run is one of one part, and everything else stands    *)
(* still.  The concurrent commands of every part are the same two, c1 and  *)
(* c2, which are interchangeable.                                          *)
(***************************************************************************)
EXTENDS ProjectConfig, Missions, Worktrees, SourceSync, TLC

VARIABLE part

CONSTANTS c1, c2

\* Two spellings of one repository.
OneFolder == [u \in {"https", "ssh"} |-> "f"]

\* Git refuses a branch b beside a branch b/x.
BranchNames == {<<"a">>, <<"b">>}
OlderNames == {<<"b", "x">>}

Interchangeable == Permutations({c1, c2})

RepoInit ==
  /\ part \in {"config", "missions", "worktrees", "sync"}
  /\ ConfigInit /\ MissionInit /\ SyncInit
  /\ WorktreeInit /\ (part # "worktrees" => branches = {})

RepoNext ==
  /\ UNCHANGED part
  /\ \/ part = "config" /\ ConfigNext /\ UNCHANGED <<missionVars, worktreeVars, syncVars>>
     \/ part = "missions" /\ MissionNext /\ UNCHANGED <<configVars, worktreeVars, syncVars>>
     \/ part = "worktrees" /\ WorktreeNext /\ UNCHANGED <<configVars, missionVars, syncVars>>
     \/ part = "sync" /\ SyncNext /\ UNCHANGED <<configVars, missionVars, worktreeVars>>

RepoSpec == RepoInit /\ [][RepoNext]_<<part, configVars, missionVars, worktreeVars, syncVars>>
=============================================================================
