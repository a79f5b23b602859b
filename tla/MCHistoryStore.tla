--------------------------- MODULE MCHistoryStore ---------------------------
(***************************************************************************)
(* What is kept of sessions on disk, and what the collector takes away.    *)
(* They share no state, so a behaviour of this run is one of one part, and *)
(* the other stands still.                                                 *)
(***************************************************************************)
EXTENDS HistoryStore, TerminalGc

VARIABLE part

\* Two panes of one worktree, each with a session of its own.
GcWorktreeOf == <<1, 1>>
GcSessionOf == <<1, 2>>

KeptInit ==
  /\ part \in {"history", "gc"}
  /\ Init
  /\ GcInit /\ (part = "history" => layouts = {} /\ \A s \in GcSessions : hist[s] = "none")

KeptNext ==
  /\ UNCHANGED part
  /\ \/ part = "history" /\ Next /\ UNCHANGED gcVars
     \/ part = "gc" /\ GcNext /\ UNCHANGED vars

KeptSpec == KeptInit /\ [][KeptNext]_<<part, vars, gcVars>>
=============================================================================
