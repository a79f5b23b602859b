-------------------------- MODULE MCSessionRegistry --------------------------
(***************************************************************************)
(* The registry with two concurrent callers and one kill, and a session's  *)
(* input queue.  They share no state, so a behaviour of this run is one of *)
(* one part; the other stands still, with no call under way.               *)
(***************************************************************************)
EXTENDS SessionRegistry, InputWriter

VARIABLE part

SessionsInit ==
  part \in {"registry", "input"} /\ Init /\ (part = "input" => dir = NoDir) /\ InputInit

SessionsNext ==
  /\ UNCHANGED part
  /\ \/ part = "registry" /\ Next /\ UNCHANGED inputVars
     \/ part = "input" /\ InputNext /\ UNCHANGED vars

SessionsSpec == SessionsInit /\ [][SessionsNext]_<<part, vars, inputVars>> /\ Fairness /\ InputFairness
=============================================================================
