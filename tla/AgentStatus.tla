----------------------------- MODULE AgentStatus -----------------------------
(***************************************************************************)
(* The badge of a pane: what runs in it, as the agent's own hooks report   *)
(* it and the kernel confirms it (agent.rs, kernel.rs, the agent channel   *)
(* of server.rs, grove-agent's launch, event and rpc, and the delta poll   *)
(* of pty.rs).                                                             *)
(*                                                                         *)
(* A process is a pid with a start time; a pid is used again.  It inherits *)
(* the session key of some pane in its environment, which need not be the  *)
(* pane whose terminal it is on.  Every hook is a process of its own: its  *)
(* event may come late, or never.                                          *)
(***************************************************************************)
EXTENDS Integers, FiniteSets

CONSTANTS AgentPanes, Pids, MaxStarts, MaxEvents

ASSUME AgentAssumption == MaxStarts \in Nat /\ MaxEvents \in Nat

VARIABLES
  procs,      \* procs[pid]: the kernel's view: start time (0: no such process), state, terminal
  env,        \* env[pid]: the pane whose key it carries, and its claim id (0: none)
  asking,     \* agentClaim requests the daemon has accepted and not handled
  claims,     \* claims[pane]: the session's AgentClaims, in the order of their ids
  events,     \* agentEvent requests under way
  delivered,  \* the events the daemon has seen
  clock,      \* the monotonic clock the hooks read
  starts, minted,
  badge       \* badge[pane]: last_ai_status, what the window shows

agentVars == <<procs, env, asking, claims, events, delivered, clock, starts, minted, badge>>

NoProcess == [start |-> 0, stat |-> "none", tty |-> "none"]
\* An event of each phase the daemon knows, and one it does not.
Kinds == {"UserPromptSubmit", "PermissionRequest", "Stop", "Notification"}

AgentInit ==
  /\ procs = [p \in Pids |-> NoProcess]
  /\ env = [p \in Pids |-> [pane |-> "none", claim |-> 0]]
  /\ asking = {} /\ claims = [s \in AgentPanes |-> {}]
  /\ events = {} /\ delivered = {}
  /\ clock = 0 /\ starts = 0 /\ minted = 0 /\ badge = [s \in AgentPanes |-> "none"]

-----------------------------------------------------------------------------
(* Processes                                                               *)

\* A claim request: the pid is the kernel's word, read when the connection is accepted.
PeerClaim(p, start, pane) == [pid |-> p, start |-> start, pane |-> pane]

\* `grove-agent launch` runs on some terminal (a nested tmux has its own, a detached
\* process none), with some pane's key; it asks for a claim.
StartAgent(p, pane, tty) ==
  /\ procs[p].start = 0 /\ starts < MaxStarts
  /\ starts' = starts + 1
  /\ procs' = [procs EXCEPT ![p] = [start |-> starts + 1, stat |-> "run", tty |-> tty]]
  /\ env' = [env EXCEPT ![p] = [pane |-> pane, claim |-> 0]]
  /\ asking' = asking \cup {PeerClaim(p, starts + 1, pane)}
  /\ UNCHANGED <<claims, events, delivered, clock, minted, badge>>

\* Ctrl-Z, fg, a kill (the process stays listed until it is reaped), and the reaping.
ProcessMoves(p) ==
  /\ \/ procs[p].stat = "run" /\ procs' = [procs EXCEPT ![p].stat = "stop"]
     \/ procs[p].stat = "stop" /\ procs' = [procs EXCEPT ![p].stat = "run"]
     \/ procs[p].stat \in {"run", "stop"} /\ procs' = [procs EXCEPT ![p].stat = "zombie"]
     \/ procs[p].stat = "zombie" /\ procs' = [procs EXCEPT ![p] = NoProcess]
  /\ UNCHANGED <<env, asking, claims, events, delivered, clock, starts, minted, badge>>

\* The agent (it has become the launcher's process) runs a hook; without a claim id
\* there is nothing to report.
FireHook(p, kind) ==
  /\ procs[p].stat = "run" /\ env[p].claim # 0 /\ clock < MaxEvents
  /\ clock' = clock + 1
  /\ events' = events \cup {[claim |-> env[p].claim, pane |-> env[p].pane, kind |-> kind,
                             at |-> clock + 1]}
  /\ UNCHANGED <<procs, env, asking, claims, delivered, starts, minted, badge>>

-----------------------------------------------------------------------------
(* The daemon's agent channel                                              *)

Lives(p) == procs[p].stat \in {"run", "stop"}

\* The claimant must exist and be on the terminal of the pane whose key it has.
Admits(r) == Lives(r.pid) /\ procs[r.pid].tty = r.pane

\* Claims the kernel no longer confirms are dropped when a new one is recorded.
Prune(cs) == {c \in cs : Lives(c.pid) /\ procs[c.pid].start = c.start}

RecordClaim(cs, c) == Prune(cs) \cup {c}

\* agentClaim: the start time is read now.  The launcher waits a moment for the answer;
\* if it is late the agent runs without its claim id.
HandleClaim(r) ==
  /\ r \in asking /\ asking' = asking \ {r}
  /\ IF Admits(r)
     THEN /\ minted' = minted + 1
          /\ claims' = [claims EXCEPT ![r.pane] = RecordClaim(@,
               [id |-> minted + 1, pid |-> r.pid, start |-> procs[r.pid].start,
                phase |-> "idle", at |-> 0])]
          /\ env' \in {env} \cup (IF procs[r.pid].start = r.start
                                  THEN {[env EXCEPT ![r.pid].claim = minted + 1]} ELSE {})
     ELSE UNCHANGED <<minted, claims, env>>
  /\ UNCHANGED <<procs, events, delivered, clock, starts, badge>>

\* map_event: an unknown event says nothing.
MapEvent(kind) ==
  [UserPromptSubmit |-> "running", PermissionRequest |-> "attention", Stop |-> "idle",
   Notification |-> "unknown"][kind]

\* Mutant: no fence.
ApplyAny(c, e) ==
  IF c.id # e.claim THEN c
  ELSE [c EXCEPT !.at = e.at,
                 !.phase = IF MapEvent(e.kind) = "unknown" THEN @ ELSE MapEvent(e.kind)]

\* apply_event: an event older than the last one is dropped.
Apply(c, e) ==
  IF c.id # e.claim \/ e.at <= c.at THEN c
  ELSE [c EXCEPT !.at = e.at,
                 !.phase = IF MapEvent(e.kind) = "unknown" THEN @ ELSE MapEvent(e.kind)]

HandleEvent(e) ==
  /\ e \in events /\ events' = events \ {e}
  /\ delivered' = delivered \cup {e}
  /\ claims' = [claims EXCEPT ![e.pane] = {Apply(c, e) : c \in @}]
  /\ UNCHANGED <<procs, env, asking, clock, starts, minted, badge>>

\* The watchdog of a hook ends it before it could send.
LoseEvent(e) ==
  /\ e \in events /\ events' = events \ {e}
  /\ UNCHANGED <<procs, env, asking, claims, delivered, clock, starts, minted, badge>>

\* Mutant: a listed process counts as alive, whoever it is.
ConfirmsListed(c) == procs[c.pid].start # 0

\* The kernel confirms a claim: listed, no zombie, started when the claim was made.
Confirms(c) == Lives(c.pid) /\ procs[c.pid].start = c.start

\* resolve: the newest confirmed claim; a suspended agent is idle.
Resolve(s) ==
  LET live == {c \in claims[s] : Confirms(c)}
      newest == CHOOSE c \in live : \A d \in live : d.id <= c.id
  IN IF live = {} THEN "none"
     ELSE IF procs[newest.pid].stat = "stop" THEN "idle" ELSE newest.phase

\* pollBells: the status is derived now, for every session.
Bells == [s \in AgentPanes |-> Resolve(s)]

\* poll_bell_events: the badge follows, an event goes out only when it differs.
PollBells ==
  /\ badge # Bells /\ badge' = Bells
  /\ UNCHANGED <<procs, env, asking, claims, events, delivered, clock, starts, minted>>

AgentNext ==
  \/ \E p \in Pids, s \in AgentPanes, t \in AgentPanes \cup {"tmux", "none"} : StartAgent(p, s, t)
  \/ \E p \in Pids : ProcessMoves(p) \/ \E k \in Kinds : FireHook(p, k)
  \/ \E r \in asking : HandleClaim(r)
  \/ \E e \in events : HandleEvent(e) \/ LoseEvent(e)
  \/ PollBells

AgentSpec == AgentInit /\ [][AgentNext]_agentVars

-----------------------------------------------------------------------------
(* Properties                                                              *)

\* What a changed badge shows of a pane: a claim that a living process on the pane's own
\* terminal made, and no activity of a suspended one.
ShowsReal(s) ==
  badge'[s] # "none" =>
    \E c \in claims[s] :
      /\ Lives(c.pid) /\ procs[c.pid].start = c.start /\ procs[c.pid].tty = s
      /\ badge'[s] # "idle" => procs[c.pid].stat = "run"

BadgesReal == badge' # badge => \A s \in AgentPanes : ShowsReal(s)

\* A badge belongs to a living process on that pane's own terminal: none outlives its
\* agent, passes to the next process with its pid, or shows an agent that merely
\* inherited the pane's key.
BadgeIsReal == [][BadgesReal]_agentVars

\* However the hooks' events are reordered or lost, a claim shows what the newest event
\* that arrived says.
NewestEventShows ==
  \A s \in AgentPanes : \A c \in claims[s] :
    LET seen == {e \in delivered : e.claim = c.id} IN
    \A e \in seen : (\A f \in seen : f.at <= e.at) /\ MapEvent(e.kind) # "unknown"
                      => c.phase = MapEvent(e.kind)
=============================================================================
