-------------------------- MODULE DaemonSupervisor --------------------------
(***************************************************************************)
(* How an app finds, keeps, replaces or starts the daemon: ensure_running, *)
(* restart_daemon, spawn_daemon and kill_stale (supervisor.rs), called     *)
(* once per app process (global.rs), against the start and the end of the  *)
(* daemon process (main.rs).  They share three files: the socket, the      *)
(* token and the pid file.                                                 *)
(*                                                                         *)
(* Daemon d is the d-th process; its token and its pid are d.  One app     *)
(* runs at a time and is not killed while it starts a daemon.  A raw       *)
(* connect to a socket somebody listens on succeeds (the kernel accepts    *)
(* it); every probe that waits for an answer may time out.  The process    *)
(* table can be read, so a live daemon the pid file names is identified.   *)
(***************************************************************************)
EXTENDS Integers, FiniteSets

CONSTANTS MaxDaemons, Versions

ASSUME SupervisorAssumption == MaxDaemons \in Nat \ {0} /\ Versions \subseteq Nat \ {0}

Daemons == 1..MaxDaemons

VARIABLES
  proc,       \* proc[d]: where the daemon process is
  sessions,   \* daemons that own live sessions
  wedged,     \* daemons that answer nobody
  sock, token, pidf,  \* the files: the daemon that wrote them, 0 if absent;
  pidVer,             \* the app version recorded in the pid file, 0 for none
  app         \* the app: where it is, its version, what it has found out

files == <<sock, token, pidf, pidVer>>
supervisorVars == <<proc, sessions, wedged, files, app>>

Listening == {"bound", "serving", "flushing"}
Alive(d) == d \in Daemons /\ proc[d] \notin {"none", "dead"}
Connects == sock # 0 /\ proc[sock] \in Listening
Answers == Connects /\ proc[sock] \in {"serving", "flushing"} /\ sock \notin wedged

NoApp == [at |-> "none", ver |-> 0, health |-> "none", force |-> FALSE, child |-> 0, on |-> 0]

SupervisorInit ==
  /\ proc = [d \in Daemons |-> "none"] /\ sessions = {} /\ wedged = {}
  /\ sock = 0 /\ token = 0 /\ pidf = 0 /\ pidVer = 0
  /\ app = NoApp

Goto(l) == app' = [app EXCEPT !.at = l]

-----------------------------------------------------------------------------
(* The daemon process                                                      *)

Move(d, from, to) == proc[d] = from /\ proc' = [proc EXCEPT ![d] = to]

\* A predecessor's socket is unlinked, then bound.
DaemonBinds(d) ==
  /\ Move(d, "booting", "bound") /\ sock' = d
  /\ UNCHANGED <<sessions, wedged, token, pidf, pidVer, app>>

\* Token and pid file (without a version), then it serves.
DaemonServes(d) ==
  /\ Move(d, "bound", "serving") /\ token' = d /\ pidf' = d /\ pidVer' = 0
  /\ UNCHANGED <<sessions, wedged, sock, app>>

\* It dies: the bind fails, a crash, a kill from outside.
DaemonDies(d) ==
  /\ Alive(d) /\ proc' = [proc EXCEPT ![d] = "dead"] /\ sessions' = sessions \ {d}
  /\ UNCHANGED <<wedged, files, app>>

\* SIGTERM was received: a bounded flush, then the serve loop ends.
DaemonFlushed(d) ==
  /\ Move(d, "flushing", "unsock") /\ sessions' = sessions \ {d}
  /\ UNCHANGED <<wedged, files, app>>

\* Mutant: the pid file goes first.
DaemonCleansUpPidFirst(d) ==
  /\ \/ Move(d, "unsock", "untoken") /\ pidf' = 0 /\ pidVer' = 0 /\ UNCHANGED <<sock, token>>
     \/ Move(d, "untoken", "unpid") /\ token' = 0 /\ UNCHANGED <<sock, pidf, pidVer>>
     \/ Move(d, "unpid", "dead") /\ sock' = 0 /\ UNCHANGED <<token, pidf, pidVer>>
  /\ UNCHANGED <<sessions, wedged, app>>

\* After that it removes the files by name, whoever wrote them: socket, token, pid.
DaemonCleansUp(d) ==
  /\ \/ Move(d, "unsock", "untoken") /\ sock' = 0 /\ UNCHANGED <<token, pidf, pidVer>>
     \/ Move(d, "untoken", "unpid") /\ token' = 0 /\ UNCHANGED <<sock, pidf, pidVer>>
     \/ Move(d, "unpid", "dead") /\ pidf' = 0 /\ pidVer' = 0 /\ UNCHANGED <<sock, token>>
  /\ UNCHANGED <<sessions, wedged, app>>

\* A busy or stuck daemon stops answering, and may recover.
DaemonWedges(d) ==
  /\ proc[d] = "serving"
  /\ wedged' = IF d \in wedged THEN wedged \ {d} ELSE wedged \cup {d}
  /\ UNCHANGED <<proc, sessions, files, app>>

-----------------------------------------------------------------------------
(* The app                                                                 *)

\* The first terminal operation of an app; one that failed is tried again by the next.
Launch(ver) ==
  /\ app.at \in {"none", "failed"}
  /\ app' = [NoApp EXCEPT !.at = "probe", !.ver = ver]
  /\ UNCHANGED <<proc, sessions, wedged, files>>

\* restart_daemon never adopts: shutdown, kill, spawn.
RestartDaemon ==
  /\ app.at = "using"
  /\ app' = [NoApp EXCEPT !.at = "shutdown", !.ver = app.ver, !.force = TRUE]
  /\ UNCHANGED <<proc, sessions, wedged, files>>

AppQuits ==
  /\ app.at \in {"using", "failed"} /\ app' = NoApp
  /\ UNCHANGED <<proc, sessions, wedged, files>>

\* probe_health: the token, the hello, the pty spawn probe; a probe without an answer
\* reads as unreachable.
ProbeHealth ==
  /\ app.at = "probe"
  /\ \E h \in {"unreachable"} \cup (IF ~Answers \/ token = 0 THEN {}
                                    ELSE IF token # sock THEN {"rejected"} ELSE {"healthy", "broken"}) :
       app' = [app EXCEPT !.health = h, !.at = IF h = "healthy" THEN "stale" ELSE "count"]
  /\ UNCHANGED <<proc, sessions, wedged, files>>

\* is_daemon_process: alive, and its command line names the socket.
IsDaemonProcess == Alive(pidf)

\* A healthy daemon of this version, or one that cannot be identified, is adopted; one
\* of another version, or of none, is replaced.
CheckStale ==
  /\ app.at = "stale"
  /\ app' = IF IsDaemonProcess /\ pidVer # app.ver THEN [app EXCEPT !.at = "shutdown"]
            ELSE [app EXCEPT !.at = "using", !.on = sock]
  /\ UNCHANGED <<proc, sessions, wedged, files>>

\* Mutant: no session count before a daemon is given up.
CountSessionsSkipped ==
  /\ app.at = "count" /\ Goto("kill")
  /\ UNCHANGED <<proc, sessions, wedged, files>>

\* An unhealthy daemon that lists live sessions is kept; one that cannot be asked but
\* accepts connections is kept too, unless it refused the hello.
CountSessions ==
  /\ app.at = "count"
  /\ \/ /\ Answers /\ token = sock
        /\ app' = IF sock \in sessions THEN [app EXCEPT !.at = "using", !.on = sock]
                  ELSE [app EXCEPT !.at = "kill"]
     \/ app' = IF app.health # "rejected" /\ Connects
               THEN [app EXCEPT !.at = "using", !.on = sock] ELSE [app EXCEPT !.at = "kill"]
  /\ UNCHANGED <<proc, sessions, wedged, files>>

\* request_shutdown: the daemon ends its sessions and then itself; no reply is fine.
RequestShutdown ==
  /\ app.at = "shutdown" /\ Goto("kill")
  /\ \/ /\ Answers /\ token = sock /\ proc[sock] = "serving"
        /\ proc' = [proc EXCEPT ![sock] = "unsock"] /\ sessions' = sessions \ {sock}
     \/ UNCHANGED <<proc, sessions>>
  /\ UNCHANGED <<wedged, files>>

\* kill_stale: SIGTERM to the process the pid file names, if it is the daemon.
KillStaleTerm ==
  /\ app.at = "kill"
  /\ IF IsDaemonProcess
     THEN /\ app' = [app EXCEPT !.at = "wait", !.child = pidf]
          /\ proc' = [proc EXCEPT ![pidf] = IF @ = "serving" THEN "flushing"
                                            ELSE IF @ \in {"booting", "bound"} THEN "dead" ELSE @]
     ELSE app' = [app EXCEPT !.at = "unlink", !.child = 0] /\ UNCHANGED proc
  /\ UNCHANGED <<sessions, wedged, files>>

\* It exits, or is killed when the wait is over.
KillStaleKill ==
  /\ app.at = "wait" /\ Goto("unlink")
  /\ \/ ~Alive(app.child) /\ UNCHANGED <<proc, sessions>>
     \/ proc' = [proc EXCEPT ![app.child] = "dead"] /\ sessions' = sessions \ {app.child}
  /\ UNCHANGED <<wedged, files>>

\* The pid file goes; the socket if the daemon was killed or nobody listens.
KillStaleUnlink ==
  /\ app.at = "unlink" /\ app' = [app EXCEPT !.at = "spawn", !.child = 0]
  /\ pidf' = 0 /\ pidVer' = 0
  /\ sock' = IF app.child # 0 \/ ~Connects THEN 0 ELSE sock
  /\ UNCHANGED <<proc, sessions, wedged, token>>

NextDaemon == CHOOSE d \in Daemons : proc[d] = "none"

CanSpawn == app.at = "spawn" /\ \E d \in Daemons : proc[d] = "none"

\* spawn_daemon: a new token in the file, the binary, then the detached child.
SpawnDaemon ==
  /\ CanSpawn /\ token' = NextDaemon
  /\ proc' = [proc EXCEPT ![NextDaemon] = "booting"]
  /\ app' = [app EXCEPT !.at = "ready", !.child = NextDaemon]
  /\ UNCHANGED <<sessions, wedged, sock, pidf, pidVer>>

\* prepare_binary fails, after the token: it cannot be copied, or does not verify.
BinaryRefused ==
  /\ CanSpawn /\ token' = NextDaemon
  /\ Goto("failed")
  /\ UNCHANGED <<proc, sessions, wedged, sock, pidf, pidVer>>

\* The hello with the new token succeeds: the pid file gets the version.
Ready ==
  /\ app.at = "ready" /\ Answers /\ sock = app.child
  /\ app' = [app EXCEPT !.at = "using", !.on = app.child]
  /\ pidf' = app.child /\ pidVer' = app.ver
  /\ UNCHANGED <<proc, sessions, wedged, sock, token>>

\* The child exits, or the deadline passes and the child is killed.
NotReady ==
  /\ app.at = "ready" /\ Goto("failed")
  /\ proc' = [proc EXCEPT ![app.child] = "dead"]
  /\ UNCHANGED <<sessions, wedged, files>>

\* Terminals come and go.
UseDaemon ==
  /\ app.at = "using" /\ Answers /\ sock = app.on /\ token = sock /\ proc[sock] = "serving"
  /\ sessions' = IF sock \in sessions THEN sessions \ {sock} ELSE sessions \cup {sock}
  /\ UNCHANGED <<proc, wedged, files, app>>

SupervisorNext ==
  \/ \E d \in Daemons : DaemonBinds(d) \/ DaemonServes(d) \/ DaemonDies(d) \/ DaemonFlushed(d)
                        \/ DaemonCleansUp(d) \/ DaemonWedges(d)
  \/ \E ver \in Versions : Launch(ver)
  \/ RestartDaemon \/ AppQuits \/ ProbeHealth \/ CheckStale \/ CountSessions \/ RequestShutdown
  \/ KillStaleTerm \/ KillStaleKill \/ KillStaleUnlink \/ SpawnDaemon \/ BinaryRefused
  \/ Ready \/ NotReady
  \/ UseDaemon

SupervisorSpec == SupervisorInit /\ [][SupervisorNext]_supervisorVars

-----------------------------------------------------------------------------
(* Properties                                                              *)

\* A daemon an app uses and that has not been told to stop can be found again by the
\* next app: the socket and the token are its own.  A predecessor on its way out
\* removes them by name, so it has to be gone before the successor starts.
UsedIsFound ==
  app.at = "using" /\ app.on # 0 /\ proc[app.on] = "serving" => sock = app.on /\ token = app.on

\* What an app does beyond a user's request ends a daemon with live sessions only when
\* that is of another version or refused the hello.
KeepsSessions ==
  \A d \in sessions :
    d \notin sessions' /\ app'.at # app.at /\ app.at # "using"
      => app.force \/ app.health \in {"healthy", "rejected"}

\* So in every step: a daemon is never ended because it was slow or half broken.
SessionsKept == [][KeepsSessions]_supervisorVars

-----------------------------------------------------------------------------
(* Not kept by the code: TLC finds a counterexample, and no run checks it. *)

\* A daemon with live sessions is not replaced (supervisor.rs: "a daemon is never
\* killed unless it is positively identified as stale AND session-free").
OnlySessionFreeKilled ==
  [][\A d \in sessions : d \notin sessions' /\ app'.at # app.at => app.force]_supervisorVars
=============================================================================
