------------------------------ MODULE ProducerGate ------------------------------
(***************************************************************************)
(* Flow control and teardown of one grove-daemon session (session.rs): the *)
(* gate that parks the reader thread while the host has paused it, the     *)
(* failsafe thread every pause arms, the kill RPC with its watchdog, and   *)
(* the Exit frame, for which the reader waits for the child with the       *)
(* child's mutex held.                                                     *)
(***************************************************************************)
EXTENDS Naturals, FiniteSets

CONSTANTS
    BufCap,       \* what the kernel buffers of the terminal's output, in reads
    MaxPauses,    \* bound: pausePty notifications
    MaxResumes,   \* bound: resumes from outside
    MaxOut        \* bound: reads' worth of output

ASSUME GateAssumption ==
    BufCap \in Nat \ {0} /\ MaxPauses \in Nat /\ MaxResumes \in Nat /\ MaxOut \in Nat

VARIABLES
    paused, gen,  \* ProducerState
    armed,        \* failsafe threads asleep: the generation each was armed with, and
                  \* the number of the pause that armed it (a ghost)
    rdr,          \* where the reader thread stands in run_reader
    alive,        \* Session.alive
    master,       \* the master side of the terminal is held
    lockedBy,     \* who holds the mutex of Session.child
    child,        \* the child process
    tty,          \* the child's side of the terminal is open
    buf,          \* output the kernel holds
    made,         \* output the child has produced
    kill,         \* where the kill RPC stands
    dog,          \* where its watchdog thread stands
    exited,       \* the Exit frame was emitted
    npauses, nresumes,
    leak          \* ghost: reads since the producer was paused

gate  == <<paused, gen, armed>>
proc  == <<child, tty, buf, made>>
down  == <<kill, dog>>
vars  == <<gate, rdr, alive, master, lockedBy, proc, down, exited, npauses, nresumes, leak>>

Init ==
    /\ paused = FALSE /\ gen = 0 /\ armed = {}
    /\ rdr = "gate" /\ alive = TRUE /\ master = TRUE /\ lockedBy = "nobody"
    /\ child = "running" /\ tty = TRUE /\ buf = 0 /\ made = 0
    /\ kill = "idle" /\ dog = "off" /\ exited = FALSE
    /\ npauses = 0 /\ nresumes = 0 /\ leak = 0

(***************************************************************************)
(* pause_producer, its failsafe, resume_producer                           *)
(***************************************************************************)
\* Mutant: a re-pause keeps the generation.
PauseKeepsGeneration ==
    /\ npauses < MaxPauses /\ alive
    /\ npauses' = npauses + 1
    /\ paused' = TRUE /\ gen' = IF paused THEN gen ELSE gen + 1
    /\ armed' = armed \cup {[gen |-> gen', nth |-> npauses + 1]}
    /\ leak' = IF paused THEN leak ELSE 0
    /\ UNCHANGED <<rdr, alive, master, lockedBy, proc, down, exited, nresumes>>
\* Mutant: no failsafe is armed.
PauseUnarmed ==
    /\ npauses < MaxPauses /\ alive
    /\ npauses' = npauses + 1
    /\ paused' = TRUE /\ gen' = gen + 1
    /\ leak' = IF paused THEN leak ELSE 0
    /\ UNCHANGED <<armed, rdr, alive, master, lockedBy, proc, down, exited, nresumes>>
PauseProducer ==
    /\ npauses < MaxPauses /\ alive
    /\ npauses' = npauses + 1
    /\ paused' = TRUE /\ gen' = gen + 1
    /\ armed' = armed \cup {[gen |-> gen + 1, nth |-> npauses + 1]}
    /\ leak' = IF paused THEN leak ELSE 0
    /\ UNCHANGED <<rdr, alive, master, lockedBy, proc, down, exited, nresumes>>

\* A failsafe wakes; a generation that moved on cancels it.
Failsafe(a) ==
    /\ a \in armed
    /\ armed' = armed \ {a}
    /\ IF gen = a.gen /\ paused
         THEN paused' = FALSE /\ gen' = gen + 1
         ELSE UNCHANGED <<paused, gen>>
    /\ UNCHANGED <<rdr, alive, master, lockedBy, proc, down, exited, npauses, nresumes, leak>>

\* resume_producer.
Resumed == paused' = FALSE /\ gen' = gen + 1 /\ armed' = armed

\* resumePty, or the last stream client going away.
ResumeProducer ==
    /\ nresumes < MaxResumes
    /\ nresumes' = nresumes + 1
    /\ Resumed
    /\ UNCHANGED <<rdr, alive, master, lockedBy, proc, down, exited, npauses, leak>>

(***************************************************************************)
(* The child                                                               *)
(***************************************************************************)
ChildWrites ==
    /\ child # "gone" /\ tty /\ buf < BufCap /\ made < MaxOut
    /\ buf' = buf + 1 /\ made' = made + 1
    /\ UNCHANGED <<gate, rdr, alive, master, lockedBy, child, tty, down, exited,
                   npauses, nresumes, leak>>

\* The end of the session leader hangs its terminal up.
ChildEnds ==
    /\ child' = "gone" /\ tty' = FALSE
    /\ UNCHANGED <<gate, rdr, alive, master, lockedBy, buf, made, down, exited,
                   npauses, nresumes, leak>>
ChildExits == child = "running" /\ ChildEnds
\* The signal takes effect.
ChildDies == child = "signalled" /\ ChildEnds

ChildClosesTty ==
    /\ child # "gone" /\ tty
    /\ tty' = FALSE
    /\ UNCHANGED <<gate, rdr, alive, master, lockedBy, child, buf, made, down, exited,
                   npauses, nresumes, leak>>

(***************************************************************************)
(* The reader thread: run_reader                                           *)
(***************************************************************************)
\* Mutant: the gate is tried only before a read that would block.
PassGateUnlessData ==
    /\ rdr = "gate"
    /\ rdr' = IF paused /\ buf = 0 THEN "parked" ELSE "read"
    /\ UNCHANGED <<gate, alive, master, lockedBy, proc, down, exited, npauses, nresumes, leak>>
\* producer_wait_if_paused.
PassGate ==
    /\ rdr = "gate"
    /\ rdr' = IF paused THEN "parked" ELSE "read"
    /\ UNCHANGED <<gate, alive, master, lockedBy, proc, down, exited, npauses, nresumes, leak>>

\* Mutant: only a kill notifies the parked reader.
UnparkOnKill ==
    /\ rdr = "parked" /\ ~paused /\ kill # "idle"
    /\ rdr' = "read"
    /\ UNCHANGED <<gate, alive, master, lockedBy, proc, down, exited, npauses, nresumes, leak>>
Unpark ==
    /\ rdr = "parked" /\ ~paused
    /\ rdr' = "read"
    /\ UNCHANGED <<gate, alive, master, lockedBy, proc, down, exited, npauses, nresumes, leak>>

\* Ok(n): the chunk is teed and pushed to the coalescer.
ReadChunk ==
    /\ rdr = "read" /\ master /\ buf > 0
    /\ buf' = buf - 1
    /\ rdr' = "gate"
    /\ leak' = IF paused THEN leak + 1 ELSE leak
    /\ UNCHANGED <<gate, alive, master, lockedBy, child, tty, made, down, exited,
                   npauses, nresumes>>

\* Ok(0) or an error: the other side is closed and drained, or the master is gone.
ReadStops ==
    /\ rdr = "read" /\ (~master \/ (~tty /\ buf = 0))
    /\ alive' = FALSE
    /\ rdr' = "exit"
    /\ UNCHANGED <<gate, master, lockedBy, proc, down, exited, npauses, nresumes, leak>>

\* emit_exit takes the child's mutex and waits under it.
LockChild ==
    /\ rdr = "exit" /\ lockedBy = "nobody"
    /\ lockedBy' = "reader"
    /\ rdr' = "waiting"
    /\ UNCHANGED <<gate, alive, master, proc, down, exited, npauses, nresumes, leak>>

WaitChild ==
    /\ rdr = "waiting" /\ child = "gone"
    /\ lockedBy' = "nobody"
    /\ exited' = TRUE
    /\ master' = FALSE
    /\ rdr' = "done"
    /\ UNCHANGED <<gate, alive, proc, down, npauses, nresumes, leak>>

Reader == PassGate \/ Unpark \/ ReadChunk \/ ReadStops \/ LockChild \/ WaitChild

(***************************************************************************)
(* Session::kill and its watchdog                                          *)
(***************************************************************************)
KillArrives ==
    /\ kill = "idle"
    /\ kill' = "signal"
    /\ Resumed
    /\ UNCHANGED <<rdr, alive, master, lockedBy, proc, dog, exited, npauses, nresumes, leak>>

\* Mutant: the signal is lost.
SignalLost == child' = child
Signalled == child' = IF child = "running" THEN "signalled" ELSE child

\* The child is signalled under its mutex, then the watchdog is started.
KillSignals ==
    /\ kill = "signal" /\ lockedBy = "nobody"
    /\ Signalled
    /\ kill' = "done" /\ dog' = "sleep"
    /\ UNCHANGED <<gate, rdr, alive, master, lockedBy, tty, buf, made, exited,
                   npauses, nresumes, leak>>

WatchdogWakes ==
    /\ dog = "sleep"
    /\ IF alive THEN dog' = "signal" /\ Resumed
                ELSE dog' = "done" /\ UNCHANGED gate
    /\ UNCHANGED <<rdr, alive, master, lockedBy, proc, kill, exited, npauses, nresumes, leak>>

WatchdogSignals ==
    /\ dog = "signal" /\ lockedBy = "nobody"
    /\ Signalled
    /\ dog' = "drop"
    /\ UNCHANGED <<gate, rdr, alive, master, lockedBy, tty, buf, made, kill, exited,
                   npauses, nresumes, leak>>

WatchdogDrops ==
    /\ dog = "drop"
    /\ master' = FALSE
    /\ dog' = "done"
    /\ UNCHANGED <<gate, rdr, alive, lockedBy, proc, kill, exited, npauses, nresumes, leak>>

Watchdog == WatchdogWakes \/ WatchdogSignals \/ WatchdogDrops

Next ==
    \/ PauseProducer \/ ResumeProducer \/ \E a \in armed : Failsafe(a)
    \/ ChildWrites \/ ChildExits \/ ChildDies \/ ChildClosesTty
    \/ Reader \/ KillArrives \/ KillSignals \/ Watchdog

\* Threads run, failsafes and the watchdog wake, and a signalled child dies; the host,
\* and a child left alone, owe nothing.
Fairness ==
    /\ WF_vars(Reader) /\ WF_vars(\E a \in armed : Failsafe(a)) /\ WF_vars(ChildDies)
    /\ WF_vars(KillSignals) /\ WF_vars(Watchdog)

Spec == Init /\ [][Next]_vars /\ Fairness

(***************************************************************************)
(* Properties                                                              *)
(***************************************************************************)
\* Types of the gate, the reader, the child and the teardown.
TypeOK ==
    /\ paused \in BOOLEAN /\ gen \in Nat
    /\ armed \subseteq [gen : Nat, nth : Nat]
    /\ rdr \in {"gate", "parked", "read", "exit", "waiting", "done"}
    /\ alive \in BOOLEAN /\ master \in BOOLEAN /\ lockedBy \in {"nobody", "reader"}
    /\ child \in {"running", "signalled", "gone"} /\ tty \in BOOLEAN
    /\ buf \in 0 .. BufCap /\ made \in Nat
    /\ kill \in {"idle", "signal", "done"} /\ dog \in {"off", "sleep", "signal", "drop", "done"}
    /\ exited \in BOOLEAN /\ npauses \in Nat /\ nresumes \in Nat /\ leak \in Nat

\* A failsafe only ends its own pause (generation): one armed by an earlier pause never
\* resumes a producer that the host has paused again since.
FailsafeEndsOwnPause ==
    [][\A a \in armed : a \notin armed' /\ paused /\ ~paused' => a.nth = npauses]_vars

\* A pause takes hold (run_reader): the reader takes at most one more chunk, the one it
\* was past the gate for, however often the host pauses again.
PauseTakesHold == paused => leak <= 1

\* A pause always has its failsafe (pause_producer): a paused producer has a sleeping
\* failsafe thread of the current generation, whatever resumes, failsafes, kills and
\* watchdogs have done to it before.
PausedIsArmed == paused => \E a \in armed : a.gen = gen

\* No reader is parked for ever (S14): a lost resume, or a host that went away, leaves
\* the reader parked no longer than its failsafe.
ParkedReaderWakes == rdr = "parked" ~> rdr # "parked"

\* A child that has closed its terminal and runs on.
Detached == ~tty /\ child # "gone"

\* A kill ends in the Exit frame (kill, emit_exit), paused or not and however the
\* child's end, the watchdog and pauses interleave, unless the child stays detached.
KillEndsInExit == kill = "signal" ~> (exited \/ []Detached)

-----------------------------------------------------------------------------
(* Not kept by the code: TLC finds a counterexample, and no run checks it. *)

\* No child, however wedged, keeps the session alive once it is killed (kill).
KillAlwaysEnds == kill = "signal" ~> exited
================================================================================
