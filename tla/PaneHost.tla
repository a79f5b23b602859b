------------------------------ MODULE PaneHost ------------------------------
(***************************************************************************)
(* One terminal pane from the shell's output to the screen: the daemon's   *)
(* reader tees every chunk into the emulator and the output coalescer      *)
(* (session.rs, pty.rs), the flusher turns batches into stream frames, and *)
(* the host's adapter holds frames back behind its replay gate until       *)
(* createOrAttach has answered with a snapshot (pty.rs).                   *)
(*                                                                         *)
(* Output is a sequence of chunks numbered 1, 2, ...; a snapshot is the    *)
(* number of chunks the emulator holds.  A frame carries the cumulative    *)
(* count of delivered chunks.  An emulator that panicked (the ring's tail  *)
(* instead of a snapshot) and the pane's saved mirror are left out.        *)
(***************************************************************************)
EXTENDS Integers, Sequences, FiniteSets

CONSTANTS MaxChunks,     \* chunks the shell prints
          MaxPendingOut  \* MAX_PENDING_BYTES of the coalescer, in chunks

ASSUME PaneAssumption == MaxChunks \in Nat /\ MaxPendingOut \in Nat \ {0}

VARIABLES
  \* the daemon's session
  shell,        \* "none", "live" or "dead"
  reader,       \* where the reader thread is
  made, fed, ingest,  \* chunks read, in the emulator, and counted by ingest_seq
  pend, cut,    \* the coalescer's pending output, and whether its cap dropped some
  flusher, batch, sent,  \* the flusher thread, what it holds, and the delivered count
  snap,         \* the sequence number a snapshot in progress has read, or -1
  reply,        \* the answer to createOrAttach on the control socket
  \* the stream socket and the host
  stream,
  pane,         \* where pty::create is
  subscribed, known,     \* the client's subscriber, and its belief that the session lives
  gate,         \* the adapter's ReplayGate
  registered,   \* the pane is in the registry
  overtaken,    \* the Exit frame was dispatched before the answer to createOrAttach
  painted       \* what was handed to the renderer, piece by piece

session == <<shell, reader, made, fed, ingest>>
coalescer == <<pend, cut, flusher, batch, sent>>
host == <<pane, subscribed, known, gate, registered, overtaken, painted>>
paneVars == <<session, coalescer, snap, reply, stream, host>>

NoAnswer == [kind |-> "none", upto |-> 0, seq |-> 0]
\* An earlier app may have left the session running, with output nobody watched; the
\* client's resync has then put it into known_alive.
PaneInit ==
  /\ shell \in {"none", "live"} /\ reader = "idle"
  /\ made \in (IF shell = "live" THEN 0..1 ELSE {0})
  /\ fed = made /\ ingest = made /\ sent = made
  /\ pend = <<>> /\ cut = FALSE /\ flusher = "idle" /\ batch = <<>>
  /\ snap = -1 /\ reply = NoAnswer /\ stream = <<>>
  /\ pane = "none" /\ subscribed = FALSE /\ known = (shell = "live")
  /\ gate = [closed |-> TRUE, frames |-> <<>>, exited |-> FALSE]
  /\ registered = FALSE /\ overtaken = FALSE /\ painted = <<>>

-----------------------------------------------------------------------------
(* The daemon: reader, coalescer, flusher                                  *)

\* A read: the chunk goes into the emulator ...
Tee ==
  /\ shell = "live" /\ reader = "idle" /\ made < MaxChunks
  /\ made' = made + 1 /\ fed' = fed + 1 /\ reader' = "fed"
  /\ UNCHANGED <<shell, ingest, coalescer, snap, reply, stream, host>>

\* ... and is counted after that ...
CountChunk ==
  /\ reader = "fed"
  /\ ingest' = ingest + 1 /\ reader' = "counted"
  /\ UNCHANGED <<shell, made, fed, coalescer, snap, reply, stream, host>>

\* ... and pushed.  Past the cap the oldest pending output is dropped.
Push ==
  /\ reader = "counted"
  /\ reader' = "idle"
  /\ LET p == Append(pend, made) IN
     /\ pend' = IF Len(p) > MaxPendingOut THEN Tail(p) ELSE p
     /\ cut' = (cut \/ Len(p) > MaxPendingOut)
  /\ UNCHANGED <<shell, made, fed, ingest, flusher, batch, sent, snap, reply, stream, host>>

\* The flusher drains under the lock when its window ends or the coalescer closes ...
FlusherDrains ==
  /\ flusher = "idle" /\ pend # <<>>
  /\ batch' = pend /\ pend' = <<>> /\ flusher' = "busy"
  /\ UNCHANGED <<session, cut, sent, snap, reply, stream, host>>

\* ... and emits outside of it: one Data frame per batch.
FlusherEmits ==
  /\ flusher = "busy"
  /\ sent' = sent + Len(batch)
  /\ stream' = Append(stream, [kind |-> "data", seq |-> sent', data |-> batch])
  /\ batch' = <<>> /\ flusher' = "idle"
  /\ UNCHANGED <<session, pend, cut, snap, reply, host>>

FlusherEnds ==
  /\ flusher = "idle" /\ reader = "closing" /\ pend = <<>>
  /\ flusher' = "done"
  /\ UNCHANGED <<session, pend, cut, batch, sent, snap, reply, stream, host>>

\* End of file: the session is dead, the coalescer closes.
ReadEof ==
  /\ shell = "live" /\ reader = "idle"
  /\ shell' = "dead" /\ reader' = "closing"
  /\ UNCHANGED <<made, fed, ingest, coalescer, snap, reply, stream, host>>

\* close_and_join is the barrier before the Exit frame.
EmitExit ==
  /\ reader = "closing" /\ flusher = "done"
  /\ reader' = "exited"
  /\ stream' = Append(stream, [kind |-> "exit", seq |-> sent, data |-> <<>>])
  /\ UNCHANGED <<shell, made, fed, ingest, coalescer, snap, reply, host>>

-----------------------------------------------------------------------------
(* createOrAttach                                                          *)

\* pty::create: not twice for one pane; it subscribes before it asks.
Create ==
  /\ pane = "none" /\ ~registered
  /\ pane' = "asked" /\ subscribed' = TRUE
  /\ UNCHANGED <<session, coalescer, snap, reply, stream, known, gate, registered, overtaken, painted>>

\* The daemon has no such session: it spawns one.
AnswerNew ==
  /\ pane = "asked" /\ reply = NoAnswer /\ snap = -1 /\ shell = "none"
  /\ shell' = "live"
  /\ reply' = [kind |-> "new", upto |-> 0, seq |-> 0]
  /\ UNCHANGED <<reader, made, fed, ingest, coalescer, snap, stream, host>>

\* It has one: the snapshot reads the ingestion counter first ...
SnapshotSeq ==
  /\ pane = "asked" /\ reply = NoAnswer /\ snap = -1 /\ shell = "live"
  /\ snap' = ingest
  /\ UNCHANGED <<session, coalescer, reply, stream, host>>

\* ... and then the emulator.
SnapshotContent ==
  /\ snap # -1 /\ reply = NoAnswer
  /\ reply' = [kind |-> "warm", upto |-> fed, seq |-> snap]
  /\ UNCHANGED <<session, coalescer, snap, stream, host>>

\* The call fails: the subscription goes, the pane is not registered.
CreateFails ==
  /\ pane = "asked"
  /\ pane' = "failed" /\ subscribed' = FALSE
  /\ UNCHANGED <<session, coalescer, snap, reply, stream, known, gate, registered, overtaken, painted>>

\* The reply: the client believes the session alive, the snapshot goes to the screen.
Answered ==
  /\ pane = "asked" /\ reply # NoAnswer
  /\ pane' = "answered" /\ known' = TRUE
  /\ painted' = <<[i \in 1..reply.upto |-> i]>>
  /\ UNCHANGED <<session, coalescer, snap, reply, stream, subscribed, gate, registered, overtaken>>

\* Mutant: a frame that straddles the snapshot's end is taken for contained.
AfterSnapshotDropping(f) ==
  IF reply.kind = "warm" /\ f.seq - Len(f.data) < reply.seq THEN <<>> ELSE f.data

\* What a held frame adds to the snapshot: nothing, its tail, or all of it.
AfterSnapshot(f) ==
  IF reply.kind = "new" THEN f.data
  ELSE LET start == f.seq - Len(f.data)
           skip == IF f.seq <= reply.seq THEN Len(f.data)
                   ELSE IF start < reply.seq THEN reply.seq - start ELSE 0
       IN SubSeq(f.data, skip + 1, Len(f.data))

\* Mutant: the registration does not look at the recorded exit.
OpenGateRegisters ==
  /\ pane = "answered"
  /\ pane' = "open"
  /\ registered' = TRUE
  /\ painted' = painted \o [i \in 1..Len(gate.frames) |-> AfterSnapshot(gate.frames[i])]
  /\ gate' = [closed |-> FALSE, frames |-> <<>>, exited |-> gate.exited]
  /\ subscribed' = (subscribed /\ ~gate.exited)
  /\ UNCHANGED <<session, coalescer, snap, reply, stream, known, overtaken>>

\* open_gate, all of it under the gate's lock: register unless the exit was recorded,
\* replay what was held; a recorded exit then tears the pane down.
OpenGate ==
  /\ pane = "answered"
  /\ pane' = "open"
  /\ registered' = ~gate.exited
  /\ painted' = painted \o [i \in 1..Len(gate.frames) |-> AfterSnapshot(gate.frames[i])]
  /\ gate' = [closed |-> FALSE, frames |-> <<>>, exited |-> gate.exited]
  /\ subscribed' = (subscribed /\ ~gate.exited)
  /\ UNCHANGED <<session, coalescer, snap, reply, stream, known, overtaken>>

-----------------------------------------------------------------------------
(* Frames and the pane's end                                               *)

\* A Data frame: held while the gate is closed, painted after that, dropped without
\* a subscriber.
OnData ==
  /\ stream # <<>> /\ Head(stream).kind = "data"
  /\ stream' = Tail(stream)
  /\ gate' = IF subscribed /\ gate.closed
             THEN [gate EXCEPT !.frames = Append(@, Head(stream))] ELSE gate
  /\ painted' = IF subscribed /\ ~gate.closed THEN Append(painted, Head(stream).data) ELSE painted
  /\ UNCHANGED <<session, coalescer, snap, reply, pane, subscribed, known, registered, overtaken>>

\* An Exit frame: only a session believed alive has an exit to deliver.  It is
\* recorded while the gate is closed, and tears the pane down after that.
OnExit ==
  /\ stream # <<>> /\ Head(stream).kind = "exit"
  /\ stream' = Tail(stream)
  /\ known' = FALSE
  /\ overtaken' = (overtaken \/ pane = "asked")
  /\ IF known /\ subscribed
     THEN IF gate.closed
          THEN gate' = [gate EXCEPT !.exited = TRUE] /\ UNCHANGED <<registered, subscribed>>
          ELSE registered' = FALSE /\ subscribed' = FALSE /\ UNCHANGED gate
     ELSE UNCHANGED <<gate, registered, subscribed>>
  /\ UNCHANGED <<session, coalescer, snap, reply, pane, painted>>

\* pty::close, and what a worktree's removal does for its panes: the session is killed
\* (its end of file follows), the registry entry and the subscription go.
ClosePane ==
  /\ pane = "open" /\ registered
  /\ pane' = "closed" /\ registered' = FALSE /\ subscribed' = FALSE
  /\ UNCHANGED <<session, coalescer, snap, reply, stream, known, gate, overtaken, painted>>

PaneNext ==
  \/ Tee \/ CountChunk \/ Push \/ FlusherDrains \/ FlusherEmits \/ FlusherEnds
  \/ ReadEof \/ EmitExit
  \/ Create \/ AnswerNew \/ SnapshotSeq \/ SnapshotContent \/ CreateFails \/ Answered \/ OpenGate
  \/ OnData \/ OnExit \/ ClosePane

PaneSpec == PaneInit /\ [][PaneNext]_paneVars

-----------------------------------------------------------------------------
(* Properties                                                              *)

\* Chunk c is on the screen before the k-th chunk of the i-th piece.
ShownBefore(c, i, k) ==
  \/ \E m \in 1..(k - 1) : painted[i][m] = c
  \/ \E j \in 1..(i - 1) : \E m \in 1..Len(painted[j]) : painted[j][m] = c
Shown(c) == \E j \in 1..Len(painted) : \E m \in 1..Len(painted[j]) : painted[j][m] = c

\* Nothing is lost on the way to the screen, whatever the snapshot and the held
\* frames overlap: no painted chunk has a gap before it, and once everything has
\* drained all output was painted; and none is left behind the Exit frame, after which
\* nobody reads it.  (The coalescer's cap is the one exception.)
NothingLost ==
  /\ pane = "open" /\ ~cut =>
       /\ \A i \in 1..Len(painted) : \A k \in 1..Len(painted[i]) :
            painted[i][k] = 1 \/ ShownBefore(painted[i][k] - 1, i, k)
       /\ subscribed /\ reader = "idle" /\ flusher = "idle" /\ pend = <<>> /\ stream = <<>>
            => \A c \in 1..made : Shown(c)
  /\ reader = "exited" => pend = <<>> /\ batch = <<>>

\* The client has read the session's Exit frame.
ExitDelivered == reader = "exited" /\ \A i \in 1..Len(stream) : stream[i].kind # "exit"

\* A pane whose session's Exit frame has been read is not in the registry once create is
\* done, even when the exit overtook the answer; except that of a session this very call
\* spawned, if it overtook the answer.
ExitedNotRegistered ==
  ExitDelivered /\ pane \in {"open", "closed"} /\ ~(overtaken /\ reply.kind = "new") => ~registered

-----------------------------------------------------------------------------
(* Not kept by the code: TLC finds a counterexample, and no run checks it. *)

\* What the comments on the replay gate say, without that exception: "an instantly-dying
\* shell can report its exit before `create` has registered anything.  That exit is
\* recorded here and honored by `open_gate`".  But the Exit frame of a session that is
\* not in known_alive yet is dropped.
EarlyExitHonored == ExitDelivered /\ pane = "open" => ~registered

\* No chunk is painted twice (pty.rs: "nothing is lost and nothing is double-painted").
PaintedOnce ==
  \A i \in 1..Len(painted) : \A k \in 1..Len(painted[i]) : ~ShownBefore(painted[i][k], i, k)

=============================================================================
