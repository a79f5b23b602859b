---------------------------- MODULE InputWriter ----------------------------
(***************************************************************************)
(* A terminal's input path: the session's forwarder takes writes off its   *)
(* channel one by one (session.rs) and gives each to the PtyWriter         *)
(* (pty.rs), whose thread is the only one that writes to the PTY.  A write *)
(* waits for room in the queue, then for its completion slot, both under   *)
(* one deadline, which may pass at any time; a wedged terminal never       *)
(* finishes a write.  The daemon has one forwarder per session; the writer *)
(* itself is meant for any number of calling threads.                      *)
(***************************************************************************)
EXTENDS Integers, Sequences, FiniteSets, FiniteSetsExt, SequencesExt

CONSTANTS Writers, MaxWrites,
          Sizes,       \* the sizes a write may have
          MaxQueued    \* MAX_WRITE_QUEUE_BYTES

ASSUME InputAssumption == MaxWrites \in Nat /\ MaxQueued \in Nat /\ Sizes \subseteq Nat \ {0}

VARIABLES
  stage,      \* stage[w]: "idle", "admit" (phase 1) or "wait" (phase 2)
  size,       \* size[w]: the size of w's current write
  asked, answer, arrived,   \* see InputChannel
  queue, queued,     \* WriterInner: the jobs and queued_bytes
  closed,
  writing,    \* the job the writer thread holds, NoJob, or Ended once the thread is gone
  completion  \* completion[<<w, n>>]: the completion slot: "empty", "ok" or "err"

inputVars == <<stage, size, asked, answer, arrived, queue, queued, closed, writing, completion>>

Jobs == Writers \X (1..MaxWrites)
NoJob == <<"none", 0>>
Ended == <<"ended", 0>>
Job(w) == <<w, asked[w]>>

InputInit ==
  /\ stage = [w \in Writers |-> "idle"] /\ size = [w \in Writers |-> 0]
  /\ asked = [w \in Writers |-> 0] /\ answer = [w \in Writers |-> <<>>] /\ arrived = <<>>
  /\ queue = <<>> /\ queued = 0 /\ closed = FALSE
  /\ writing = NoJob /\ completion = [j \in Jobs |-> "empty"]

-----------------------------------------------------------------------------
(* The calling thread                                                      *)

\* The forwarder receives the next write from its channel and calls write; an empty
\* one never gets this far.
Write(w) ==
  /\ stage[w] = "idle" /\ ~closed /\ asked[w] < MaxWrites
  /\ \E s \in Sizes : size' = [size EXCEPT ![w] = s]
  /\ asked' = [asked EXCEPT ![w] = @ + 1]
  /\ stage' = [stage EXCEPT ![w] = "admit"]
  /\ UNCHANGED <<answer, arrived, queue, queued, closed, writing, completion>>

Returns(w, ok) ==
  /\ stage' = [stage EXCEPT ![w] = "idle"]
  /\ answer' = [answer EXCEPT ![w] = Append(@, ok)]

\* An empty queue admits a write of any size.
Fits(s) == queued = 0 \/ queued + s <= MaxQueued

\* Phase 1: queue the job when it fits ...
Admit(w) ==
  /\ stage[w] = "admit" /\ Fits(size[w])
  /\ queue' = Append(queue, [job |-> Job(w), size |-> size[w]])
  /\ queued' = queued + size[w]
  /\ stage' = [stage EXCEPT ![w] = "wait"]
  /\ UNCHANGED <<size, asked, answer, arrived, closed, writing, completion>>

\* ... or give up at the deadline.
AdmitTimesOut(w) ==
  /\ stage[w] = "admit" /\ ~Fits(size[w])
  /\ Returns(w, FALSE)
  /\ UNCHANGED <<size, asked, arrived, queue, queued, closed, writing, completion>>

\* Phase 2: the slot is filled ...
Completed(w) ==
  /\ stage[w] = "wait" /\ completion[Job(w)] # "empty"
  /\ Returns(w, completion[Job(w)] = "ok")
  /\ UNCHANGED <<size, asked, arrived, queue, queued, closed, writing, completion>>

\* Mutant: no deadline on the completion.
DeadlineNever(w) == FALSE /\ UNCHANGED inputVars

\* ... or the deadline passes: drop_queued_job takes the job back if the writer has
\* not begun it.
Deadline(w) ==
  /\ stage[w] = "wait" /\ completion[Job(w)] = "empty"
  /\ Returns(w, FALSE)
  /\ \/ \E i \in 1..Len(queue) :
          /\ queue[i].job = Job(w)
          /\ queue' = RemoveAt(queue, i) /\ queued' = queued - size[w]
     \/ /\ \A i \in 1..Len(queue) : queue[i].job # Job(w)
        /\ UNCHANGED <<queue, queued>>
  /\ UNCHANGED <<size, asked, arrived, closed, writing, completion>>

\* Drop: the last handle goes, so no call is in progress.
Close ==
  /\ ~closed /\ \A w \in Writers : stage[w] = "idle"
  /\ closed' = TRUE
  /\ UNCHANGED <<stage, size, asked, answer, arrived, queue, queued, writing, completion>>

-----------------------------------------------------------------------------
(* The writer thread                                                       *)

Pop ==
  /\ writing = NoJob /\ queue # <<>>
  /\ writing' = Head(queue).job
  /\ queue' = Tail(queue) /\ queued' = queued - Head(queue).size
  /\ UNCHANGED <<stage, size, asked, answer, arrived, closed, completion>>

\* write_all ends: the bytes are in the terminal, or (an error) none or some are; only
\* then is the slot filled.  A failed write after close ends the thread.
BytesLand ==
  /\ writing \in Jobs /\ \A i \in 1..Len(arrived) : arrived[i] # writing
  /\ arrived' = Append(arrived, writing)
  /\ UNCHANGED <<stage, size, asked, answer, queue, queued, closed, writing, completion>>

\* Mutant: the caller is told before the bytes are written.
FillSlotEarly(ok) ==
  /\ writing \in Jobs
  /\ completion' = [completion EXCEPT ![writing] = IF ok THEN "ok" ELSE "err"]
  /\ writing' = IF ~ok /\ closed THEN Ended ELSE NoJob
  /\ UNCHANGED <<stage, size, asked, answer, arrived, queue, queued, closed>>

FillSlot(ok) ==
  /\ writing \in Jobs
  /\ ok => \E i \in 1..Len(arrived) : arrived[i] = writing
  /\ completion' = [completion EXCEPT ![writing] = IF ok THEN "ok" ELSE "err"]
  /\ writing' = IF ~ok /\ closed THEN Ended ELSE NoJob
  /\ UNCHANGED <<stage, size, asked, answer, arrived, queue, queued, closed>>

WriterEnds ==
  /\ writing = NoJob /\ queue = <<>> /\ closed
  /\ writing' = Ended
  /\ UNCHANGED <<stage, size, asked, answer, arrived, queue, queued, closed, completion>>

InputNext ==
  \/ \E w \in Writers : Write(w) \/ Admit(w) \/ AdmitTimesOut(w) \/ Completed(w) \/ Deadline(w)
  \/ Close \/ Pop \/ BytesLand \/ WriterEnds
  \/ \E ok \in BOOLEAN : FillSlot(ok)

\* A waiting call ends when its slot is filled or its deadline passes; the terminal
\* promises nothing.
InputFairness ==
  \A w \in Writers : WF_inputVars(Admit(w) \/ AdmitTimesOut(w) \/ Completed(w) \/ Deadline(w))

InputSpec == InputInit /\ [][InputNext]_inputVars /\ InputFairness

-----------------------------------------------------------------------------
(* Properties                                                              *)

\* What the path promises; the queue, the slots and the deadlines are hidden.
IC == INSTANCE InputChannel WITH asked <- asked, arrived <- arrived, answer <- answer

\* The queue, the slots and the deadlines implement an ordered channel: what arrives
\* is in the order it was written, and ok means it arrived.
OrderedChannel == IC!ChannelInit /\ [][IC!ChannelNext]_<<asked, arrived, answer>>

\* Every write returns, even to a terminal that never takes another byte.
WritesReturn == \A w \in Writers : stage[w] # "idle" ~> stage[w] = "idle"
=============================================================================
