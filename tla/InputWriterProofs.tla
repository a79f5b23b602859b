------------------------- MODULE InputWriterProofs -------------------------
(***************************************************************************)
(* The queue, the completion slots and the deadlines of PtyWriter          *)
(* implement the ordered channel of InputChannel, for any number of        *)
(* calling threads, any sizes and any capacity of the queue.               *)
(***************************************************************************)
EXTENDS InputWriter, SequenceTheorems, TLAPS

\* The types the argument needs; the sizes and queued_bytes play no part in it.
InputTypes ==
  /\ stage \in [Writers -> {"idle", "admit", "wait"}]
  /\ asked \in [Writers -> 0..MaxWrites]
  /\ answer \in [Writers -> Seq(BOOLEAN)]
  /\ arrived \in Seq(Jobs)
  /\ queue \in Seq([job : Jobs, size : Nat])
  /\ size \in [Writers -> Nat]
  /\ writing \in Jobs \cup {NoJob, Ended}
  /\ completion \in [Jobs -> {"empty", "ok", "err"}]

\* Every write but the one in progress has been answered.
AnswersInStep ==
  \A w \in Writers :
    asked[w] = IF stage[w] = "idle" THEN Len(answer[w]) ELSE Len(answer[w]) + 1

\* Nothing is known of a write that has not been asked for.
Begun ==
  /\ \A j \in Jobs : completion[j] # "empty" => j[2] <= asked[j[1]]
  /\ \A i \in 1..Len(arrived) : arrived[i][2] <= asked[arrived[i][1]]
  /\ writing \in Jobs => writing[2] <= asked[writing[1]]

\* The writer thread has not seen job j.
Unseen(j) ==
  completion[j] = "empty" /\ writing # j /\ \A i \in 1..Len(arrived) : arrived[i] # j

\* A write that still waits for room is nowhere but with its caller.
NotYetAdmitted == \A w \in Writers : stage[w] = "admit" => Unseen(Job(w))

\* A queued job is the one its caller waits for, the writer thread has not seen it,
\* and it is queued once.
QueuedOnce ==
  /\ \A k \in 1..Len(queue) :
       /\ \E w \in Writers : queue[k].job = Job(w) /\ stage[w] = "wait"
       /\ Unseen(queue[k].job)
  /\ \A k, l \in 1..Len(queue) : queue[l].job = queue[k].job => l = k

\* The job being written is not older than what its caller already got through.
WritesInOrder ==
  writing \in Jobs =>
    \A i \in 1..Len(arrived) : arrived[i][1] = writing[1] => arrived[i][2] <= writing[2]

\* A caller is told ok only of bytes that are there.
OkArrived ==
  \A j \in Jobs : completion[j] = "ok" => \E i \in 1..Len(arrived) : arrived[i] = j

InputInv ==
  InputTypes /\ AnswersInStep /\ Begun /\ NotYetAdmitted /\ QueuedOnce /\ WritesInOrder
  /\ OkArrived

-----------------------------------------------------------------------------
(* Jobs and the sequences that hold them                                    *)

\* A job is a writer and the number of one of its writes; the two values of writing
\* that are no job have the number 0.
LEMMA JobParts ==
  /\ \A j \in Jobs : j[1] \in Writers /\ j[2] \in 1..MaxWrites /\ j = <<j[1], j[2]>>
  /\ \A w \in Writers, n \in 1..MaxWrites : <<w, n>> \in Jobs
  /\ NoJob \notin Jobs /\ Ended \notin Jobs
BY InputAssumption DEF Jobs, NoJob, Ended

\* What RemoveAt leaves: everything else, in its order.
LEMMA RemoveAtKeeps ==
  ASSUME NEW S, NEW s \in Seq(S), NEW i \in 1..Len(s)
  PROVE  /\ RemoveAt(s, i) \in Seq(S) /\ Len(RemoveAt(s, i)) = Len(s) - 1
         /\ \A k \in 1..(Len(s) - 1) :
              RemoveAt(s, i)[k] = IF k < i THEN s[k] ELSE s[k + 1]
<1> DEFINE a == SubSeq(s, 1, i - 1)
           b == SubSeq(s, i + 1, Len(s))
<1>1. a \in Seq(S) /\ Len(a) = i - 1 /\ \A k \in 1..(i - 1) : a[k] = s[k] OBVIOUS
<1>2. /\ b \in Seq(S) /\ Len(b) = Len(s) - i
      /\ \A k \in 1..(Len(s) - i) : b[k] = s[k + i] OBVIOUS
<1>3. RemoveAt(s, i) = a \o b BY DEF RemoveAt
<1> HIDE DEF a, b
<1>4. a \o b \in Seq(S) /\ Len(a \o b) = Len(s) - 1
  <2>1. a \o b \in Seq(S) /\ Len(a \o b) = Len(a) + Len(b)
        BY <1>1, <1>2, ConcatProperties
  <2> QED BY <1>1, <1>2, <2>1
<1>5. ASSUME NEW k \in 1..(Len(s) - 1)
      PROVE  (a \o b)[k] = IF k < i THEN s[k] ELSE s[k + 1]
  <2>1. CASE k < i BY <1>1, <1>2, <2>1
  <2>2. CASE ~(k < i)
    <3>1. k - (i - 1) \in 1..(Len(s) - i) /\ k > Len(a) BY <1>1, <2>2
    <3>2. (a \o b)[k] = b[k - Len(a)] BY <1>1, <1>2, <3>1
    <3>3. b[k - (i - 1)] = s[k - (i - 1) + i] BY <1>2, <3>1
    <3> QED BY <1>1, <2>2, <3>2, <3>3
  <2> QED BY <2>1, <2>2
<1> QED BY <1>3, <1>4, <1>5

\* The elements of the two sequences of jobs.
LEMMA Elements ==
  ASSUME InputTypes
  PROVE  /\ Len(arrived) \in Nat /\ Len(queue) \in Nat
         /\ \A i \in 1..Len(arrived) : arrived[i] \in Jobs
         /\ \A k \in 1..Len(queue) : queue[k] \in [job : Jobs, size : Nat]
         /\ \A k \in 1..Len(queue) : queue[k].job \in Jobs
<1>1. \A i \in 1..Len(arrived) : arrived[i] \in Jobs BY ElementOfSeq DEF InputTypes
<1>2. \A k \in 1..Len(queue) : queue[k] \in [job : Jobs, size : Nat]
      BY ElementOfSeq DEF InputTypes
<1> QED BY <1>1, <1>2 DEF InputTypes

\* The job of a call in progress.
LEMMA CurrentJob ==
  ASSUME InputInv, NEW w \in Writers, stage[w] # "idle"
  PROVE  /\ asked[w] \in 1..MaxWrites /\ asked[w] = Len(answer[w]) + 1
         /\ Job(w) = <<w, asked[w]>> /\ Job(w) \in Jobs
         /\ \A v \in Writers : Job(v) = Job(w) => v = w
<1>1. Len(answer[w]) \in Nat /\ asked[w] \in 0..MaxWrites
      BY LenProperties DEF InputInv, InputTypes
<1>2. asked[w] \in 1..MaxWrites /\ asked[w] = Len(answer[w]) + 1
      BY <1>1, InputAssumption DEF InputInv, AnswersInStep
<1> QED BY <1>2, JobParts DEF Job

-----------------------------------------------------------------------------
(* The invariant holds initially and is kept by every step                 *)

\* Nothing is written, queued or answered at the start.
LEMMA InitInputInv == InputInit => InputInv
<1> SUFFICES ASSUME InputInit PROVE InputInv OBVIOUS
<1>1. InputTypes BY InputAssumption DEF InputInit, InputTypes
<1>2. AnswersInStep BY DEF InputInit, AnswersInStep
<1>3. Begun BY JobParts DEF InputInit, Begun
<1>4. NotYetAdmitted /\ QueuedOnce /\ WritesInOrder /\ OkArrived
      BY JobParts DEF InputInit, NotYetAdmitted, QueuedOnce, WritesInOrder, OkArrived
<1> QED BY <1>1, <1>2, <1>3, <1>4 DEF InputInv

\* A new write has a number nobody has seen.
LEMMA WriteKeepsInv ==
  ASSUME InputInv, NEW w \in Writers, Write(w) PROVE InputInv'
<1> USE JobParts, InputAssumption DEF InputInv
<1>1. /\ InputTypes
      /\ asked[w] \in Nat /\ asked[w] < MaxWrites /\ stage[w] = "idle"
      /\ asked' = [asked EXCEPT ![w] = @ + 1] /\ stage' = [stage EXCEPT ![w] = "admit"]
      /\ UNCHANGED <<answer, arrived, queue, queued, closed, writing, completion>>
      BY SMTT(30) DEF InputTypes, Write
<1>2. /\ asked' \in [Writers -> 0..MaxWrites] /\ asked'[w] = asked[w] + 1
      /\ \A v \in Writers : v # w => asked'[v] = asked[v] /\ stage'[v] = stage[v]
      /\ \A v \in Writers : asked[v] <= asked'[v] /\ asked[v] \in Nat /\ asked'[v] \in Nat
      /\ stage'[w] = "admit"
      BY <1>1, SMTT(30) DEF InputTypes
<1>3. InputTypes'
  <2>1. size' \in [Writers -> Nat] BY <1>1 DEF InputTypes, Write
  <2> QED BY <1>1, <1>2, <2>1 DEF InputTypes
<1>4. AnswersInStep'
  <2>1. ASSUME NEW v \in Writers
        PROVE  asked'[v] = IF stage'[v] = "idle" THEN Len(answer'[v]) ELSE Len(answer'[v]) + 1
        BY <1>1, <1>2 DEF AnswersInStep
  <2> QED BY <2>1 DEF AnswersInStep
<1>5. Begun'
  <2>1. ASSUME NEW j \in Jobs, completion[j] # "empty" PROVE j[2] <= asked'[j[1]]
        BY <1>2, <2>1 DEF Begun
  <2>2. ASSUME NEW i \in 1..Len(arrived) PROVE arrived[i][2] <= asked'[arrived[i][1]]
    <3>1. arrived[i] \in Jobs BY Elements
    <3> QED BY <1>2, <3>1 DEF Begun
  <2>3. ASSUME writing \in Jobs PROVE writing[2] <= asked'[writing[1]]
        BY <1>2, <2>3 DEF Begun
  <2> QED BY <1>1, <2>1, <2>2, <2>3 DEF Begun
<1>6. NotYetAdmitted'
  <2> DEFINE j == <<w, asked[w] + 1>>
  <2>1. j \in Jobs /\ Job(w)' = j /\ j[1] = w /\ j[2] = asked[w] + 1
        BY <1>1, <1>2 DEF Job
  <2>2. \A v \in Writers : v # w => Job(v)' = Job(v) BY <1>2 DEF Job
  <2> HIDE DEF j
  <2>3. completion[j] = "empty" /\ writing # j
        BY <1>2, <2>1 DEF Begun
  <2>4. ASSUME NEW i \in 1..Len(arrived) PROVE arrived[i] # j
    <3>1. arrived[i] \in Jobs BY Elements
    <3> QED BY <1>2, <2>1, <3>1 DEF Begun
  <2> QED BY <1>1, <1>2, <2>1, <2>2, <2>3, <2>4 DEF NotYetAdmitted, Unseen
<1>7. QueuedOnce'
  <2>1. ASSUME NEW k \in 1..Len(queue)
        PROVE  \E v \in Writers : queue[k].job = Job(v)' /\ stage'[v] = "wait"
    <3>1. PICK v \in Writers : queue[k].job = Job(v) /\ stage[v] = "wait" BY DEF QueuedOnce
    <3> QED BY <1>1, <1>2, <3>1 DEF Job
  <2> QED BY <1>1, <2>1 DEF QueuedOnce, Unseen
<1>8. WritesInOrder' /\ OkArrived' BY <1>1 DEF WritesInOrder, OkArrived
<1> QED BY <1>3, <1>4, <1>5, <1>6, <1>7, <1>8

\* Admission puts the job, so far with its caller alone, at the end of the queue.
LEMMA AdmitKeepsInv ==
  ASSUME InputInv, NEW w \in Writers, Admit(w) PROVE InputInv'
<1> USE JobParts, InputAssumption DEF InputInv
<1> DEFINE q == [job |-> Job(w), size |-> size[w]]
<1>1. /\ InputTypes /\ stage[w] = "admit" /\ queue' = Append(queue, q)
      /\ stage' = [stage EXCEPT ![w] = "wait"]
      /\ UNCHANGED <<size, asked, answer, arrived, closed, writing, completion>>
      BY DEF Admit
<1>2. /\ \A v \in Writers : v # w => stage'[v] = stage[v]
      /\ stage'[w] = "wait" /\ \A v : Job(v)' = Job(v)
      BY <1>1 DEF InputTypes, Job
<1>3. q \in [job : Jobs, size : Nat] /\ q.job = Job(w)
      BY <1>1, CurrentJob DEF InputTypes
<1>4. /\ queue' \in Seq([job : Jobs, size : Nat]) /\ Len(queue') = Len(queue) + 1
      /\ Len(queue) \in Nat /\ queue'[Len(queue) + 1] = q
      /\ \A k \in 1..Len(queue) : queue'[k] = queue[k]
  <2>1. queue \in Seq([job : Jobs, size : Nat]) BY DEF InputTypes
  <2> HIDE DEF q
  <2> QED BY <1>1, <1>3, <2>1, AppendProperties, LenProperties
<1> HIDE DEF q
<1>5. InputTypes' BY <1>1, <1>4 DEF InputTypes
<1>6. AnswersInStep' /\ Begun' /\ NotYetAdmitted' /\ WritesInOrder' /\ OkArrived'
  <2>1. AnswersInStep'
    <3>1. ASSUME NEW v \in Writers
          PROVE  asked[v] = IF stage'[v] = "idle" THEN Len(answer[v]) ELSE Len(answer[v]) + 1
          BY <1>1, <1>2 DEF AnswersInStep
    <3> QED BY <1>1, <3>1 DEF AnswersInStep
  <2>2. NotYetAdmitted' BY <1>1, <1>2 DEF NotYetAdmitted, Unseen
  <2> QED BY <1>1, <2>1, <2>2 DEF Begun, WritesInOrder, OkArrived
<1>7. ASSUME NEW k \in 1..Len(queue) PROVE queue[k].job # Job(w)
      BY <1>1, CurrentJob DEF QueuedOnce
<1>8. QueuedOnce'
  <2>1. \A j : Unseen(j)' <=> Unseen(j) BY <1>1 DEF Unseen
  <2>2. ASSUME NEW k \in 1..Len(queue')
        PROVE  /\ \E v \in Writers : queue'[k].job = Job(v)' /\ stage'[v] = "wait"
               /\ Unseen(queue'[k].job)
    <3>1. CASE k = Len(queue) + 1
          BY <1>1, <1>2, <1>3, <1>4, <3>1 DEF NotYetAdmitted
    <3>2. CASE k \in 1..Len(queue)
      <4>1. PICK v \in Writers : queue[k].job = Job(v) /\ stage[v] = "wait"
            BY <3>2 DEF QueuedOnce
      <4> QED BY <1>1, <1>2, <1>4, <3>2, <4>1 DEF QueuedOnce
    <3> QED BY <1>4, <3>1, <3>2
  <2>3. ASSUME NEW k \in 1..Len(queue'), NEW l \in 1..Len(queue'),
               queue'[l].job = queue'[k].job
        PROVE  l = k
    <3>1. CASE k \in 1..Len(queue) /\ l \in 1..Len(queue) BY <1>4, <2>3, <3>1 DEF QueuedOnce
    <3>2. CASE k = Len(queue) + 1
      <4>1. ~(l \in 1..Len(queue)) BY <1>3, <1>4, <1>7, <2>3, <3>2
      <4> QED BY <1>4, <3>2, <4>1
    <3>3. CASE l = Len(queue) + 1
      <4>1. ~(k \in 1..Len(queue)) BY <1>3, <1>4, <1>7, <2>3, <3>3
      <4> QED BY <1>4, <3>3, <4>1
    <3> QED BY <1>4, <3>1, <3>2, <3>3, SMTT(30)
  <2> QED BY <2>1, <2>2, <2>3 DEF QueuedOnce, Unseen
<1> QED BY <1>5, <1>6, <1>8

\* A call that returns leaves no job of its own in the queue.
LEMMA ReturnKeepsInv ==
  ASSUME InputInv, NEW w \in Writers, NEW ok \in BOOLEAN, Returns(w, ok), stage[w] # "idle",
         queue' \in Seq([job : Jobs, size : Nat]), QueuedOnce',
         UNCHANGED <<size, asked, arrived, writing, completion>>
  PROVE  InputInv'
<1> USE JobParts, InputAssumption DEF InputInv
<1>1. /\ InputTypes /\ stage' = [stage EXCEPT ![w] = "idle"]
      /\ answer' = [answer EXCEPT ![w] = Append(@, ok)]
      BY DEF Returns
<1>2. /\ stage' \in [Writers -> {"idle", "admit", "wait"}] /\ stage'[w] = "idle"
      /\ \A v \in Writers : v # w => stage'[v] = stage[v] /\ answer'[v] = answer[v]
      /\ \A v : Job(v)' = Job(v)
      BY <1>1 DEF InputTypes, Job
<1>3. answer' \in [Writers -> Seq(BOOLEAN)] /\ Len(answer'[w]) = Len(answer[w]) + 1
  <2>1. answer[w] \in Seq(BOOLEAN) BY DEF InputTypes
  <2>2. Append(answer[w], ok) \in Seq(BOOLEAN) /\ Len(Append(answer[w], ok)) = Len(answer[w]) + 1
        BY <2>1, AppendProperties
  <2> QED BY <1>1, <2>2 DEF InputTypes
<1>4. InputTypes' BY <1>1, <1>2, <1>3 DEF InputTypes
<1>5. AnswersInStep'
  <2>1. ASSUME NEW v \in Writers
        PROVE  asked[v] = IF stage'[v] = "idle" THEN Len(answer'[v]) ELSE Len(answer'[v]) + 1
        BY <1>2, <1>3 DEF AnswersInStep
  <2> QED BY <2>1 DEF AnswersInStep
<1>6. NotYetAdmitted' BY <1>2 DEF NotYetAdmitted, Unseen
<1> QED BY <1>4, <1>5, <1>6 DEF Begun, WritesInOrder, OkArrived

\* A queue that only lost jobs, none of them of a caller that still waits.
LEMMA QueueUntouched ==
  ASSUME InputInv, NEW w \in Writers, stage' = [stage EXCEPT ![w] = "idle"],
         \A k \in 1..Len(queue) : queue[k].job # Job(w),
         UNCHANGED <<asked, arrived, queue, writing, completion>>
  PROVE  QueuedOnce'
<1> USE JobParts DEF InputInv
<1>1. \A v : Job(v)' = Job(v) BY DEF Job
<1>2. ASSUME NEW k \in 1..Len(queue)
      PROVE  \E v \in Writers : queue[k].job = Job(v)' /\ stage'[v] = "wait"
  <2>1. PICK v \in Writers : queue[k].job = Job(v) /\ stage[v] = "wait" BY DEF QueuedOnce
  <2> QED BY <1>1, <2>1 DEF InputTypes
<1> QED BY <1>2 DEF QueuedOnce, Unseen

\* Phase 1 gives up: the job was never queued.
LEMMA AdmitTimesOutKeepsInv ==
  ASSUME InputInv, NEW w \in Writers, AdmitTimesOut(w) PROVE InputInv'
<1>1. /\ stage[w] = "admit" /\ Returns(w, FALSE)
      /\ UNCHANGED <<size, asked, arrived, queue, writing, completion>>
      BY DEF AdmitTimesOut
<1>2. \A k \in 1..Len(queue) : queue[k].job # Job(w)
      BY <1>1, CurrentJob DEF InputInv, QueuedOnce
<1>3. QueuedOnce' BY <1>1, <1>2, QueueUntouched DEF Returns
<1> QED BY <1>1, <1>3, ReturnKeepsInv DEF InputInv, InputTypes

\* Phase 2 ends with the slot: a filled slot means the job has left the queue.
LEMMA CompletedKeepsInv ==
  ASSUME InputInv, NEW w \in Writers, Completed(w) PROVE InputInv'
<1>1. /\ stage[w] = "wait" /\ completion[Job(w)] # "empty" /\ Returns(w, completion[Job(w)] = "ok")
      /\ UNCHANGED <<size, asked, arrived, queue, writing, completion>>
      BY DEF Completed
<1>2. \A k \in 1..Len(queue) : queue[k].job # Job(w)
      BY <1>1 DEF InputInv, QueuedOnce, Unseen
<1>3. QueuedOnce' BY <1>1, <1>2, QueueUntouched DEF Returns
<1> QED BY <1>1, <1>3, ReturnKeepsInv DEF InputInv, InputTypes

\* Phase 2 gives up: a job that is still queued goes with its call.
LEMMA DeadlineKeepsInv ==
  ASSUME InputInv, NEW w \in Writers, Deadline(w) PROVE InputInv'
<1>1. /\ stage[w] = "wait" /\ Returns(w, FALSE) /\ stage' = [stage EXCEPT ![w] = "idle"]
      /\ UNCHANGED <<size, asked, arrived, writing, completion>>
      /\ InputTypes /\ QueuedOnce
      BY DEF Deadline, Returns, InputInv
<1>2. CASE \A k \in 1..Len(queue) : queue[k].job # Job(w)
  <2>1. queue' = queue BY <1>2 DEF Deadline
  <2>2. QueuedOnce' BY <1>1, <1>2, <2>1, QueueUntouched
  <2> QED BY <1>1, <2>1, <2>2, ReturnKeepsInv DEF InputTypes
<1>3. ASSUME NEW i \in 1..Len(queue), queue[i].job = Job(w), queue' = RemoveAt(queue, i)
      PROVE  InputInv'
  <2>1. /\ queue' \in Seq([job : Jobs, size : Nat]) /\ Len(queue') = Len(queue) - 1
        /\ Len(queue) \in Nat
        /\ \A k \in 1..Len(queue') : queue'[k] = IF k < i THEN queue[k] ELSE queue[k + 1]
    <3>1. queue \in Seq([job : Jobs, size : Nat]) BY <1>1 DEF InputTypes
    <3> QED BY <1>3, <3>1, RemoveAtKeeps, LenProperties
  <2> DEFINE old(k) == IF k < i THEN k ELSE k + 1
  <2>2. \A k \in 1..Len(queue') : old(k) \in 1..Len(queue) /\ old(k) # i /\ queue'[k] = queue[old(k)]
        BY <2>1, SMTT(30)
  <2>3. \A k, l \in 1..Len(queue') : old(k) = old(l) => k = l BY <2>1
  <2> HIDE DEF old
  <2>4. \A v : Job(v)' = Job(v) BY <1>1 DEF Job
  <2>5. ASSUME NEW k \in 1..Len(queue')
        PROVE  /\ \E v \in Writers : queue'[k].job = Job(v)' /\ stage'[v] = "wait"
               /\ Unseen(queue'[k].job)
    <3>1. PICK v \in Writers : queue[old(k)].job = Job(v) /\ stage[v] = "wait"
          BY <1>1, <2>2 DEF QueuedOnce
    <3>2. queue[old(k)].job # queue[i].job BY <1>1, <2>2 DEF QueuedOnce
    <3>3. v # w /\ stage'[v] = "wait" BY <1>1, <1>3, <3>1, <3>2 DEF InputTypes
    <3> QED BY <1>1, <2>2, <2>4, <3>1, <3>3 DEF QueuedOnce
  <2>6. \A k, l \in 1..Len(queue') : queue'[l].job = queue'[k].job => l = k
        BY <1>1, <2>2, <2>3 DEF QueuedOnce
  <2>7. QueuedOnce' BY <1>1, <2>5, <2>6 DEF QueuedOnce, Unseen
  <2> QED BY <1>1, <2>1, <2>7, ReturnKeepsInv
<1> QED BY <1>2, <1>3 DEF Deadline

\* The writer thread takes the oldest job: from now on only it and the caller know it.
LEMMA PopKeepsInv ==
  ASSUME InputInv, Pop PROVE InputInv'
<1> USE JobParts
<1> DEFINE j == queue[1].job
<1>1. /\ queue # <<>> /\ writing' = j /\ queue' = Tail(queue) /\ InputTypes /\ QueuedOnce
      /\ UNCHANGED <<stage, size, asked, answer, arrived, closed, completion>>
      BY DEF Pop, InputInv
<1>2. /\ Len(queue) \in Nat \ {0} /\ queue' \in Seq([job : Jobs, size : Nat])
      /\ Len(queue') = Len(queue) - 1 /\ \A k \in 1..Len(queue') : queue'[k] = queue[k + 1]
  <2>1. queue \in Seq([job : Jobs, size : Nat]) BY <1>1 DEF InputTypes
  <2> QED BY <1>1, <2>1, HeadTailProperties, EmptySeq
<1>3. j \in Jobs BY <1>2, Elements DEF InputInv
<1>4. PICK w \in Writers : j = Job(w) /\ stage[w] = "wait" BY <1>1, <1>2 DEF QueuedOnce
<1>5. Unseen(j) /\ \A k \in 2..Len(queue) : queue[k].job # j BY <1>1, <1>2 DEF QueuedOnce
<1> HIDE DEF j
<1>6. j[1] = w /\ j[2] = asked[w] /\ \A v : Job(v)' = Job(v) BY <1>1, <1>4 DEF Job
<1>7. InputTypes' BY <1>1, <1>2, <1>3 DEF InputTypes
<1>8. AnswersInStep' /\ OkArrived' BY <1>1 DEF InputInv, AnswersInStep, OkArrived
<1>9. Begun'
  <2>1. j[2] <= asked[j[1]] BY <1>1, <1>6 DEF InputTypes
  <2> QED BY <1>1, <2>1 DEF InputInv, Begun
<1>10. NotYetAdmitted'
  <2>1. ASSUME NEW v \in Writers, stage[v] = "admit" PROVE Job(v) # j
        BY <1>4, <2>1, CurrentJob
  <2> QED BY <1>1, <1>6, <2>1 DEF InputInv, NotYetAdmitted, Unseen
<1>11. QueuedOnce'
  <2>1. ASSUME NEW k \in 1..Len(queue')
        PROVE  /\ \E v \in Writers : queue'[k].job = Job(v)' /\ stage'[v] = "wait"
               /\ Unseen(queue'[k].job) /\ queue'[k].job # j
    <3>1. k + 1 \in 2..Len(queue) /\ queue'[k] = queue[k + 1] BY <1>2
    <3> QED BY <1>1, <1>2, <1>5, <1>6, <3>1, SMTT(30) DEF QueuedOnce
  <2>2. ASSUME NEW k \in 1..Len(queue'), NEW l \in 1..Len(queue'),
               queue'[l].job = queue'[k].job
        PROVE  l = k
    <3>1. k + 1 \in 1..Len(queue) /\ l + 1 \in 1..Len(queue)
      <4>1. Len(queue') = Len(queue) - 1 /\ Len(queue) \in Nat BY <1>2
      <4> QED BY <4>1
    <3>2. queue[l + 1].job = queue[k + 1].job BY <1>2, <2>2
    <3>3. l + 1 = k + 1 BY <1>1, <3>1, <3>2 DEF QueuedOnce
    <3> QED BY <1>2, <3>3
  <2> QED BY <1>1, <2>1, <2>2 DEF QueuedOnce, Unseen
<1>12. WritesInOrder'
  <2>1. ASSUME NEW i \in 1..Len(arrived), arrived[i][1] = w PROVE arrived[i][2] <= j[2]
        BY <1>6, <2>1 DEF InputInv, Begun
  <2> QED BY <1>1, <1>6, <2>1 DEF WritesInOrder
<1> QED BY <1>7, <1>8, <1>9, <1>10, <1>11, <1>12 DEF InputInv

\* The bytes reach the terminal: the job is not older than what is there of its caller.
LEMMA BytesLandKeepsInv ==
  ASSUME InputInv, BytesLand PROVE InputInv'
<1> USE JobParts
<1>1. /\ writing \in Jobs /\ arrived' = Append(arrived, writing) /\ InputTypes
      /\ UNCHANGED <<stage, size, asked, answer, queue, queued, closed, writing, completion>>
      BY DEF BytesLand, InputInv
<1>2. /\ arrived' \in Seq(Jobs) /\ Len(arrived) \in Nat /\ Len(arrived') = Len(arrived) + 1
      /\ arrived'[Len(arrived) + 1] = writing
      /\ \A i \in 1..Len(arrived) : arrived'[i] = arrived[i]
  <2>1. arrived \in Seq(Jobs) BY <1>1 DEF InputTypes
  <2> QED BY <1>1, <2>1, AppendProperties, LenProperties
<1>3. \A i \in 1..Len(arrived') : i \in 1..Len(arrived) \/ arrived'[i] = writing
      BY <1>2
<1>4. \A v : Job(v)' = Job(v) BY <1>1 DEF Job
<1>5. InputTypes' BY <1>1, <1>2 DEF InputTypes
<1>6. AnswersInStep' BY <1>1 DEF InputInv, AnswersInStep
<1>7. \A j : Unseen(j) => Unseen(j)'
  <2>1. ASSUME NEW j, Unseen(j), NEW i \in 1..Len(arrived') PROVE arrived'[i] # j
        BY <1>2, <1>3, <2>1 DEF Unseen
  <2> QED BY <1>1, <2>1 DEF Unseen
<1>8. NotYetAdmitted' BY <1>1, <1>4, <1>7 DEF InputInv, NotYetAdmitted
<1>9. QueuedOnce' BY <1>1, <1>4, <1>7 DEF InputInv, QueuedOnce
<1>10. Begun' BY <1>1, <1>2, <1>3 DEF InputInv, Begun
<1>11. WritesInOrder'
  <2>1. ASSUME NEW i \in 1..Len(arrived'), arrived'[i][1] = writing[1]
        PROVE  arrived'[i][2] <= writing[2]
        BY <1>1, <1>2, <1>3, <2>1 DEF InputInv, WritesInOrder
  <2> QED BY <1>1, <2>1 DEF WritesInOrder
<1>12. OkArrived'
  <2>1. ASSUME NEW j \in Jobs, completion[j] = "ok"
        PROVE  \E i \in 1..Len(arrived') : arrived'[i] = j
    <3>1. PICK i \in 1..Len(arrived) : arrived[i] = j BY <2>1 DEF InputInv, OkArrived
    <3>2. i \in 1..Len(arrived') /\ arrived'[i] = j BY <1>2, <3>1
    <3> QED BY <3>2
  <2> QED BY <1>1, <2>1 DEF OkArrived
<1> QED BY <1>5, <1>6, <1>8, <1>9, <1>10, <1>11, <1>12 DEF InputInv

\* The slot is filled with what came of the write, and the writer lets go of the job.
LEMMA FillSlotKeepsInv ==
  ASSUME InputInv, NEW ok \in BOOLEAN, FillSlot(ok) PROVE InputInv'
<1> USE JobParts
<1>1. /\ writing \in Jobs /\ writing' \in {NoJob, Ended} /\ writing' \notin Jobs /\ InputTypes
      /\ completion' = [completion EXCEPT ![writing] = IF ok THEN "ok" ELSE "err"]
      /\ ok => \E i \in 1..Len(arrived) : arrived[i] = writing
      /\ UNCHANGED <<stage, size, asked, answer, arrived, queue, queued, closed>>
      BY DEF FillSlot, InputInv
<1>2. /\ completion' \in [Jobs -> {"empty", "ok", "err"}]
      /\ \A j \in Jobs : j # writing => completion'[j] = completion[j]
      /\ completion'[writing] = IF ok THEN "ok" ELSE "err"
      BY <1>1 DEF InputTypes
<1>3. \A v : Job(v)' = Job(v) BY <1>1 DEF Job
<1>4. InputTypes' BY <1>1, <1>2 DEF InputTypes
<1>5. AnswersInStep' /\ WritesInOrder' BY <1>1 DEF InputInv, AnswersInStep, WritesInOrder
<1>6. ASSUME NEW j \in Jobs, Unseen(j) PROVE Unseen(j)'
      BY <1>1, <1>2, <1>6 DEF Unseen
<1>7. NotYetAdmitted'
  <2>1. ASSUME NEW v \in Writers, stage[v] = "admit" PROVE Job(v) \in Jobs
        BY <2>1, CurrentJob
  <2> QED BY <1>1, <1>3, <1>6, <2>1 DEF InputInv, NotYetAdmitted
<1>8. QueuedOnce'
  <2>1. \A k \in 1..Len(queue) : queue[k].job \in Jobs BY <1>1, Elements
  <2> QED BY <1>1, <1>3, <1>6, <2>1 DEF InputInv, QueuedOnce
<1>9. Begun' BY <1>1, <1>2 DEF InputInv, Begun
<1>10. OkArrived' BY <1>1, <1>2 DEF InputInv, OkArrived
<1> QED BY <1>4, <1>5, <1>7, <1>8, <1>9, <1>10 DEF InputInv

\* Closing, the end of the thread and stuttering touch nothing the invariant is about
\* but writing, which holds no job.
LEMMA RestKeepsInv ==
  ASSUME InputInv, Close \/ WriterEnds \/ UNCHANGED inputVars PROVE InputInv'
<1> USE JobParts
<1>1. /\ writing' = writing \/ writing' = Ended
      /\ UNCHANGED <<stage, size, asked, answer, arrived, queue, completion>> /\ InputTypes
      BY DEF Close, WriterEnds, inputVars, InputInv
<1>2. \A v : Job(v)' = Job(v) BY <1>1 DEF Job
<1>3. \A j \in Jobs : Unseen(j) => Unseen(j)' BY <1>1 DEF Unseen
<1>4. NotYetAdmitted'
  <2>1. ASSUME NEW v \in Writers, stage[v] = "admit" PROVE Job(v) \in Jobs
        BY <2>1, CurrentJob
  <2> QED BY <1>1, <1>2, <1>3, <2>1 DEF InputInv, NotYetAdmitted
<1>5. QueuedOnce'
  <2>1. \A k \in 1..Len(queue) : queue[k].job \in Jobs BY <1>1, Elements
  <2> QED BY <1>1, <1>2, <1>3, <2>1 DEF InputInv, QueuedOnce
<1> QED BY <1>1, <1>4, <1>5
       DEF InputInv, InputTypes, AnswersInStep, Begun, WritesInOrder, OkArrived

\* Every step of the calls and of the writer thread keeps the invariant.
LEMMA StepKeepsInputInv ==
  ASSUME InputInv, [InputNext]_inputVars PROVE InputInv'
<1>1. ASSUME NEW w \in Writers, Write(w) PROVE InputInv' BY <1>1, WriteKeepsInv
<1>2. ASSUME NEW w \in Writers, Admit(w) PROVE InputInv' BY <1>2, AdmitKeepsInv
<1>3. ASSUME NEW w \in Writers, AdmitTimesOut(w) PROVE InputInv'
      BY <1>3, AdmitTimesOutKeepsInv
<1>4. ASSUME NEW w \in Writers, Completed(w) PROVE InputInv' BY <1>4, CompletedKeepsInv
<1>5. ASSUME NEW w \in Writers, Deadline(w) PROVE InputInv' BY <1>5, DeadlineKeepsInv
<1>6. CASE Pop BY <1>6, PopKeepsInv
<1>7. CASE BytesLand BY <1>7, BytesLandKeepsInv
<1>8. ASSUME NEW ok \in BOOLEAN, FillSlot(ok) PROVE InputInv' BY <1>8, FillSlotKeepsInv
<1>9. CASE Close \/ WriterEnds \/ UNCHANGED inputVars BY <1>9, RestKeepsInv
<1> QED BY <1>1, <1>2, <1>3, <1>4, <1>5, <1>6, <1>7, <1>8, <1>9 DEF InputNext

-----------------------------------------------------------------------------
(* The refinement                                                          *)

\* Every step of the writer is a step of the ordered channel, or none: a call that
\* begins is Began, the bytes landing is Arrives, a call that returns is Answers.
LEMMA StepIsChannelStep ==
  ASSUME InputInv, [InputNext]_inputVars
  PROVE  [IC!ChannelNext]_<<asked, arrived, answer>>
<1> USE JobParts, InputAssumption
<1>1. ASSUME NEW w \in Writers, Write(w) PROVE IC!ChannelNext
  <2>1. asked[w] = Len(answer[w]) BY <1>1 DEF Write, InputInv, AnswersInStep
  <2>2. IC!Began(w) BY <1>1 DEF Write, IC!Began
  <2> QED BY <2>1, <2>2 DEF IC!ChannelNext
<1>2. ASSUME NEW w \in Writers, NEW ok \in BOOLEAN, Returns(w, ok), stage[w] # "idle",
             ok => completion[Job(w)] = "ok", UNCHANGED <<asked, arrived>>
      PROVE  IC!ChannelNext
  <2>1. Len(answer[w]) \in Nat BY LenProperties DEF InputInv, InputTypes
  <2>2. asked[w] = Len(answer[w]) + 1 /\ Job(w) = <<w, Len(answer[w]) + 1>> /\ Job(w) \in Jobs
        BY <1>2, CurrentJob
  <2>3. ok => \E i \in 1..Len(arrived) : arrived[i] = <<w, Len(answer[w]) + 1>>
        BY <1>2, <2>2 DEF InputInv, OkArrived
  <2>4. IC!Answers(w, ok) BY <1>2, <2>1, <2>2, <2>3 DEF IC!Answers, Returns
  <2> QED BY <2>4 DEF IC!ChannelNext
<1>3. CASE BytesLand
  <2>1. /\ writing \in Jobs /\ \A i \in 1..Len(arrived) : arrived[i] # writing
        /\ arrived' = Append(arrived, writing) /\ UNCHANGED <<asked, answer>>
        BY <1>3 DEF BytesLand
  <2>2. PICK w \in Writers, n \in 1..MaxWrites : writing = <<w, n>> BY <2>1
  <2>3. n \in 1..asked[w] BY <2>1, <2>2 DEF InputInv, InputTypes, Begun
  <2>4. ASSUME NEW i \in 1..Len(arrived), arrived[i][1] = w PROVE arrived[i][2] < n
    <3>1. arrived[i] \in Jobs /\ arrived[i] # <<w, n>> BY <2>1, <2>2, Elements DEF InputInv
    <3>2. arrived[i][2] <= n BY <2>1, <2>2, <2>4 DEF InputInv, WritesInOrder
    <3>3. arrived[i][2] # n BY <2>4, <3>1
    <3>4. arrived[i][2] \in Nat /\ n \in Nat BY <3>1
    <3> QED BY <3>2, <3>3, <3>4
  <2>5. IC!Arrives(w, n) BY <2>1, <2>2, <2>3, <2>4 DEF IC!Arrives
  <2> QED BY <2>5 DEF IC!ChannelNext
<1>4. ASSUME NEW w \in Writers, AdmitTimesOut(w) \/ Completed(w) \/ Deadline(w)
      PROVE  IC!ChannelNext
  <2>1. CASE AdmitTimesOut(w) BY <1>2, <2>1 DEF AdmitTimesOut
  <2>2. CASE Completed(w) BY <1>2, <2>2 DEF Completed
  <2>3. CASE Deadline(w) BY <1>2, <2>3 DEF Deadline
  <2> QED BY <1>4, <2>1, <2>2, <2>3
<1>5. ASSUME NEW w \in Writers, Admit(w) PROVE UNCHANGED <<asked, arrived, answer>>
      BY <1>5 DEF Admit
<1>6. CASE Close \/ Pop \/ WriterEnds \/ UNCHANGED inputVars
      BY <1>6 DEF Close, Pop, WriterEnds, inputVars
<1>7. ASSUME NEW ok \in BOOLEAN, FillSlot(ok) PROVE UNCHANGED <<asked, arrived, answer>>
      BY <1>7 DEF FillSlot
<1> QED BY <1>1, <1>3, <1>4, <1>5, <1>6, <1>7 DEF InputNext

\* OrderedChannel: the queue, the completion slots and the deadlines of PtyWriter
\* implement the ordered channel.  Whatever number of threads write, and whenever
\* deadlines pass, what arrives of a thread is in the order it was written and a
\* write answered with ok has arrived.
THEOREM WriterImplementsChannel == InputSpec => OrderedChannel
<1>1. InputInit => IC!ChannelInit BY DEF InputInit, IC!ChannelInit
<1>2. InputInit => InputInv BY InitInputInv
<1>3. InputInv /\ [InputNext]_inputVars => InputInv' BY StepKeepsInputInv
<1>4. InputInv /\ [InputNext]_inputVars => [IC!ChannelNext]_<<asked, arrived, answer>>
      BY StepIsChannelStep
<1> QED BY <1>1, <1>2, <1>3, <1>4, PTL DEF InputSpec, OrderedChannel
=============================================================================
