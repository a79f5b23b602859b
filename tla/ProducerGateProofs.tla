--------------------------- MODULE ProducerGateProofs ---------------------------
(***************************************************************************)
(* What the generation counter of ProducerState buys, proved for any       *)
(* number of pauses, resumes and failsafe threads.                         *)
(***************************************************************************)
EXTENDS ProducerGate, TLAPS

\* The types the argument needs.
GateTypes ==
    /\ paused \in BOOLEAN /\ gen \in Nat /\ npauses \in Nat
    /\ armed \subseteq [gen : Nat, nth : Nat]

\* A sleeping failsafe is never ahead of the producer's generation, and while the
\* producer is paused the one that has this generation is the last pause's.
ArmedBehind ==
    \A a \in armed : a.gen <= gen /\ (paused /\ a.gen = gen => a.nth = npauses)

GateInv == GateTypes /\ ArmedBehind /\ PausedIsArmed

\* A step that leaves the gate alone keeps the invariant.
LEMMA GateUntouched ==
    ASSUME GateInv, UNCHANGED <<paused, gen, armed, npauses>>
    PROVE  GateInv'
BY DEF GateInv, GateTypes, ArmedBehind, PausedIsArmed

\* A resume, whoever calls it, keeps the invariant: every failsafe falls behind.
LEMMA ResumeKeepsInv ==
    ASSUME GateInv, Resumed, npauses' = npauses
    PROVE  GateInv'
<1>1. paused' = FALSE /\ gen' = gen + 1 /\ armed' = armed BY DEF Resumed
<1>2. gen \in Nat /\ npauses \in Nat /\ armed \subseteq [gen : Nat, nth : Nat]
      BY DEF GateInv, GateTypes
<1>3. GateTypes'
  <2>1. paused' \in BOOLEAN BY <1>1, Zenon
  <2>2. gen' \in Nat /\ npauses' \in Nat /\ armed' \subseteq [gen : Nat, nth : Nat]
        BY <1>1, <1>2
  <2> QED BY <2>1, <2>2 DEF GateTypes
<1>4. ASSUME NEW b \in armed' PROVE b.gen <= gen'
  <2>1. b.gen \in Nat /\ b.gen <= gen BY <1>1, <1>2 DEF GateInv, ArmedBehind
  <2> QED BY <1>1, <1>2, <2>1
<1>5. ArmedBehind' BY <1>1, <1>4 DEF ArmedBehind
<1>6. PausedIsArmed' BY <1>1 DEF PausedIsArmed
<1> QED BY <1>3, <1>5, <1>6 DEF GateInv

\* A pause arms the failsafe of its own, new generation.
LEMMA PauseKeepsInv ==
    ASSUME GateInv, PauseProducer
    PROVE  GateInv'
<1> DEFINE new == [gen |-> gen + 1, nth |-> npauses + 1]
<1>1. /\ armed' = armed \cup {new} /\ paused' = TRUE
      /\ gen' = gen + 1 /\ npauses' = npauses + 1
      BY DEF PauseProducer
<1>2. gen \in Nat /\ npauses \in Nat /\ armed \subseteq [gen : Nat, nth : Nat]
      BY DEF GateInv, GateTypes
<1>3. new \in [gen : Nat, nth : Nat] /\ new.gen = gen + 1 /\ new.nth = npauses + 1
      BY <1>2
<1> HIDE DEF new
<1>4. GateTypes' BY <1>1, <1>2, <1>3 DEF GateTypes
<1>5. ASSUME NEW a \in armed'
      PROVE  a.gen <= gen' /\ (paused' /\ a.gen = gen' => a.nth = npauses')
  <2>1. CASE a = new BY <1>1, <1>2, <1>3, <2>1
  <2>2. CASE a \in armed
    <3>1. a.gen \in Nat /\ a.gen <= gen BY <1>2, <2>2 DEF GateInv, ArmedBehind
    <3> QED BY <1>1, <1>2, <3>1
  <2> QED BY <1>1, <2>1, <2>2
<1>6. PausedIsArmed' BY <1>1, <1>3 DEF PausedIsArmed
<1> QED BY <1>4, <1>5, <1>6 DEF GateInv, ArmedBehind

\* A failsafe that wakes either resumes the producer or is not the current one.
LEMMA FailsafeKeepsInv ==
    ASSUME GateInv, NEW a \in armed, Failsafe(a)
    PROVE  GateInv'
<1>1. npauses' = npauses /\ armed' = armed \ {a} BY DEF Failsafe
<1>2. gen \in Nat /\ npauses \in Nat /\ armed \subseteq [gen : Nat, nth : Nat]
      BY DEF GateInv, GateTypes
<1>3. CASE gen = a.gen /\ paused
  <2>1. paused' = FALSE /\ gen' = gen + 1 BY <1>3 DEF Failsafe
  <2>2. GateTypes'
    <3>1. paused' \in BOOLEAN BY <2>1, Zenon
    <3>2. gen' \in Nat /\ npauses' \in Nat /\ armed' \subseteq [gen : Nat, nth : Nat]
          BY <1>1, <1>2, <2>1
    <3> QED BY <3>1, <3>2 DEF GateTypes
  <2>3. ASSUME NEW b \in armed' PROVE b.gen <= gen'
    <3>1. b.gen \in Nat /\ b.gen <= gen BY <1>1, <1>2 DEF GateInv, ArmedBehind
    <3> QED BY <1>2, <2>1, <3>1
  <2>4. ArmedBehind' BY <2>1, <2>3 DEF ArmedBehind
  <2>5. PausedIsArmed' BY <2>1 DEF PausedIsArmed
  <2> QED BY <2>2, <2>4, <2>5 DEF GateInv
<1>4. CASE ~(gen = a.gen /\ paused)
  <2>1. paused' = paused /\ gen' = gen BY <1>4 DEF Failsafe
  <2> QED BY <1>1, <1>2, <1>4, <2>1 DEF GateInv, GateTypes, ArmedBehind, PausedIsArmed
<1> QED BY <1>3, <1>4

\* Every step keeps the invariant.
LEMMA StepKeepsInv ==
    ASSUME GateInv, [Next]_vars
    PROVE  GateInv'
<1>1. CASE PauseProducer BY <1>1, PauseKeepsInv
<1>2. CASE ResumeProducer BY <1>2, ResumeKeepsInv DEF ResumeProducer
<1>3. ASSUME NEW a \in armed, Failsafe(a) PROVE GateInv' BY <1>3, FailsafeKeepsInv
<1>4. CASE ChildWrites \/ ChildExits \/ ChildDies \/ ChildClosesTty
      BY <1>4, GateUntouched
         DEF ChildWrites, ChildExits, ChildDies, ChildEnds, ChildClosesTty, gate
<1>5. CASE Reader
      BY <1>5, GateUntouched
         DEF Reader, PassGate, Unpark, ReadChunk, ReadStops, LockChild, WaitChild, gate
<1>6. CASE KillArrives BY <1>6, ResumeKeepsInv DEF KillArrives
<1>7. CASE KillSignals BY <1>7, GateUntouched DEF KillSignals, gate
<1>8. CASE WatchdogWakes
      BY <1>8, ResumeKeepsInv, GateUntouched DEF WatchdogWakes, gate
<1>9. CASE WatchdogSignals \/ WatchdogDrops
      BY <1>9, GateUntouched DEF WatchdogSignals, WatchdogDrops, gate
<1>10. CASE UNCHANGED vars BY <1>10, GateUntouched DEF vars, gate
<1> QED BY <1>1, <1>2, <1>3, <1>4, <1>5, <1>6, <1>7, <1>8, <1>9, <1>10 DEF Next, Watchdog

\* The invariant holds in the initial state.
LEMMA InitInv == Init => GateInv
<1> SUFFICES ASSUME Init PROVE GateInv OBVIOUS
<1>1. paused = FALSE /\ gen = 0 /\ armed = {} /\ npauses = 0 BY DEF Init
<1>2. GateTypes BY <1>1 DEF GateTypes
<1>3. ArmedBehind /\ PausedIsArmed BY <1>1 DEF ArmedBehind, PausedIsArmed
<1> QED BY <1>2, <1>3 DEF GateInv

\* A paused producer always has a sleeping failsafe that will resume it: no sequence of
\* pauses, resumes, failsafes, kills and watchdogs leaves it paused and unarmed.
THEOREM PauseStaysArmed == Spec => []PausedIsArmed
<1>1. GateInv /\ [Next]_vars => GateInv' BY StepKeepsInv
<1>2. GateInv => PausedIsArmed BY DEF GateInv
<1> QED BY InitInv, <1>1, <1>2, PTL DEF Spec

\* A failsafe ends no pause but its own: the generation check cancels every failsafe
\* that an earlier pause armed, however many there are.
THEOREM FailsafeIsCancelled == Spec => FailsafeEndsOwnPause
<1>1. GateInv /\ [Next]_vars => GateInv' BY StepKeepsInv
<1>2. GateInv /\ [Next]_vars =>
        [\A a \in armed : a \notin armed' /\ paused /\ ~paused' => a.nth = npauses]_vars
  <2> SUFFICES ASSUME GateInv, Next, NEW a \in armed, a \notin armed', paused, ~paused'
               PROVE  a.nth = npauses
      BY DEF vars
  <2>1. CASE PauseProducer BY <2>1 DEF PauseProducer
  <2>2. CASE ResumeProducer \/ KillArrives BY <2>2 DEF ResumeProducer, KillArrives, Resumed
  <2>3. ASSUME NEW b \in armed, Failsafe(b) PROVE a.nth = npauses
        BY <2>3 DEF Failsafe, GateInv, ArmedBehind
  <2>4. CASE ChildWrites \/ ChildExits \/ ChildDies \/ ChildClosesTty
        BY <2>4 DEF ChildWrites, ChildExits, ChildDies, ChildEnds, ChildClosesTty, gate
  <2>5. CASE Reader
        BY <2>5 DEF Reader, PassGate, Unpark, ReadChunk, ReadStops, LockChild, WaitChild, gate
  <2>6. CASE KillSignals \/ WatchdogSignals \/ WatchdogDrops
        BY <2>6 DEF KillSignals, WatchdogSignals, WatchdogDrops, gate
  <2>7. CASE WatchdogWakes BY <2>7 DEF WatchdogWakes, Resumed, gate
  <2> QED BY <2>1, <2>2, <2>3, <2>4, <2>5, <2>6, <2>7 DEF Next, Watchdog
<1> QED BY InitInv, <1>1, <1>2, PTL DEF Spec, FailsafeEndsOwnPause

(***************************************************************************)
(* A pause takes hold                                                      *)
(***************************************************************************)
\* A reader that is past the gate of a paused producer has not read since the pause;
\* one that has is before the gate, which it will not pass.
OneReadLeft ==
    /\ paused \in BOOLEAN /\ leak \in Nat
    /\ paused => leak <= (IF rdr = "read" THEN 0 ELSE 1)

\* A resume, or nothing, keeps it.
LEMMA ReleaseKeepsOneReadLeft ==
    ASSUME OneReadLeft, leak' = leak, rdr' = rdr, paused' = FALSE \/ paused' = paused
    PROVE  OneReadLeft'
<1>1. paused' \in BOOLEAN BY Zenon DEF OneReadLeft
<1>2. paused' => paused OBVIOUS
<1> QED BY <1>1, <1>2 DEF OneReadLeft

\* Every step keeps it: a new pause starts counting, a pause of a paused producer goes on.
LEMMA StepKeepsOneReadLeft ==
    ASSUME OneReadLeft, [Next]_vars
    PROVE  OneReadLeft'
<1>0. paused \in BOOLEAN /\ leak \in Nat BY DEF OneReadLeft
<1>1. CASE PauseProducer
  <2>1. CASE paused BY <1>1, <2>1 DEF PauseProducer, OneReadLeft
  <2>2. CASE ~paused BY <1>1, <2>2 DEF PauseProducer, OneReadLeft
  <2> QED BY <2>1, <2>2
<1>2. CASE ResumeProducer \/ KillArrives \/ WatchdogWakes
  <2>1. leak' = leak /\ rdr' = rdr BY <1>2 DEF ResumeProducer, KillArrives, WatchdogWakes
  <2>2. paused' = FALSE \/ paused' = paused
        BY <1>2 DEF ResumeProducer, KillArrives, WatchdogWakes, Resumed, gate
  <2> QED BY <2>1, <2>2, ReleaseKeepsOneReadLeft
<1>3. ASSUME NEW a \in armed, Failsafe(a) PROVE OneReadLeft'
  <2>1. leak' = leak /\ rdr' = rdr BY <1>3 DEF Failsafe
  <2>2. paused' = FALSE \/ paused' = paused BY <1>3 DEF Failsafe
  <2> QED BY <2>1, <2>2, ReleaseKeepsOneReadLeft
<1>4. CASE PassGate BY <1>0, <1>4 DEF PassGate, gate, OneReadLeft
<1>5. CASE Unpark BY <1>0, <1>5 DEF Unpark, gate, OneReadLeft
<1>6. CASE ReadChunk BY <1>0, <1>6 DEF ReadChunk, gate, OneReadLeft
<1>7. CASE ReadStops \/ LockChild \/ WaitChild
      BY <1>0, <1>7 DEF ReadStops, LockChild, WaitChild, gate, OneReadLeft
<1>8. CASE \/ ChildWrites \/ ChildExits \/ ChildDies \/ ChildClosesTty \/ KillSignals
           \/ WatchdogSignals \/ WatchdogDrops \/ UNCHANGED vars
      BY <1>8 DEF ChildWrites, ChildExits, ChildDies, ChildEnds, ChildClosesTty, KillSignals,
                  WatchdogSignals, WatchdogDrops, vars, gate, OneReadLeft
<1> QED BY <1>1, <1>2, <1>3, <1>4, <1>5, <1>6, <1>7, <1>8 DEF Next, Reader, Watchdog

\* PauseTakesHold: however often the host pauses again, and however resumes, failsafes,
\* kills and the watchdog interleave with the reader, it takes at most the one chunk it
\* was past the gate for.
THEOREM PauseHolds == Spec => []PauseTakesHold
<1>1. ASSUME Init PROVE OneReadLeft
  <2>1. paused = FALSE /\ leak = 0 BY <1>1 DEF Init
  <2> QED BY <2>1 DEF OneReadLeft
<1>2. OneReadLeft /\ [Next]_vars => OneReadLeft' BY StepKeepsOneReadLeft
<1>3. OneReadLeft => PauseTakesHold BY DEF OneReadLeft, PauseTakesHold
<1> QED BY <1>1, <1>2, <1>3, PTL DEF Spec
================================================================================
