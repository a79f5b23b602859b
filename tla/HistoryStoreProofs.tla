--------------------------- MODULE HistoryStoreProofs ---------------------------
(***************************************************************************)
(* HistoryStore: type correctness, the generation pairing, that a restore  *)
(* returns one incarnation's output, that it returns what was acknowledged *)
(* and, between two persists, nothing else, and that no chunk is missing   *)
(* from its middle, for every capacity and every bound.                    *)
(***************************************************************************)
EXTENDS HistoryStore, FiniteSetTheorems, SequenceTheorems, TLAPS

(***************************************************************************)
(* The inductive invariant behind PairingInv.  A restart may find any mix  *)
(* of the written and the durable files, so the pairing has to hold for    *)
(* each of them; a new checkpoint takes the generation after the one the   *)
(* writer knows, so no log on disk may be ahead of the writer.             *)
(***************************************************************************)
Paired(c, l) == c.st = "ok" /\ l.st = "ok" /\ l.gen = c.gen => l.base = c.id

AllPaired == \A c \in {cp, dcp} : \A l \in {log, dlog} : Paired(c, l)

\* The writer's idea of the log, once resolved, is the log's own generation, and
\* no older image of the log is ahead of it.
WriterAhead ==
    w.reg /\ w.resolved =>
       /\ log.st = "ok" => log.gen = w.gen
       /\ (log.st # "absent" \/ pc = "reset") /\ dlog.st = "ok" => dlog.gen <= w.gen

\* A writer that has not resolved its log yet was registered after a crash, which
\* left the log as it found it on the platter.
UnresolvedIsDurable ==
    /\ w.reg /\ ~w.resolved => dlog = log
    /\ pc = "down" /\ meta.st = "ok" => dlog = log
    /\ pc \in {"truncMeta", "writeMeta"} /\ op.then = "reopened" => dlog = log

\* Where the operation in progress stands.
Progress ==
    /\ pc \in {"snap", "rename", "reset", "append"} => w.reg
    /\ w.reg /\ ~w.needsFull => w.resolved /\ w.bytes > 0
    /\ pc = "append" => ~w.needsFull
    /\ pc = "reset" => /\ w.resolved /\ dcp = cp
                       /\ cp.st = "ok" /\ cp.gen = w.gen + 1 /\ cp.id = ids
    /\ pc \in {"truncMeta", "writeMeta"} /\ op.then = "opened" => log.st = "absent"
    /\ pc \in {"down", "unlinkCp", "unlinkLog", "truncMeta", "writeMeta", "rmdir"} => ~w.reg
    /\ pc \in {"unlinkCp", "unlinkLog"} => op.then = "opened"

PairingIInv == AllPaired /\ WriterAhead /\ UnresolvedIsDurable /\ Progress

(***************************************************************************)
(* Types                                                                   *)
(***************************************************************************)
\* The number of output bytes in a sequence of frames is a natural number.
LEMMA OutputBytesType ==
    ASSUME NEW fs \in Seq(Frames)
    PROVE  OutputBytes(fs) \in Nat
<1>1. Len(fs) \in Nat
    OBVIOUS
<1>2. IsFiniteSet(1 .. Len(fs))
    BY <1>1, FS_Interval
<1>3. IsFiniteSet({i \in 1 .. Len(fs) : fs[i].kind = "output"})
    BY <1>2, FS_Subset
<1> QED
    BY <1>3, FS_CardinalityType DEF OutputBytes

\* The initial values have their types.
LEMMA ConstantTypes ==
    /\ NoMeta \in Metas /\ NoCheckpoint \in Checkpoints
    /\ NoLog \in Logs /\ BadLog \in Logs /\ NoWriter \in Writers
    /\ NoPending \in [recs : Seq(Frames), overflowed : BOOLEAN]
    /\ NoOp \in [final : BOOLEAN, recs : Seq(Frames), ring : Seq(Nat), meta : Metas,
                 then : {"idle", "opened", "reopened", "ended"}]
    /\ <<>> \in Seq(Nat)
<1>1. <<>> \in Seq(Nat) /\ <<>> \in Seq(Frames)
    OBVIOUS
<1>2. NoLog \in Logs
    BY <1>1 DEF NoLog, Logs
<1>3. BadLog \in Logs
    BY <1>2 DEF BadLog, Logs
<1>4. NoMeta \in Metas
    BY DEF NoMeta, Metas
<1>5. NoCheckpoint \in Checkpoints
    BY <1>1 DEF NoCheckpoint, Checkpoints
<1>6. NoWriter \in Writers
    BY DEF NoWriter, Writers
<1>7. NoOp \in [final : BOOLEAN, recs : Seq(Frames), ring : Seq(Nat), meta : Metas,
                 then : {"idle", "opened", "reopened", "ended"}]
    BY <1>1, <1>4 DEF NoOp
<1> QED
    BY <1>1, <1>2, <1>3, <1>4, <1>5, <1>6, <1>7 DEF NoPending

\* A log that is just a header is a log.
LEMMA FreshLogType ==
    ASSUME NEW g \in Nat, NEW b \in Nat
    PROVE  FreshLog(g, b) \in Logs
<1>1. <<>> \in Seq(Frames)
    OBVIOUS
<1> QED
    BY <1>1 DEF FreshLog, Logs

\* Resolving the log state leaves a writer.
LEMMA ResolveType ==
    ASSUME TypeOK
    PROVE  ResolveLogState \in Writers
<1>1. log.frames \in Seq(Frames) /\ OutputBytes(log.frames) \in Nat
    BY OutputBytesType DEF TypeOK, Logs
<1>2. 1 + Len(log.frames) \in Nat
    BY <1>1
<1> DEFINE a == IF DecodesLog(log) THEN OutputBytes(log.frames) ELSE 0
           g == IF cp.st = "ok" THEN cp.gen ELSE 0
           b == 1 + Len(log.frames)
<1>3. a \in Nat /\ g \in Nat /\ b \in Nat /\ log.gen \in Nat
    BY <1>1, <1>2 DEF TypeOK, Logs, Checkpoints
<1>4. ResolveLogState = IF w.resolved THEN w
                        ELSE IF log.st = "ok"
                        THEN [w EXCEPT !.resolved = TRUE, !.gen = log.gen, !.bytes = b, !.appended = a]
                        ELSE [w EXCEPT !.resolved = TRUE, !.bytes = 0, !.appended = 0, !.gen = g]
    BY DEF ResolveLogState
<1> HIDE DEF a, g, b
<1> QED
    BY <1>3, <1>4 DEF TypeOK, Writers

\* The batch of an append is a sequence of frames, its seq a number.
LEMMA BatchType ==
    ASSUME TypeOK
    PROVE  /\ Batch \in Seq(Frames) /\ Len(Batch) \in Nat
           /\ BatchSeq \in Nat
           /\ HeaderedLog \in Logs
<1>1. op.recs \in Seq(Frames) /\ OutputBytes(op.recs) \in Nat /\ Len(op.recs) \in Nat
    BY OutputBytesType DEF TypeOK
<1>2. BatchSeq \in Nat
    BY <1>1 DEF TypeOK, Writers, BatchSeq
<1>3. [kind |-> "batch", val |-> BatchSeq, n |-> Len(op.recs)] \in Frames
    BY <1>1, <1>2 DEF Frames
<1>4. Batch \in Seq(Frames)
    BY <1>1, <1>3 DEF Batch
<1>5. HeaderedLog \in Logs
    BY DEF TypeOK, HeaderedLog, FreshLog, Logs, Writers, Checkpoints
<1> QED
    BY <1>2, <1>4, <1>5

\* Appending frames to a log leaves a log with its generation and base.
LEMMA WithFramesType ==
    ASSUME NEW l \in Logs, NEW fs \in Seq(Frames)
    PROVE  /\ WithFrames(l, fs) \in Logs
           /\ WithFrames(l, fs).st = l.st
           /\ WithFrames(l, fs).gen = l.gen
           /\ WithFrames(l, fs).base = l.base
<1>1. l.frames \o fs \in Seq(Frames)
    BY DEF Logs
<1>2. CASE l.st = "ok"
    <2> DEFINE f == l.frames \o fs
    <2>1. WithFrames(l, fs) = [l EXCEPT !.frames = f]
        BY <1>2 DEF WithFrames
    <2>2. f \in Seq(Frames)
        BY <1>1
    <2> HIDE DEF f
    <2> QED
        BY <2>1, <2>2 DEF Logs
<1>3. CASE l.st # "ok"
    BY <1>3 DEF WithFrames
<1> QED
    BY <1>2, <1>3

\* So does a torn append.
LEMMA TornType ==
    ASSUME TypeOK, NEW l \in Logs, NEW t \in TornAppends(l)
    PROVE  t \in Logs /\ t.st = l.st /\ t.gen = l.gen /\ t.base = l.base
<1>1. PICK k \in 0 .. Len(Batch) - 1 : t = WithFrames(l, SubSeq(Batch, 1, k))
    BY DEF TornAppends
<1>2. SubSeq(Batch, 1, k) \in Seq(Frames)
    BY <1>1, BatchType
<1> QED
    BY <1>1, <1>2, WithFramesType

\* A log cut short is a log with the same generation and base.
LEMMA CutType ==
    ASSUME NEW l \in Logs, NEW t \in CutLogs(l)
    PROVE  t \in Logs /\ t.st = l.st /\ t.gen = l.gen /\ t.base = l.base
<1>1. PICK k \in 0 .. Len(l.frames) : t = [l EXCEPT !.frames = SubSeq(@, 1, k)]
    BY DEF CutLogs
<1>2. SubSeq(l.frames, 1, k) \in Seq(Frames)
    BY <1>1 DEF Logs
<1>3. PICK q \in Seq(Frames) : t = [l EXCEPT !.frames = q]
    BY <1>1, <1>2
<1>4. t \in Logs
    BY <1>3 DEF Logs
<1>5. t.st = l.st /\ t.gen = l.gen /\ t.base = l.base
    BY <1>3 DEF Logs
<1> QED
    BY <1>4, <1>5

\* Whatever a crash makes of the log is a log.
LEMMA CrashedType ==
    ASSUME TypeOK, NEW l \in CrashedLogs
    PROVE  l \in Logs
<1>1. BadLog \in Logs /\ FreshLog(w.gen + 1, ids) \in Logs /\ log \in Logs
    BY ConstantTypes, FreshLogType DEF TypeOK, Writers
<1>2. WithFrames(HeaderedLog, Batch) \in Logs
    BY BatchType, WithFramesType
<1>3. \A t \in TornAppends(HeaderedLog) : t \in Logs
    BY BatchType, TornType
<1> QED
    BY <1>1, <1>2, <1>3 DEF CrashedLogs

OpTypes == [final : BOOLEAN, recs : Seq(Frames), ring : Seq(Nat), meta : Metas,
            then : {"idle", "opened", "reopened", "ended"}]

\* The pending buffer keeps its type whatever is pushed.
LEMMA PushTypes ==
    ASSUME NEW p \in [recs : Seq(Frames), overflowed : BOOLEAN], NEW f \in Frames
    PROVE  /\ PushOutput(p, f) \in [recs : Seq(Frames), overflowed : BOOLEAN]
           /\ PushRecord(p, f) \in [recs : Seq(Frames), overflowed : BOOLEAN]
<1>1. Append(p.recs, f) \in Seq(Frames) /\ <<>> \in Seq(Frames)
    OBVIOUS
<1> DEFINE g == Append(p.recs, f)
<1>2. /\ PushOutput(p, f) \in {p, [recs |-> <<>>, overflowed |-> TRUE], [p EXCEPT !.recs = g]}
      /\ PushRecord(p, f) \in {p, [p EXCEPT !.recs = g]}
    BY DEF PushOutput, PushRecord
<1>3. g \in Seq(Frames)
    BY <1>1
<1> HIDE DEF g
<1> DEFINE P == [recs : Seq(Frames), overflowed : BOOLEAN]
<1>4. [recs |-> <<>>, overflowed |-> TRUE] \in P
    BY <1>1
<1>5. [p EXCEPT !.recs = g] \in P
    BY <1>3
<1> HIDE DEF P
<1>6. p \in P
    BY DEF P
<1>7. PushOutput(p, f) \in P /\ PushRecord(p, f) \in P
    BY <1>2, <1>4, <1>5, <1>6
<1> QED
    BY <1>7 DEF P

\* The ring stays a sequence of chunk numbers.
LEMMA RingType ==
    ASSUME NEW s \in Seq(Nat), NEW c \in Nat
    PROVE  AppendCapped(s, c) \in Seq(Nat)
<1> DEFINE t == Append(s, c)
<1>1. t \in Seq(Nat)
    OBVIOUS
<1>2. Tail(t) \in Seq(Nat)
  <2>1. Len(t) = Len(s) + 1 /\ Len(s) \in Nat
      OBVIOUS
  <2>2. t # <<>>
      BY <2>1
  <2> HIDE DEF t
  <2> QED
      BY <1>1, <2>2
<1> QED
    BY <1>1, <1>2 DEF AppendCapped

\* Type correctness of the disk history: no step of the writer, the reader
\* thread or the checkpointer, no failure and no crash leaves the declared types.
THEOREM TypeCorrect == Spec => []TypeOK
<1>1. Init => TypeOK
  <2> SUFFICES ASSUME Init PROVE TypeOK
      OBVIOUS
  <2>1. /\ meta \in Metas /\ cp \in Checkpoints /\ log \in Logs
        /\ dmeta \in Metas /\ dcp \in Checkpoints /\ dlog \in Logs
        /\ w \in Writers /\ ring \in Seq(Nat)
      BY ConstantTypes DEF Init
  <2>2. /\ op \in OpTypes /\ pend \in [recs : Seq(Frames), overflowed : BOOLEAN]
      BY ConstantTypes DEF Init, OpTypes
  <2>3. /\ out \in Nat /\ clears \in Nat /\ inc \in Nat /\ fails \in Nat /\ losses \in Nat
        /\ ids \in Nat /\ wiped \in Nat /\ epoch \in Nat
        /\ enabled \in BOOLEAN /\ orphaned \in BOOLEAN /\ gapped \in BOOLEAN
        /\ pc = "down"
      BY DEF Init
  <2> QED
      BY <2>1, <2>2, <2>3 DEF TypeOK, OpTypes
<1>2. TypeOK /\ [Next]_vars => TypeOK'
  <2> SUFFICES ASSUME TypeOK, [Next]_vars PROVE TypeOK'
      OBVIOUS
  <2> USE DEF TypeOK, disk, durable, session, ghosts
  <2>1. CASE StartIncarnation
    <3>1. \A m \in Metas, t \in {"opened", "reopened"} :
             [NoOp EXCEPT !.meta = m, !.then = t] \in OpTypes
        BY ConstantTypes DEF OpTypes
    <3>2. [meta EXCEPT !.ended = FALSE] \in Metas
        BY DEF Metas
    <3>3. [NoMeta EXCEPT !.st = "ok", !.started = inc + 1, !.floor = out] \in Metas
      <4>1. inc + 1 \in Nat
          OBVIOUS
      <4> QED
          BY <4>1 DEF Metas, NoMeta
    <3>4. op' \in OpTypes
        BY <2>1, <3>1, <3>2, <3>3 DEF StartIncarnation
    <3>5. /\ pc' \in {"truncMeta", "unlinkCp"} /\ inc' \in Nat /\ epoch' \in Nat
        BY <2>1 DEF StartIncarnation
    <3>6. orphaned' \in BOOLEAN
        BY <2>1, Zenon DEF StartIncarnation
    <3> QED
        BY <2>1, <3>4, <3>5, <3>6 DEF StartIncarnation, OpTypes
  <2>2. CASE UnlinkCheckpoint
    BY <2>2, ConstantTypes DEF UnlinkCheckpoint
  <2>3. CASE UnlinkLog
    BY <2>3, ConstantTypes DEF UnlinkLog
  <2>4. CASE TruncateMeta
    <3>1. [meta EXCEPT !.st = "torn"] \in Metas
        BY DEF Metas
    <3> QED
        BY <2>4, <3>1 DEF TruncateMeta
  <2>5. CASE WriteMeta
    <3>1. w' \in Writers
        BY <2>5, ConstantTypes DEF WriteMeta, WriterAfter, Writers
    <3> QED
        BY <2>5, <3>1, ConstantTypes DEF WriteMeta
  <2>6. CASE EnableHistory
    BY <2>6 DEF EnableHistory
  <2>7. CASE Tee
    <3>1. Output(out + 1) \in Frames
        BY DEF Output, Frames
    <3>2. ring' \in Seq(Nat)
        BY <2>7, RingType DEF Tee
    <3>3. pend' \in [recs : Seq(Frames), overflowed : BOOLEAN]
        BY <2>7, <3>1, PushTypes DEF Tee
    <3>4. gapped' \in BOOLEAN
        BY <2>7 DEF Tee
    <3> QED
        BY <2>7, <3>2, <3>3, <3>4 DEF Tee
  <2>8. CASE ClearHistory
    <3>1. Clear \in Frames
        BY DEF Clear, Frames
    <3>2. pend' \in [recs : Seq(Frames), overflowed : BOOLEAN]
        BY <2>8, <3>1, PushTypes DEF ClearHistory
    <3> QED
        BY <2>8, <3>2, ConstantTypes DEF ClearHistory
  <2>9. CASE BeginTick
    <3>1. [NoOp EXCEPT !.recs = pend.recs] \in OpTypes
        BY ConstantTypes DEF OpTypes
    <3>2. op' \in OpTypes /\ pend' \in [recs : Seq(Frames), overflowed : BOOLEAN]
        BY <2>9, <3>1, ConstantTypes DEF BeginTick, OpTypes
    <3>3. pc' \in {"snap", "idle", "append"}
        BY <2>9 DEF BeginTick
    <3> QED
        BY <2>9, <3>2, <3>3 DEF BeginTick, OpTypes
  <2>10. CASE BeginFlush
    <3>1. op' \in OpTypes
        BY <2>10, ConstantTypes DEF BeginFlush, OpTypes
    <3> QED
        BY <2>10, <3>1 DEF BeginFlush, OpTypes
  <2>11. CASE BuildCheckpoint
    <3>1. [op EXCEPT !.ring = ring] \in OpTypes
        BY DEF OpTypes
    <3> QED
        BY <2>11, <3>1 DEF BuildCheckpoint, OpTypes
  <2>12. CASE RenameCheckpoint
    <3>1. w' \in Writers
        BY <2>12, ResolveType DEF RenameCheckpoint
    <3>2. ResolveLogState.gen + 1 \in Nat
        BY ResolveType, SMTT(30) DEF Writers
    <3>3. cp' \in Checkpoints
        BY <2>12, <3>2 DEF RenameCheckpoint, NextGeneration, Checkpoints
    <3>4. dcp' \in Checkpoints /\ dlog' \in Logs
        BY <2>12, <3>3, ConstantTypes DEF RenameCheckpoint, SyncedFile, SyncedDirectory
    <3> QED
        BY <2>12, <3>1, <3>3, <3>4 DEF RenameCheckpoint
  <2>13. CASE ResetLog
    <3>1. w' \in Writers
      <4>1. w.gen + 1 \in Nat
          BY DEF Writers
      <4> QED
          BY <2>13, <4>1 DEF ResetLog, WriterAfterReset, Writers
    <3>2. log' \in Logs
        BY <2>13, FreshLogType DEF ResetLog, Writers
    <3> QED
        BY <2>13, <3>1, <3>2, ConstantTypes DEF ResetLog
  <2>14. CASE RenameFails
    <3>1. w' \in Writers
        BY <2>14, ResolveType, ConstantTypes DEF RenameFails
    <3> QED
        BY <2>14, <3>1, ConstantTypes DEF RenameFails, AfterFailedCheckpoint
  <2>15. CASE ResetLogFails
    <3>1. w' \in Writers /\ log' \in Logs /\ orphaned' \in BOOLEAN
        BY <2>15, ConstantTypes DEF ResetLogFails
    <3> QED
        BY <2>15, <3>1, ConstantTypes DEF ResetLogFails, AfterFailedCheckpoint
  <2>16. CASE NeedsCheckpoint
    <3>1. op' \in OpTypes
      <4>1. <<>> \in Seq(Frames)
          OBVIOUS
      <4> QED
          BY <2>16, <4>1 DEF NeedsCheckpoint, OpTypes
    <3> QED
        BY <2>16, <3>1 DEF NeedsCheckpoint, OpTypes
  <2>17. CASE AppendIncrements
    <3>1. log' \in Logs
        BY <2>17, BatchType, WithFramesType DEF AppendIncrements
    <3>2. (IF w.bytes = 0 THEN 1 ELSE w.bytes) + Len(Batch) \in Nat
        BY BatchType DEF Writers
    <3>3. w' \in Writers
        BY <2>17, <3>2, BatchType DEF AppendIncrements, Writers
    <3> QED
        BY <2>17, <3>1, <3>3, ConstantTypes DEF AppendIncrements
  <2>18. CASE AppendFails
    <3>1. log' \in Logs
        BY <2>18, BatchType, TornType DEF AppendFails
    <3>2. w' \in Writers
        BY <2>18 DEF AppendFails, ForceFullAnchor, Writers
    <3> QED
        BY <2>18, <3>1, <3>2, ConstantTypes DEF AppendFails
  <2>19. CASE CloseSession
    <3>1. [meta EXCEPT !.ended = TRUE] \in Metas
        BY DEF Metas
    <3>2. op' \in OpTypes
        BY <2>19, <3>1, ConstantTypes DEF CloseSession, OpTypes
    <3> QED
        BY <2>19, <3>2, ConstantTypes DEF CloseSession, OpTypes
  <2>20. CASE RemoveFile
    BY <2>20, ConstantTypes DEF RemoveFile
  <2>21. CASE Crash
    <3>1. log' \in Logs
        BY <2>21, CrashedType DEF Crash
    <3> QED
        BY <2>21, <3>1, ConstantTypes DEF Crash, Die
  <2>22. CASE WriteBack
    BY <2>22 DEF WriteBack
  <2>23. CASE PowerLoss
    <3>1. meta' \in Metas
      <4>1. PICK t : t = [meta EXCEPT !.st = "torn"]
          OBVIOUS
      <4>2. t \in Metas
          BY <4>1 DEF Metas
      <4>3. meta' \in {meta, dmeta, t}
          BY <2>23, <4>1 DEF PowerLoss
      <4> QED
          BY <4>2, <4>3
    <3>2. log' \in Logs
        BY <2>23, CutType, ConstantTypes DEF PowerLoss
    <3>3. cp' \in Checkpoints
        BY <2>23 DEF PowerLoss
    <3>4. /\ pc' = "down" /\ w' = NoWriter /\ op' = NoOp /\ ring' = <<>>
          /\ pend' = NoPending /\ enabled' = FALSE /\ losses' = losses + 1
          /\ dmeta' = meta' /\ dcp' = cp' /\ dlog' = log'
          /\ out' = out /\ clears' = clears /\ inc' = inc /\ fails' = fails
          /\ ids' = ids /\ wiped' = wiped /\ epoch' = epoch
        BY <2>23 DEF PowerLoss, Die
    <3>5. orphaned' = orphaned /\ gapped' = gapped
        BY <2>23 DEF PowerLoss
    <3>6. losses' \in Nat
        BY <3>4
    <3>7. enabled' \in BOOLEAN
        BY <3>4
    <3>8. w' \in Writers /\ ring' \in Seq(Nat)
        BY <3>4, ConstantTypes
    <3>9. op' \in OpTypes /\ pend' \in [recs : Seq(Frames), overflowed : BOOLEAN]
        BY <3>4, ConstantTypes DEF OpTypes
    <3>10. dmeta' \in Metas /\ dcp' \in Checkpoints /\ dlog' \in Logs
        BY <3>1, <3>2, <3>3, <3>4
    <3> QED
        BY <3>1, <3>2, <3>3, <3>4, <3>5, <3>6, <3>7, <3>8, <3>9, <3>10 DEF OpTypes
  <2>24. CASE UNCHANGED vars
    BY <2>24 DEF vars
  <2> QED
    BY <2>1, <2>2, <2>3, <2>4, <2>5, <2>6, <2>7, <2>8, <2>9, <2>10, <2>11, <2>12, <2>13,
       <2>14, <2>15, <2>16, <2>17, <2>18, <2>19, <2>20, <2>21, <2>22, <2>23, <2>24 DEF Next
<1> QED
  BY <1>1, <1>2, PTL DEF Spec

(***************************************************************************)
(* The generation pairing                                                  *)
(***************************************************************************)
\* Steps that touch neither the files nor the writer nor the progress of a disk
\* operation keep the invariant.
LEMMA PairingFrame ==
    ASSUME PairingIInv, UNCHANGED <<meta, cp, log, dcp, dlog, w, pc, op, ids>>
    PROVE  PairingIInv'
BY DEF PairingIInv, AllPaired, Paired, WriterAhead, UnresolvedIsDurable, Progress

\* What ResolveLogState makes of the generation: the log's own, or at least that
\* of every image of the log.
LEMMA ResolveAhead ==
    ASSUME TypeOK, PairingIInv, w.reg
    PROVE  LET r == ResolveLogState IN
           /\ r.reg /\ r.resolved /\ r.gen \in Nat
           /\ r.needsFull = w.needsFull
           /\ log.st = "ok" => log.gen = r.gen
           /\ log.st # "absent" /\ dlog.st = "ok" => dlog.gen <= r.gen
<1>1. CASE w.resolved
    BY <1>1 DEF TypeOK, PairingIInv, WriterAhead, ResolveLogState, Writers
<1>2. CASE ~w.resolved
  <2>1. dlog = log
      BY <1>2 DEF PairingIInv, UnresolvedIsDurable
  <2>2. log.gen \in Nat
      BY DEF TypeOK, Logs
  <2>3. CASE log.st = "ok"
    <3>1. /\ ResolveLogState.reg = w.reg /\ ResolveLogState.resolved = TRUE
          /\ ResolveLogState.gen = log.gen /\ ResolveLogState.needsFull = w.needsFull
        BY <1>2, <2>3 DEF ResolveLogState, TypeOK, Writers
    <3> QED
        BY <2>1, <2>2, <3>1
  <2>4. CASE log.st # "ok"
    <3>1. /\ ResolveLogState.reg = w.reg /\ ResolveLogState.resolved = TRUE
          /\ ResolveLogState.needsFull = w.needsFull
        BY <1>2, <2>4 DEF ResolveLogState, TypeOK, Writers
    <3>2. ResolveLogState.gen \in Nat
        BY ResolveType DEF Writers
    <3> QED
        BY <2>1, <2>4, <3>1, <3>2
  <2> QED
      BY <2>3, <2>4
<1> QED
    BY <1>1, <1>2

\* The log a crash leaves is headerless, the log of before with more frames, or,
\* while it is being reset, the fresh log of the new checkpoint.
LEMMA CrashedPairs ==
    ASSUME TypeOK, PairingIInv, NEW l \in CrashedLogs
    PROVE  Paired(cp, l)
<1>1. CASE pc = "append" /\ ~OverCap
  <2>1. HeaderedLog = log
      BY <1>1 DEF PairingIInv, Progress, HeaderedLog, TypeOK, Writers
  <2>2. l \in TornAppends(log) \cup {log, WithFrames(log, Batch)}
      BY <1>1, <2>1 DEF CrashedLogs
  <2>3. log \in Logs
      BY DEF TypeOK
  <2>4. l.st = log.st /\ l.gen = log.gen /\ l.base = log.base
      BY <2>2, <2>3, BatchType, WithFramesType, TornType
  <2> QED
      BY <2>4 DEF PairingIInv, AllPaired, Paired
<1>2. CASE pc = "reset"
  <2>1. l \in {log, BadLog, FreshLog(w.gen + 1, ids)}
      BY <1>2 DEF CrashedLogs
  <2>2. BadLog.st = "bad"
      BY DEF BadLog, NoLog
  <2>3. FreshLog(w.gen + 1, ids).base = cp.id
      BY <1>2 DEF PairingIInv, Progress, FreshLog
  <2> QED
      BY <2>1, <2>2, <2>3 DEF PairingIInv, AllPaired, Paired
<1>3. CASE ~(pc = "append" /\ ~OverCap) /\ pc # "reset"
  <2>1. l = log
      BY <1>3 DEF CrashedLogs
  <2> QED
      BY <2>1 DEF PairingIInv, AllPaired
<1> QED
    BY <1>1, <1>2, <1>3

\* After any crash the writer is gone and what is on disk is durable.
LEMMA DownKeepsPairing ==
    ASSUME pc' = "down", w' = NoWriter, dcp' = cp', dlog' = log', Paired(cp, log)'
    PROVE  PairingIInv'
BY DEF PairingIInv, AllPaired, Paired, WriterAhead, UnresolvedIsDurable, Progress, NoWriter

\* The invariant behind PairingInv holds in every state.
LEMMA PairingIInvHolds == Spec => []PairingIInv
<1>1. Init => PairingIInv
    BY DEF Init, PairingIInv, AllPaired, Paired, WriterAhead, UnresolvedIsDurable, Progress,
           NoWriter, NoCheckpoint, NoLog, NoOp
<1>2. TypeOK /\ TypeOK' /\ PairingIInv /\ [Next]_vars => PairingIInv'
  <2> SUFFICES ASSUME TypeOK, TypeOK', PairingIInv, [Next]_vars PROVE PairingIInv'
      OBVIOUS
  <2> USE DEF disk, durable, session, ghosts
  <2>1. CASE StartIncarnation
    <3>1. Restore.some => meta.st = "ok"
        BY DEF Restore, ColdRestore, NothingToRestore, RestoreFromLog, RestoreFromCheckpoint, Finish
    <3>2. /\ pc' \in {"truncMeta", "unlinkCp"}
          /\ pc' = "truncMeta" => op'.then = "reopened" /\ meta.st = "ok"
          /\ pc' = "unlinkCp" => op'.then = "opened"
        BY <2>1, <3>1 DEF StartIncarnation, NoOp
    <3> QED
        BY <2>1, <3>2 DEF StartIncarnation, PairingIInv, AllPaired, Paired, WriterAhead,
           UnresolvedIsDurable, Progress
  <2>2. CASE UnlinkCheckpoint
    BY <2>2 DEF UnlinkCheckpoint, NoCheckpoint, PairingIInv, AllPaired, Paired, WriterAhead,
       UnresolvedIsDurable, Progress
  <2>3. CASE UnlinkLog
    BY <2>3 DEF UnlinkLog, NoLog, PairingIInv, AllPaired, Paired, WriterAhead,
       UnresolvedIsDurable, Progress
  <2>4. CASE TruncateMeta
    BY <2>4 DEF TruncateMeta, PairingIInv, AllPaired, Paired, WriterAhead,
       UnresolvedIsDurable, Progress
  <2>5. CASE WriteMeta
    <3>1. op.then = "opened" => w'.resolved /\ w'.gen = 0 /\ w'.needsFull
        BY <2>5 DEF WriteMeta, WriterAfter, NoWriter
    <3>2. op.then = "reopened" => ~w'.resolved /\ w'.needsFull
        BY <2>5 DEF WriteMeta, WriterAfter, NoWriter
    <3>3. op.then \notin {"opened", "reopened"} => ~w'.reg
        BY <2>5 DEF WriteMeta, WriterAfter, NoWriter
    <3>4. pc' = IF op.then = "ended" THEN "rmdir" ELSE "idle"
        BY <2>5 DEF WriteMeta
    <3> QED
      <4>1. pc = "writeMeta" /\ UNCHANGED <<cp, log, dcp, dlog, ids>>
          BY <2>5 DEF WriteMeta
      <4>2. AllPaired'
          BY <4>1 DEF PairingIInv, AllPaired, Paired
      <4>3. WriterAhead'
          BY <3>1, <3>2, <3>3, <3>4, <4>1 DEF PairingIInv, Progress, WriterAhead
      <4>4. UnresolvedIsDurable'
          BY <3>1, <3>2, <3>3, <3>4, <4>1 DEF PairingIInv, UnresolvedIsDurable
      <4>5. Progress'
          BY <3>1, <3>2, <3>3, <3>4, <4>1 DEF Progress
      <4> QED
          BY <4>2, <4>3, <4>4, <4>5 DEF PairingIInv
  <2>6. CASE EnableHistory
    BY <2>6, PairingFrame DEF EnableHistory
  <2>7. CASE Tee
    BY <2>7, PairingFrame DEF Tee
  <2>8. CASE ClearHistory
    BY <2>8, PairingFrame DEF ClearHistory
  <2>9. CASE BeginTick
    <3>1. /\ pc' \in {"snap", "idle", "append"} /\ (pc' = "append" => ~w.needsFull)
          /\ w.reg /\ UNCHANGED <<meta, cp, log, dcp, dlog, w, ids>>
        BY <2>9 DEF BeginTick
    <3> QED
        BY <3>1 DEF PairingIInv, AllPaired, Paired, WriterAhead, UnresolvedIsDurable, Progress
  <2>10. CASE BeginFlush
    BY <2>10 DEF BeginFlush, PairingIInv, AllPaired, Paired, WriterAhead,
       UnresolvedIsDurable, Progress
  <2>11. CASE BuildCheckpoint
    BY <2>11 DEF BuildCheckpoint, PairingIInv, AllPaired, Paired, WriterAhead,
       UnresolvedIsDurable, Progress
  <2>12. CASE RenameCheckpoint
    <3> DEFINE r == ResolveLogState
    <3>1. w.reg
        BY <2>12 DEF RenameCheckpoint, PairingIInv, Progress
    <3>2. /\ r.reg /\ r.resolved /\ r.gen \in Nat /\ r.needsFull = w.needsFull
          /\ log.st = "ok" => log.gen = r.gen
          /\ log.st # "absent" /\ dlog.st = "ok" => dlog.gen <= r.gen
        BY <3>1, ResolveAhead
    <3>3. /\ w' = r /\ cp'.st = "ok" /\ cp'.gen = r.gen + 1 /\ cp'.id = ids
          /\ dcp' = cp' /\ dlog' = IF log.st = "absent" THEN NoLog ELSE dlog
          /\ pc' = "reset" /\ UNCHANGED <<meta, log, op, ids>>
        BY <2>12 DEF RenameCheckpoint, NextGeneration, SyncedFile, SyncedDirectory
    <3>4. ~w.needsFull => r.bytes > 0
        BY <3>1 DEF PairingIInv, Progress, ResolveLogState
    <3> HIDE DEF r
    <3>5. dlog'.st = "ok" => dlog'.gen \in Nat /\ dlog'.gen <= r.gen
        BY <3>2, <3>3 DEF NoLog, TypeOK, Logs
    <3>6. AllPaired'
        BY <3>2, <3>3, <3>5 DEF AllPaired, Paired
    <3>7. WriterAhead' /\ UnresolvedIsDurable'
        BY <3>2, <3>3, <3>5 DEF WriterAhead, UnresolvedIsDurable
    <3>8. Progress'
        BY <3>2, <3>3, <3>4 DEF Progress
    <3> QED
        BY <3>6, <3>7, <3>8 DEF PairingIInv
  <2>13. CASE ResetLog
    <3>1. /\ w.reg /\ w.resolved /\ dcp = cp /\ cp.st = "ok" /\ cp.gen = w.gen + 1
          /\ cp.id = ids /\ w.gen \in Nat /\ (dlog.st = "ok" => dlog.gen <= w.gen)
          /\ dlog.gen \in Nat
        BY <2>13 DEF ResetLog, PairingIInv, Progress, WriterAhead, TypeOK, Writers, Logs
    <3>2. /\ log'.st = "ok" /\ log'.gen = w.gen + 1 /\ log'.base = ids
          /\ UNCHANGED <<meta, cp, dcp, dlog, ids>> /\ pc' = "idle"
        BY <2>13 DEF ResetLog, FreshLog
    <3>3. /\ w'.reg /\ w'.resolved /\ w'.gen = w.gen + 1 /\ w'.bytes = 1
        BY <2>13, <3>1 DEF ResetLog, WriterAfterReset, TypeOK, Writers
    <3> QED
        BY <3>1, <3>2, <3>3 DEF PairingIInv, AllPaired, Paired, WriterAhead,
           UnresolvedIsDurable, Progress
  <2>14. CASE RenameFails
    <3>1. w.reg
        BY <2>14 DEF RenameFails, PairingIInv, Progress
    <3>2. pc' = "idle" /\ UNCHANGED <<meta, cp, log, dcp, dlog, ids>>
        BY <2>14 DEF RenameFails, AfterFailedCheckpoint
    <3>3. CASE op.final
      <4>1. w' = ResolveLogState
          BY <2>14, <3>3 DEF RenameFails
      <4>2. ~w.needsFull => ResolveLogState.bytes > 0
          BY <3>1 DEF PairingIInv, Progress, ResolveLogState
      <4> QED
          BY <3>1, <3>2, <4>1, <4>2, ResolveAhead DEF PairingIInv, AllPaired, Paired,
             WriterAhead, UnresolvedIsDurable, Progress
    <3>4. CASE ~op.final
      <4>1. w' = NoWriter
          BY <2>14, <3>4 DEF RenameFails
      <4> QED
          BY <3>2, <4>1 DEF NoWriter, PairingIInv, AllPaired, Paired, WriterAhead,
             UnresolvedIsDurable, Progress
    <3> QED
        BY <3>3, <3>4
  <2>15. CASE ResetLogFails
    <3>1. w.reg /\ w.resolved
        BY <2>15 DEF ResetLogFails, PairingIInv, Progress
    <3>2. /\ pc' = "idle" /\ log' \in {log, BadLog} /\ w' \in {w, NoWriter}
          /\ UNCHANGED <<meta, cp, dcp, dlog, ids>>
        BY <2>15 DEF ResetLogFails, AfterFailedCheckpoint
    <3>3. BadLog.st = "bad" /\ ~NoWriter.reg
        BY DEF BadLog, NoLog, NoWriter
    <3>4. pc = "reset"
        BY <2>15 DEF ResetLogFails
    <3> QED
        BY <3>1, <3>2, <3>3, <3>4 DEF PairingIInv, AllPaired, Paired, WriterAhead,
           UnresolvedIsDurable, Progress
  <2>16. CASE NeedsCheckpoint
    BY <2>16 DEF NeedsCheckpoint, PairingIInv, AllPaired, Paired, WriterAhead,
       UnresolvedIsDurable, Progress
  <2>17. CASE AppendIncrements
    <3>1. /\ HeaderedLog = log /\ w.reg /\ w.resolved /\ ~w.needsFull
        BY <2>17 DEF AppendIncrements, PairingIInv, Progress, HeaderedLog, TypeOK, Writers
    <3>2. log'.st = log.st /\ log'.gen = log.gen /\ log'.base = log.base
        BY <2>17, <3>1, BatchType, WithFramesType DEF AppendIncrements
    <3>3. /\ w'.reg /\ w'.resolved /\ w'.gen = w.gen
          /\ w'.bytes = (IF w.bytes = 0 THEN 1 ELSE w.bytes) + Len(Batch)
        BY <2>17, <3>1 DEF AppendIncrements, TypeOK, Writers
    <3>4. w'.bytes > 0
      <4>1. w.bytes \in Nat /\ Len(Batch) \in Nat
          BY BatchType DEF TypeOK, Writers
      <4> HIDE DEF Batch
      <4> QED
          BY <3>3, <4>1
    <3>5. pc' = "idle" /\ UNCHANGED <<meta, cp, dcp, dlog, ids>>
        BY <2>17 DEF AppendIncrements
    <3> QED
        BY <3>1, <3>2, <3>3, <3>4, <3>5 DEF PairingIInv, AllPaired, Paired, WriterAhead,
           UnresolvedIsDurable, Progress
  <2>18. CASE AppendFails
    <3>1. /\ HeaderedLog = log /\ w.reg /\ w.resolved
        BY <2>18 DEF AppendFails, PairingIInv, Progress, HeaderedLog, TypeOK, Writers
    <3>2. log'.st = log.st /\ log'.gen = log.gen /\ log'.base = log.base
        BY <2>18, <3>1, TornType DEF AppendFails, TypeOK
    <3>3. w'.reg /\ w'.resolved /\ w'.gen = w.gen /\ w'.needsFull
        BY <2>18, <3>1 DEF AppendFails, ForceFullAnchor, TypeOK, Writers
    <3>4. pc' = "idle" /\ UNCHANGED <<meta, cp, dcp, dlog, ids>>
        BY <2>18 DEF AppendFails
    <3> QED
        BY <3>1, <3>2, <3>3, <3>4 DEF PairingIInv, AllPaired, Paired, WriterAhead,
           UnresolvedIsDurable, Progress
  <2>19. CASE CloseSession
    <3>1. /\ pc' \in {"truncMeta", "rmdir"} /\ w' = NoWriter
          /\ UNCHANGED <<meta, cp, log, dcp, dlog, ids>>
          /\ pc' = "truncMeta" => op'.then = "ended"
        BY <2>19 DEF CloseSession, NoOp
    <3> QED
        BY <3>1 DEF NoWriter, PairingIInv, AllPaired, Paired, WriterAhead,
           UnresolvedIsDurable, Progress
  <2>20. CASE RemoveFile
    <3>1. /\ cp' \in {cp, NoCheckpoint} /\ log' \in {log, NoLog} /\ pc' \in {"rmdir", "down"}
          /\ UNCHANGED <<dcp, dlog, w, op, ids>> /\ pc = "rmdir"
          /\ pc' = "down" => meta'.st = "absent"
        BY <2>20 DEF RemoveFile
    <3>2. NoCheckpoint.st = "absent" /\ NoLog.st = "absent"
        BY DEF NoCheckpoint, NoLog
    <3> QED
        BY <3>1, <3>2 DEF PairingIInv, AllPaired, Paired, WriterAhead, UnresolvedIsDurable,
           Progress
  <2>21. CASE Crash
    <3>1. log' \in CrashedLogs /\ cp' = cp
        BY <2>21 DEF Crash
    <3>2. Paired(cp, log)'
        BY <3>1, CrashedPairs DEF Paired
    <3>3. pc' = "down" /\ w' = NoWriter /\ dcp' = cp' /\ dlog' = log'
        BY <2>21 DEF Crash, Die
    <3> QED
        BY <3>2, <3>3, DownKeepsPairing
  <2>22. CASE WriteBack
    BY <2>22 DEF WriteBack, PairingIInv, AllPaired, Paired, WriterAhead, UnresolvedIsDurable,
       Progress, TypeOK, Writers
  <2>23. CASE PowerLoss
    <3>1. cp' \in {cp, dcp}
        BY <2>23 DEF PowerLoss
    <3>2. \/ log' \in {log, dlog, BadLog}
          \/ log'.st = log.st /\ log'.gen = log.gen /\ log'.base = log.base
        BY <2>23, CutType DEF PowerLoss, TypeOK
    <3>3. BadLog.st = "bad"
        BY DEF BadLog, NoLog
    <3>4. Paired(cp, log)'
        BY <3>1, <3>2, <3>3 DEF PairingIInv, AllPaired, Paired
    <3>5. pc' = "down" /\ w' = NoWriter /\ dcp' = cp' /\ dlog' = log'
        BY <2>23 DEF PowerLoss, Die
    <3> QED
        BY <3>4, <3>5, DownKeepsPairing
  <2>24. CASE UNCHANGED vars
    BY <2>24, PairingFrame DEF vars
  <2> QED
    BY <2>1, <2>2, <2>3, <2>4, <2>5, <2>6, <2>7, <2>8, <2>9, <2>10, <2>11, <2>12, <2>13,
       <2>14, <2>15, <2>16, <2>17, <2>18, <2>19, <2>20, <2>21, <2>22, <2>23, <2>24 DEF Next
<1> QED
    BY <1>1, <1>2, TypeCorrect, PTL DEF Spec

\* The pairing of checkpoint and log by their generation: whatever crashed or
\* failed, and although generation numbers are reused after a crash between the
\* rename of a checkpoint and the reset of its log, a log whose generation is the
\* checkpoint's was started by that checkpoint.
THEOREM PairingHolds == Spec => []PairingInv
<1>1. PairingIInv => PairingInv
    BY DEF PairingIInv, AllPaired, Paired, PairingInv
<1> QED
    BY <1>1, PairingIInvHolds, PTL

(***************************************************************************)
(* The inductive invariant behind OneIncarnation.  Chunks are numbered     *)
(* over all incarnations, and epoch stands between the last one and those  *)
(* before it.  Whatever mix of written and durable files a restart finds,  *)
(* a checkpoint with the log that continues it is on one side of epoch,    *)
(* and above the floor of every meta.json the checkpoint is not older than.*)
(***************************************************************************)
OutputsOf(fs) == {fs[i].val : i \in {j \in 1 .. Len(fs) : fs[j].kind = "output"}}
Above(S, n) == \A c \in S : n < c
UpTo(S, n) == \A c \in S : c <= n

\* What the session and the operation in progress hold is of this incarnation.
Memory == ChunksOf(ring) \cup OutputsOf(pend.recs) \cup ChunksOf(op.ring) \cup OutputsOf(op.recs)
Gone == {"down", "rmdir", "unlinkCp", "unlinkLog", "truncMeta", "writeMeta"}
MemoryIsNew == Above(Memory, epoch) /\ UpTo(Memory, out) /\ (pc \in Gone => Memory = {})

MetaImages == {meta, dmeta, op.meta, NoMeta}
CpImages == {cp, dcp}
LogImages == {log, dlog}

\* What is in the files is not from the future; a checkpoint that is about to be
\* renamed has a number that no log has.
Ages ==
    /\ epoch <= out
    /\ \A m \in MetaImages : m.floor <= epoch /\ m.started <= inc
    /\ \A c \in CpImages : c.at <= inc /\ c.st # "torn"
    /\ \A l \in LogImages : l.base <= ids /\ (l.st = "ok" => l.gen > 0)
    /\ pc = "rename" => \A l \in LogImages : l.base < ids

\* The checkpoint c with the log l, if l continues it, against epoch e and o chunks.
Content(c, l) ==
    ChunksOf(c.ring) \cup (IF l.st = "ok" /\ l.base = c.id THEN OutputsOf(l.frames) ELSE {})
OfOne(m, c, l, e, o) ==
    c.st = "ok" => /\ UpTo(Content(c, l), o)
                   /\ UpTo(Content(c, l), e) \/ Above(Content(c, l), e)
                   /\ c.at >= m.started => Above(Content(c, l), m.floor)
AllOfOne == \A m \in MetaImages, c \in CpImages, l \in LogImages : OfOne(m, c, l, epoch, out)

\* A writer that appends has made its log, and the checkpoint before it, itself.
OwnLog ==
    /\ ~w.reg => w.needsFull
    /\ pc = "reset" => Above(ChunksOf(cp.ring), epoch)
    /\ ~w.needsFull /\ log.st = "ok" =>
          /\ Above(OutputsOf(log.frames), epoch)
          /\ \A c \in CpImages : c.st = "ok" /\ c.id = log.base => Above(ChunksOf(c.ring), epoch)

OneInv == MemoryIsNew /\ Ages /\ AllOfOne /\ OwnLog

(***************************************************************************)
(* What sequences of frames and of chunks hold                             *)
(***************************************************************************)
\* Nothing is in an empty one.
LEMMA EmptyHolds == OutputsOf(<<>>) = {} /\ ChunksOf(<<>>) = {}
BY DEF OutputsOf, ChunksOf

\* Chunks and outputs are numbers.
LEMMA HoldNumbers ==
    /\ \A s \in Seq(Nat) : \A x \in ChunksOf(s) : x \in Nat
    /\ \A s \in Seq(Frames) : \A x \in OutputsOf(s) : x \in Nat
<1>1. ASSUME NEW s \in Seq(Nat), NEW i \in 1 .. Len(s) PROVE s[i] \in Nat
    OBVIOUS
<1>2. ASSUME NEW s \in Seq(Frames), NEW i \in 1 .. Len(s) PROVE s[i].val \in Nat
  <2>1. s[i] \in Frames
      OBVIOUS
  <2> QED
      BY <2>1 DEF Frames
<1> QED
    BY <1>1, <1>2 DEF ChunksOf, OutputsOf

\* A cut sequence has no more.
LEMMA CutHolds ==
    ASSUME NEW s \in Seq(Frames), NEW k \in 0 .. Len(s)
    PROVE  OutputsOf(SubSeq(s, 1, k)) \subseteq OutputsOf(s)
<1> DEFINE t == SubSeq(s, 1, k)
<1>1. Len(t) = k /\ \A i \in 1 .. k : t[i] = s[i]
    OBVIOUS
<1>2. \A i \in 1 .. k : i \in 1 .. Len(s)
    OBVIOUS
<1> HIDE DEF t
<1>3. OutputsOf(t) \subseteq OutputsOf(s)
    BY <1>1, <1>2 DEF OutputsOf
<1> QED
    BY <1>3 DEF t

\* One behind the other they have what each has.
LEMMA JoinHolds ==
    ASSUME NEW s \in Seq(Frames), NEW t \in Seq(Frames)
    PROVE  OutputsOf(s \o t) \subseteq OutputsOf(s) \cup OutputsOf(t)
<1> DEFINE u == s \o t
<1>1. /\ Len(s) \in Nat /\ Len(t) \in Nat /\ Len(u) = Len(s) + Len(t)
      /\ \A i \in 1 .. Len(s) : u[i] = s[i]
      /\ \A i \in 1 .. Len(u) : i \notin 1 .. Len(s) => i - Len(s) \in 1 .. Len(t) /\ u[i] = t[i - Len(s)]
    OBVIOUS
<1> HIDE DEF u
<1>2. OutputsOf(u) \subseteq OutputsOf(s) \cup OutputsOf(t)
  <2> SUFFICES ASSUME NEW i \in 1 .. Len(u), u[i].kind = "output"
               PROVE  u[i].val \in OutputsOf(s) \cup OutputsOf(t)
      BY DEF OutputsOf
  <2>1. CASE i \in 1 .. Len(s)
      BY <1>1, <2>1 DEF OutputsOf
  <2>2. CASE i \notin 1 .. Len(s)
    <3>1. i - Len(s) \in 1 .. Len(t) /\ u[i] = t[i - Len(s)]
        BY <1>1, <2>2
    <3> QED
        BY <3>1 DEF OutputsOf
  <2> QED
      BY <2>1, <2>2
<1> QED
    BY <1>2 DEF u

\* A pushed record is what is new.
LEMMA PushHolds ==
    ASSUME NEW s \in Seq(Frames), NEW f \in Frames
    PROVE  /\ OutputsOf(Append(s, f)) \subseteq OutputsOf(s) \cup {f.val}
           /\ f.kind # "output" => OutputsOf(Append(s, f)) \subseteq OutputsOf(s)
<1> DEFINE u == Append(s, f)
<1>1. /\ Len(s) \in Nat /\ Len(u) = Len(s) + 1 /\ u[Len(s) + 1] = f
      /\ \A i \in 1 .. Len(s) : u[i] = s[i]
    OBVIOUS
<1> HIDE DEF u
<1>2. \A i \in 1 .. Len(u) : i \in 1 .. Len(s) \/ i = Len(s) + 1
    BY <1>1
<1>3. ASSUME NEW i \in 1 .. Len(u), u[i].kind = "output"
      PROVE  u[i].val \in OutputsOf(s) \/ (f.kind = "output" /\ u[i].val = f.val)
    BY <1>1, <1>2, <1>3 DEF OutputsOf
<1>4. OutputsOf(u) \subseteq OutputsOf(s) \cup {f.val} /\ (f.kind # "output" => OutputsOf(u) \subseteq OutputsOf(s))
    BY <1>3 DEF OutputsOf
<1> QED
    BY <1>4 DEF u

\* The ring has its old chunks and the new one.
LEMMA RingHolds ==
    ASSUME NEW s \in Seq(Nat), NEW c \in Nat
    PROVE  ChunksOf(AppendCapped(s, c)) \subseteq ChunksOf(s) \cup {c}
<1> DEFINE t == Append(s, c)
<1>1. t \in Seq(Nat) /\ Len(s) \in Nat /\ Len(t) = Len(s) + 1 /\ \A i \in 1 .. Len(t) : t[i] \in ChunksOf(s) \cup {c}
    BY DEF ChunksOf
<1>2. AppendCapped(s, c) \in {t, Tail(t)}
    BY DEF AppendCapped
<1> HIDE DEF t
<1>3. t # <<>>
    BY <1>1
<1>4. Len(Tail(t)) = Len(s) /\ \A i \in 1 .. Len(s) : Tail(t)[i] = t[i + 1] /\ i + 1 \in 1 .. Len(t)
    BY <1>1, <1>3
<1>5. \A i \in 1 .. Len(Tail(t)) : Tail(t)[i] \in ChunksOf(s) \cup {c}
    BY <1>1, <1>4
<1>6. ChunksOf(t) \subseteq ChunksOf(s) \cup {c} /\ ChunksOf(Tail(t)) \subseteq ChunksOf(s) \cup {c}
    BY <1>1, <1>5 DEF ChunksOf
<1> QED
    BY <1>2, <1>6

\* The Batch frame is no output.
LEMMA BatchHolds == ASSUME TypeOK PROVE OutputsOf(Batch) \subseteq OutputsOf(op.recs)
<1>1. PICK b \in Frames : b = [kind |-> "batch", val |-> BatchSeq, n |-> Len(op.recs)]
  <2>1. op.recs \in Seq(Frames) /\ Len(op.recs) \in Nat /\ BatchSeq \in Nat
      BY BatchType DEF TypeOK
  <2>2. [kind |-> "batch", val |-> BatchSeq, n |-> Len(op.recs)] \in Frames
      BY <2>1 DEF Frames
  <2> QED
      BY <2>2
<1>2. <<b>> \in Seq(Frames) /\ op.recs \in Seq(Frames) /\ Batch = <<b>> \o op.recs
    BY <1>1 DEF Batch, TypeOK
<1>3. OutputsOf(<<b>>) = {}
    BY <1>1 DEF OutputsOf
<1> QED
    BY <1>2, <1>3, JoinHolds

(***************************************************************************)
(* The steps                                                               *)
(***************************************************************************)
\* The session's buffers and the operation hold nothing new.
LEMMA MemoryShrinks ==
    ASSUME TypeOK, TypeOK', MemoryIsNew, epoch' = epoch, out' = out,
           ring' \in {ring, <<>>}, pend'.recs \in {pend.recs, <<>>},
           op'.ring \in {op.ring, ring, <<>>}, op'.recs \in {op.recs, pend.recs, <<>>},
           pc' \in Gone => pc \in Gone \/ Memory' = {}
    PROVE  MemoryIsNew'
<1>1. Memory' \subseteq Memory
    BY EmptyHolds DEF Memory
<1> QED
    BY <1>1 DEF MemoryIsNew, Above, UpTo

\* A log l that may take the place of one on disk.
LogFits(l) ==
    /\ l.base <= ids /\ (l.st = "ok" => l.gen > 0)
    /\ \A m \in MetaImages, c \in CpImages : OfOne(m, c, l, epoch, out)

\* The logs on disk, one that was lost and one that was cut short do.
LEMMA OldLogFits ==
    ASSUME TypeOK, Ages, AllOfOne, NEW l \in LogImages, NEW t \in Logs,
           \/ t = l
           \/ t \in {NoLog, BadLog}
           \/ t.st = l.st /\ t.base = l.base /\ t.gen = l.gen /\ OutputsOf(t.frames) \subseteq OutputsOf(l.frames)
    PROVE  LogFits(t)
<1>1. ids \in Nat
    BY DEF TypeOK
<1>2. CASE t = l
    BY <1>2 DEF LogFits, Ages, AllOfOne
<1>3. CASE t \in {NoLog, BadLog}
  <2>1. t.st # "ok" /\ t.base = 0
      BY <1>3 DEF NoLog, BadLog
  <2>2. \A c \in CpImages : Content(c, t) \subseteq Content(c, l)
      BY <2>1 DEF Content
  <2> QED
      BY <1>1, <2>1, <2>2 DEF LogFits, AllOfOne, OfOne, Above, UpTo
<1>4. CASE t.st = l.st /\ t.base = l.base /\ t.gen = l.gen /\ OutputsOf(t.frames) \subseteq OutputsOf(l.frames)
  <2>1. \A c \in CpImages : Content(c, t) \subseteq Content(c, l)
      BY <1>4 DEF Content
  <2> QED
      BY <1>4, <2>1 DEF LogFits, Ages, AllOfOne, OfOne, Above, UpTo
<1> QED
    BY <1>2, <1>3, <1>4

\* The new log of a full checkpoint is empty.
LEMMA FreshLogFits ==
    ASSUME TypeOK, Ages, AllOfOne
    PROVE  LogFits(FreshLog(w.gen + 1, ids))
<1> DEFINE t == FreshLog(w.gen + 1, ids)
<1>1. t.st = "ok" /\ t.base = ids /\ t.gen = w.gen + 1 /\ t.frames = <<>> /\ w.gen \in Nat /\ ids \in Nat
    BY DEF FreshLog, TypeOK, Writers
<1> HIDE DEF t
<1>2. \A c \in CpImages : Content(c, t) \subseteq Content(c, log)
    BY <1>1, EmptyHolds DEF Content
<1>3. log \in LogImages
    BY DEF LogImages
<1>4. LogFits(t)
    BY <1>1, <1>2, <1>3 DEF LogFits, AllOfOne, OfOne, Above, UpTo
<1> QED
    BY <1>4 DEF t

\* What an append, all of it or a part, makes of the log is of this incarnation.
LEMMA GrownLog ==
    ASSUME TypeOK, PairingIInv, OneInv, pc = "append", NEW fs \in Seq(Frames),
           OutputsOf(fs) \subseteq OutputsOf(Batch), NEW t, t = WithFrames(HeaderedLog, fs)
    PROVE  /\ LogFits(t)
           /\ t.st = "ok" => Above(OutputsOf(t.frames), epoch)
           /\ t.st = log.st /\ t.base = log.base
<1>1. ~w.needsFull /\ HeaderedLog = log /\ log \in Logs
    BY DEF PairingIInv, Progress, OneInv, OwnLog, HeaderedLog, TypeOK, Writers
<1>2. t \in Logs /\ t.st = log.st /\ t.gen = log.gen /\ t.base = log.base
    BY <1>1, WithFramesType
<1>3. log \in LogImages
    BY DEF LogImages
<1>4. CASE log.st = "ok"
  <2>1. t.frames = log.frames \o fs /\ log.frames \in Seq(Frames)
      BY <1>1, <1>4 DEF WithFrames, Logs
  <2>2. OutputsOf(t.frames) \subseteq OutputsOf(log.frames) \cup OutputsOf(op.recs)
      BY <2>1, JoinHolds, BatchHolds
  <2>3. OutputsOf(op.recs) \subseteq Memory
      BY DEF Memory
  <2>4. Above(OutputsOf(t.frames), epoch)
      BY <1>1, <1>4, <2>2, <2>3 DEF OneInv, OwnLog, MemoryIsNew, Above
  <2>5. ASSUME NEW m \in MetaImages, NEW c \in CpImages, c.st = "ok"
        PROVE  OfOne(m, c, t, epoch, out)
    <3>1. OfOne(m, c, log, epoch, out)
        BY <1>3 DEF OneInv, AllOfOne
    <3>2. CASE c.id = log.base
      <4>1. Content(c, log) = ChunksOf(c.ring) \cup OutputsOf(log.frames)
          BY <1>4, <3>2 DEF Content
      <4>2. Content(c, t) = ChunksOf(c.ring) \cup OutputsOf(t.frames)
          BY <1>2, <1>4, <3>2 DEF Content
      <4>3. Above(Content(c, t), epoch)
          BY <1>1, <1>4, <2>4, <2>5, <3>2, <4>2 DEF OneInv, OwnLog, Above
      <4>4. UpTo(Content(c, t), out)
          BY <2>2, <2>3, <2>5, <3>1, <4>1, <4>2 DEF OfOne, OneInv, MemoryIsNew, UpTo
      <4>5. m.floor <= epoch /\ m.floor \in Nat /\ epoch \in Nat /\ \A x \in Content(c, t) : x \in Nat
        <5>1. m.floor \in Nat
            BY ConstantTypes DEF TypeOK, MetaImages, Metas
        <5>2. \A x \in ChunksOf(c.ring) : x \in Nat
            BY HoldNumbers DEF CpImages, TypeOK, Checkpoints
        <5>3. \A x \in OutputsOf(t.frames) : x \in Nat
            BY <1>2, HoldNumbers DEF Logs
        <5> QED
            BY <4>2, <5>1, <5>2, <5>3 DEF OneInv, Ages, TypeOK
      <4>6. Above(Content(c, t), m.floor)
          BY <4>3, <4>5 DEF Above
      <4> QED
          BY <4>3, <4>4, <4>6 DEF OfOne
    <3>3. CASE c.id # log.base
      <4>1. Content(c, t) = ChunksOf(c.ring) /\ Content(c, log) = ChunksOf(c.ring)
          BY <1>2, <3>3 DEF Content
      <4> QED
          BY <3>1, <4>1 DEF OfOne
    <3> QED
        BY <3>2, <3>3
  <2>6. \A m \in MetaImages, c \in CpImages : OfOne(m, c, t, epoch, out)
      BY <2>5 DEF OfOne
  <2> QED
      BY <1>2, <1>3, <2>4, <2>6 DEF LogFits, OneInv, Ages
<1>5. CASE log.st # "ok"
  <2>1. t = log
      BY <1>1, <1>5 DEF WithFrames
  <2> QED
      BY <1>1, <1>2, <1>3, <1>5, <2>1, OldLogFits DEF OneInv
<1> QED
    BY <1>4, <1>5

\* A step after which every file is one that was there, or one that fits.
LEMMA FilesKept ==
    ASSUME TypeOK, TypeOK', Ages, AllOfOne, epoch' = epoch, inc' = inc, out <= out', ids <= ids',
           \A m \in MetaImages' : \E n \in MetaImages : m.floor = n.floor /\ m.started = n.started,
           \A c \in CpImages' : c \in CpImages \/ c = NoCheckpoint,
           \A l \in LogImages' : LogFits(l),
           pc' = "rename" => LogImages' \subseteq LogImages /\ (pc = "rename" \/ ids < ids')
    PROVE  Ages' /\ AllOfOne'
<1>1. out \in Nat /\ out' \in Nat /\ ids \in Nat /\ ids' \in Nat /\ epoch \in Nat /\ inc \in Nat
    BY DEF TypeOK
<1>2. NoCheckpoint.st = "absent" /\ NoCheckpoint.at = 0
    BY DEF NoCheckpoint
<1>3. \A l \in LogImages : l.base \in Nat
    BY DEF LogImages, TypeOK, Logs
<1>4. \A l \in LogImages' : l.base \in Nat
    BY DEF LogImages, TypeOK, Logs
<1>5. Ages'
  <2>1. epoch' <= out'
      BY <1>1 DEF Ages
  <2>2. \A m \in MetaImages' : m.floor <= epoch' /\ m.started <= inc'
      BY DEF Ages
  <2>3. \A c \in CpImages' : c.at <= inc' /\ c.st # "torn"
      BY <1>1, <1>2 DEF Ages
  <2>4. \A l \in LogImages' : l.base <= ids' /\ (l.st = "ok" => l.gen > 0)
      BY <1>1, <1>4 DEF LogFits
  <2>5. pc' = "rename" => \A l \in LogImages' : l.base < ids'
      BY <1>1, <1>3 DEF Ages
  <2> QED
      BY <2>1, <2>2, <2>3, <2>4, <2>5 DEF Ages
<1>6. ASSUME NEW m \in MetaImages', NEW c \in CpImages', NEW l \in LogImages'
      PROVE  OfOne(m, c, l, epoch', out')
  <2>1. CASE c.st = "ok"
    <3>1. c \in CpImages
        BY <1>2, <2>1
    <3>2. PICK n \in MetaImages : m.floor = n.floor /\ m.started = n.started
        OBVIOUS
    <3>3. OfOne(n, c, l, epoch, out)
        BY <3>1 DEF LogFits
    <3>4. \A x \in Content(c, l) : x \in Nat
      <4>1. \A x \in ChunksOf(c.ring) : x \in Nat
          BY <3>1, HoldNumbers DEF CpImages, TypeOK, Checkpoints
      <4>2. \A x \in OutputsOf(l.frames) : x \in Nat
          BY HoldNumbers DEF LogImages, TypeOK, Logs
      <4> QED
          BY <4>1, <4>2 DEF Content
    <3>5. UpTo(Content(c, l), out')
        BY <1>1, <2>1, <3>3, <3>4 DEF OfOne, UpTo
    <3> QED
        BY <2>1, <3>2, <3>3, <3>5 DEF OfOne
  <2> QED
      BY <2>1 DEF OfOne
<1> QED
    BY <1>5, <1>6 DEF AllOfOne

\* A writer that appends stays the one that made the log.
LEMMA OwnLogKept ==
    ASSUME OwnLog, epoch' = epoch,
           ~w'.reg => w'.needsFull,
           pc' = "reset" => pc = "reset" /\ cp' = cp,
           ~w'.needsFull => /\ ~w.needsFull /\ (log' = log \/ log'.st # "ok")
                            /\ \A c \in CpImages' : c.st = "ok" => c \in CpImages
    PROVE  OwnLog'
BY DEF OwnLog

\* The logs on disk fit, and so do none and an unreadable one.
LEMMA DiskLogsFit ==
    ASSUME TypeOK, Ages, AllOfOne
    PROVE  LogFits(log) /\ LogFits(dlog) /\ LogFits(NoLog) /\ LogFits(BadLog)
<1>1. log \in LogImages /\ dlog \in LogImages /\ log \in Logs /\ dlog \in Logs
    BY DEF LogImages, TypeOK
<1> QED
    BY <1>1, OldLogFits, ConstantTypes

\* Resolving the log does not make a writer append.
LEMMA ResolveKeeps ==
    ASSUME TypeOK
    PROVE  ResolveLogState.reg = w.reg /\ ResolveLogState.needsFull = w.needsFull
BY DEF ResolveLogState, TypeOK, Writers

\* The fields of the operations that begin.
LEMMA OpFields ==
    /\ NoOp.ring = <<>> /\ NoOp.recs = <<>> /\ NoOp.meta = NoMeta /\ NoPending.recs = <<>>
    /\ \A m, t : LET r == [NoOp EXCEPT !.meta = m, !.then = t]
                IN  r.ring = <<>> /\ r.recs = <<>> /\ r.meta = m
    /\ \A fs : LET r == [NoOp EXCEPT !.recs = fs]
               IN  r.ring = <<>> /\ r.recs = fs /\ r.meta = NoMeta
    /\ \A b : LET r == [NoOp EXCEPT !.final = b]
              IN  r.ring = <<>> /\ r.recs = <<>> /\ r.meta = NoMeta
BY DEF NoOp, NoPending

\* A step of the session or of a persist that leaves the files alone.
LEMMA NoFileStep ==
    ASSUME TypeOK, TypeOK', OneInv, UNCHANGED <<disk, durable, inc, epoch>>, out <= out', ids <= ids',
           op'.meta \in {NoMeta, op.meta} \/ (op'.meta.floor = meta.floor /\ op'.meta.started = meta.started),
           pc' = "rename" => pc = "rename" \/ ids < ids',
           ~w'.reg => w'.needsFull, pc' = "reset" => pc = "reset", ~w'.needsFull => ~w.needsFull
    PROVE  Ages' /\ AllOfOne' /\ OwnLog'
<1>1. /\ UNCHANGED <<meta, dmeta, cp, dcp, log, dlog>>
      /\ CpImages' = CpImages /\ LogImages' = LogImages
    BY DEF disk, durable, CpImages, LogImages
<1>2. \A m \in MetaImages' : \E n \in MetaImages : m.floor = n.floor /\ m.started = n.started
    BY <1>1 DEF MetaImages
<1>3. \A l \in LogImages' : LogFits(l)
    BY <1>1, DiskLogsFit DEF OneInv, LogImages
<1>4. Ages' /\ AllOfOne'
    BY <1>1, <1>2, <1>3, FilesKept DEF OneInv
<1>5. OwnLog'
    BY <1>1, OwnLogKept DEF OneInv
<1> QED
    BY <1>4, <1>5

\* The first step of an incarnation: all that is on disk is from before, and a new
\* meta.json is younger than every checkpoint.
LEMMA StartStep ==
    ASSUME TypeOK, TypeOK', PairingIInv, OneInv, StartIncarnation
    PROVE  OneInv'
<1>1. /\ pc = "down" /\ pc' \in {"truncMeta", "unlinkCp"} /\ inc' = inc + 1 /\ epoch' = out /\ out' = out
      /\ UNCHANGED <<meta, dmeta, cp, dcp, log, dlog, w, ring, pend, ids>>
    BY DEF StartIncarnation, disk, durable
<1>2. out \in Nat /\ inc \in Nat /\ epoch \in Nat /\ ids \in Nat
    BY DEF TypeOK
<1>3. /\ op'.ring = <<>> /\ op'.recs = <<>>
      /\ \/ op'.meta.floor = meta.floor /\ op'.meta.started = meta.started
         \/ op'.meta.floor = out /\ op'.meta.started = inc + 1
  <2>1. CASE Restore.some
    <3>1. PICK m : m = [meta EXCEPT !.ended = FALSE]
        OBVIOUS
    <3>2. op' = [NoOp EXCEPT !.meta = m, !.then = "reopened"]
        BY <2>1, <3>1 DEF StartIncarnation
    <3>3. m.floor = meta.floor /\ m.started = meta.started
        BY <3>1 DEF TypeOK, Metas
    <3> QED
        BY <3>2, <3>3, OpFields
  <2>2. CASE ~Restore.some
    <3>1. PICK m : m = [NoMeta EXCEPT !.st = "ok", !.started = inc + 1, !.floor = out]
        OBVIOUS
    <3>2. op' = [NoOp EXCEPT !.meta = m, !.then = "opened"]
        BY <2>2, <3>1 DEF StartIncarnation
    <3>3. m.floor = out /\ m.started = inc + 1
        BY <3>1 DEF NoMeta
    <3> QED
        BY <3>2, <3>3, OpFields
  <2> QED
      BY <2>1, <2>2
<1>4. MemoryIsNew'
  <2>1. Memory = {}
      BY <1>1 DEF OneInv, MemoryIsNew, Gone
  <2>2. Memory' = {}
      BY <1>1, <1>3, <2>1, EmptyHolds DEF Memory
  <2> QED
      BY <2>2 DEF MemoryIsNew, Above, UpTo
<1>5. CpImages' = CpImages /\ LogImages' = LogImages
    BY <1>1 DEF CpImages, LogImages
<1>6. \A m \in MetaImages' : \/ \E n \in MetaImages : m.floor = n.floor /\ m.started = n.started
                             \/ m.floor = out /\ m.started = inc + 1
    BY <1>1, <1>3 DEF MetaImages
<1>7. \A m \in MetaImages : m.floor \in Nat /\ m.started \in Nat /\ m.floor <= epoch /\ m.started <= inc
  <2>1. \A m \in MetaImages : m \in Metas
      BY ConstantTypes DEF MetaImages, TypeOK
  <2> QED
      BY <2>1 DEF OneInv, Ages, Metas
<1>8. \A c \in CpImages : c.at \in Nat /\ c.at <= inc
    BY DEF CpImages, TypeOK, Checkpoints, OneInv, Ages
<1>9. Ages'
  <2>1. \A m \in MetaImages' : m.floor <= epoch' /\ m.started <= inc'
      BY <1>1, <1>2, <1>6, <1>7 DEF OneInv, Ages
  <2>2. \A c \in CpImages' : c.at <= inc' /\ c.st # "torn"
      BY <1>1, <1>2, <1>5, <1>8 DEF OneInv, Ages
  <2> QED
      BY <1>1, <1>2, <1>5, <2>1, <2>2 DEF OneInv, Ages
<1>10. ASSUME NEW m \in MetaImages', NEW c \in CpImages', NEW l \in LogImages', c.st = "ok"
       PROVE  OfOne(m, c, l, epoch', out')
  <2>1. c \in CpImages /\ l \in LogImages
      BY <1>5
  <2>2. meta \in MetaImages
      BY DEF MetaImages
  <2>3. UpTo(Content(c, l), out)
      BY <1>10, <2>1, <2>2 DEF OneInv, AllOfOne, OfOne
  <2>4. CASE \E n \in MetaImages : m.floor = n.floor /\ m.started = n.started
      BY <1>1, <1>10, <2>1, <2>3, <2>4 DEF OneInv, AllOfOne, OfOne
  <2>5. CASE m.floor = out /\ m.started = inc + 1
    <3>1. ~(c.at >= m.started)
        BY <1>2, <1>8, <2>1, <2>5
    <3> QED
        BY <1>1, <2>3, <3>1 DEF OfOne
  <2> QED
      BY <1>6, <2>4, <2>5
<1>11. AllOfOne'
    BY <1>10 DEF AllOfOne, OfOne
<1>12. OwnLog'
  <2>1. w.needsFull
      BY <1>1 DEF PairingIInv, Progress, OneInv, OwnLog
  <2> QED
      BY <1>1, <2>1 DEF OwnLog
<1> QED
    BY <1>4, <1>9, <1>11, <1>12 DEF OneInv

\* The reader thread's tee and clear_history.
LEMMA SessionStep ==
    ASSUME TypeOK, TypeOK', OneInv, Tee \/ ClearHistory
    PROVE  OneInv'
<1>1. /\ UNCHANGED <<disk, durable, w, pc, op, inc, ids, epoch>>
      /\ pc \notin Gone
    BY DEF Tee, ClearHistory, Running, Gone
<1>2. out \in Nat /\ epoch \in Nat /\ out <= out' /\ ids \in Nat /\ ids <= ids' /\ epoch <= out
    BY DEF Tee, ClearHistory, TypeOK, OneInv, Ages
<1>3. Ages' /\ AllOfOne' /\ OwnLog'
    BY <1>1, <1>2, NoFileStep DEF OneInv, OwnLog, Ages
<1>4. \A x \in Memory : x \in Nat
    BY HoldNumbers DEF Memory, TypeOK
<1>5. Memory' \subseteq Memory \cup {out'} /\ (out' = out => Memory' \subseteq Memory)
  <2>1. CASE Tee
    <3>1. out' = out + 1 /\ out + 1 \in Nat /\ ring \in Seq(Nat) /\ pend.recs \in Seq(Frames)
        BY <2>1, <1>2 DEF Tee, TypeOK
    <3>2. ChunksOf(ring') \subseteq ChunksOf(ring) \cup {out'}
        BY <2>1, <3>1, RingHolds DEF Tee
    <3>3. PICK f \in Frames : f = Output(out') /\ f.val = out'
      <4>1. Output(out') \in Frames /\ Output(out').val = out'
          BY <3>1 DEF Output, Frames
      <4> QED
          BY <4>1
    <3>4. pend'.recs \in {pend.recs, <<>>, Append(pend.recs, f)}
        BY <2>1, <3>1, <3>3 DEF Tee, PushOutput, TypeOK
    <3>5. OutputsOf(pend'.recs) \subseteq OutputsOf(pend.recs) \cup {out'}
        BY <3>1, <3>3, <3>4, PushHolds, EmptyHolds
    <3> QED
        BY <1>1, <1>2, <3>1, <3>2, <3>5 DEF Memory
  <2>2. CASE ClearHistory
    <3>1. out' = out /\ ring' = <<>> /\ pend.recs \in Seq(Frames)
        BY <2>2 DEF ClearHistory, TypeOK
    <3>2. Clear \in Frames /\ Clear.kind = "clear"
        BY DEF Clear, Frames
    <3>3. pend'.recs \in {pend.recs, Append(pend.recs, Clear)}
        BY <2>2 DEF ClearHistory, PushRecord, TypeOK
    <3>4. OutputsOf(pend'.recs) \subseteq OutputsOf(pend.recs)
        BY <3>1, <3>2, <3>3, PushHolds
    <3> QED
        BY <1>1, <3>1, <3>4, EmptyHolds DEF Memory
  <2> QED
      BY <2>1, <2>2
<1>6. out' = out \/ out' = out + 1
    BY DEF Tee, ClearHistory
<1>7. MemoryIsNew'
    BY <1>1, <1>2, <1>4, <1>5, <1>6 DEF OneInv, MemoryIsNew, Above, UpTo
<1> QED
    BY <1>3, <1>7 DEF OneInv

\* The steps of a persist that leave the files alone, and those around them.
LEMMA PersistStep ==
    ASSUME TypeOK, TypeOK', PairingIInv, OneInv,
           \/ EnableHistory \/ BeginTick \/ BeginFlush \/ BuildCheckpoint \/ RenameFails
           \/ NeedsCheckpoint \/ CloseSession
    PROVE  OneInv'
<1> USE DEF disk, durable, session, ghosts
<1>1. /\ UNCHANGED <<meta, cp, log, dmeta, dcp, dlog, inc, epoch, out>>
      /\ ids' = ids \/ (ids' = ids + 1 /\ pc' = "rename")
      /\ pc' # "reset" \/ pc' = pc
      /\ pc' = "rename" => ids' = ids + 1 \/ pc' = pc
    BY DEF EnableHistory, BeginTick, BeginFlush, BuildCheckpoint, RenameFails, NeedsCheckpoint,
           CloseSession, AfterFailedCheckpoint
<1>2. /\ op'.meta \in {NoMeta, op.meta} \/ (op'.meta.floor = meta.floor /\ op'.meta.started = meta.started)
      /\ op'.ring \in {op.ring, ring, <<>>} /\ op'.recs \in {op.recs, pend.recs, <<>>}
      /\ ring' \in {ring, <<>>} /\ pend'.recs \in {pend.recs, <<>>}
  <2>1. CASE EnableHistory
      BY <2>1 DEF EnableHistory
  <2>2. CASE BeginTick
    <3>1. CASE w.needsFull
        BY <2>2, <3>1, OpFields DEF BeginTick
    <3>2. CASE ~w.needsFull
      <4>1. op' = [NoOp EXCEPT !.recs = pend.recs] /\ pend' = NoPending /\ ring' = ring
          BY <2>2, <3>2 DEF BeginTick
      <4> QED
          BY <4>1, OpFields
    <3> QED
        BY <3>1, <3>2
  <2>3. CASE BeginFlush
      BY <2>3, OpFields DEF BeginFlush
  <2>4. CASE BuildCheckpoint
      BY <2>4 DEF BuildCheckpoint, TypeOK
  <2>5. CASE RenameFails
      BY <2>5, OpFields DEF RenameFails, AfterFailedCheckpoint
  <2>6. CASE NeedsCheckpoint
      BY <2>6 DEF NeedsCheckpoint, TypeOK
  <2>7. CASE CloseSession
    <3>1. PICK m : m = [meta EXCEPT !.ended = TRUE]
        OBVIOUS
    <3>2. op' \in {NoOp, [NoOp EXCEPT !.meta = m, !.then = "ended"]} /\ ring' = <<>> /\ pend' = NoPending
        BY <2>7, <3>1 DEF CloseSession
    <3>3. m.floor = meta.floor /\ m.started = meta.started
        BY <3>1 DEF TypeOK, Metas
    <3>4. op'.ring = <<>> /\ op'.recs = <<>> /\ op'.meta \in {NoMeta, m}
      <4>1. CASE op' = NoOp
          BY <4>1, OpFields
      <4>2. CASE op' = [NoOp EXCEPT !.meta = m, !.then = "ended"]
          BY <4>2, OpFields
      <4> QED
          BY <3>2, <4>1, <4>2
    <3> QED
        BY <3>2, <3>3, <3>4, OpFields
  <2> QED
      BY <2>1, <2>2, <2>3, <2>4, <2>5, <2>6, <2>7
<1>3. /\ ~w'.reg => w'.needsFull
      /\ ~w'.needsFull => ~w.needsFull
    BY ResolveKeeps DEF EnableHistory, BeginTick, BeginFlush, BuildCheckpoint, RenameFails,
           NeedsCheckpoint, CloseSession, NoWriter, OneInv, OwnLog
<1>4. pc' \in Gone => pc \in Gone \/ Memory' = {}
  <2>1. CASE CloseSession
    <3>1. ring' = <<>> /\ pend'.recs = <<>> /\ op'.ring = <<>> /\ op'.recs = <<>>
      <4>1. \/ op' = NoOp
            \/ \E m : op' = [NoOp EXCEPT !.meta = m, !.then = "ended"]
          BY <2>1 DEF CloseSession
      <4>2. op'.ring = <<>> /\ op'.recs = <<>>
        <5>1. CASE op' = NoOp
            BY <5>1, OpFields
        <5>2. CASE \E m : op' = [NoOp EXCEPT !.meta = m, !.then = "ended"]
            BY <5>2, OpFields
        <5> QED
            BY <4>1, <5>1, <5>2
      <4> QED
          BY <2>1, <4>2, OpFields DEF CloseSession
    <3> QED
        BY <3>1, EmptyHolds DEF Memory
  <2>2. CASE ~CloseSession
      BY <2>2 DEF EnableHistory, BeginTick, BeginFlush, BuildCheckpoint, RenameFails, NeedsCheckpoint,
                  AfterFailedCheckpoint, Gone
  <2> QED
      BY <2>1, <2>2
<1>5. MemoryIsNew'
    BY <1>1, <1>2, <1>4, MemoryShrinks DEF OneInv
<1>6. out <= out' /\ ids <= ids' /\ (ids' = ids + 1 => ids < ids')
    BY <1>1 DEF TypeOK
<1>7. Ages' /\ AllOfOne' /\ OwnLog'
    BY <1>1, <1>2, <1>3, <1>6, NoFileStep
<1> QED
    BY <1>5, <1>7 DEF OneInv

\* The steps of opening and ending a session that touch a file: what was there
\* stays or goes, and no writer appends.
LEMMA FileStep ==
    ASSUME TypeOK, TypeOK', PairingIInv, OneInv,
           UnlinkCheckpoint \/ UnlinkLog \/ TruncateMeta \/ WriteMeta \/ RemoveFile
    PROVE  OneInv'
<1> USE DEF disk, durable, session, ghosts
<1>1. /\ pc \in Gone /\ pc \in {"unlinkCp", "unlinkLog", "truncMeta", "writeMeta", "rmdir"}
      /\ pc' \notin {"rename", "reset"} /\ op' \in {op, NoOp}
      /\ UNCHANGED <<dmeta, dcp, dlog, ring, pend, out, inc, epoch, ids>>
    BY DEF UnlinkCheckpoint, UnlinkLog, TruncateMeta, WriteMeta, RemoveFile, Gone
<1>2. cp' \in {cp, NoCheckpoint} /\ log' \in {log, NoLog}
    BY DEF UnlinkCheckpoint, UnlinkLog, TruncateMeta, WriteMeta, RemoveFile
<1>3. \E n \in MetaImages : meta'.floor = n.floor /\ meta'.started = n.started
  <2>1. CASE TruncateMeta
    <3>1. meta' = [meta EXCEPT !.st = "torn"] /\ meta \in Metas
        BY <2>1 DEF TruncateMeta, TypeOK
    <3>2. meta'.floor = meta.floor /\ meta'.started = meta.started
        BY <3>1 DEF Metas
    <3> QED
        BY <3>2 DEF MetaImages
  <2>2. CASE ~TruncateMeta
    <3>1. meta' \in {meta, op.meta, NoMeta}
        BY <2>2 DEF UnlinkCheckpoint, UnlinkLog, WriteMeta, RemoveFile
    <3> QED
        BY <3>1 DEF MetaImages
  <2> QED
      BY <2>1, <2>2
<1>4. w'.needsFull
  <2>1. w.needsFull
      BY <1>1 DEF PairingIInv, Progress, OneInv, OwnLog
  <2>2. CASE WriteMeta
      BY <2>2 DEF WriteMeta, WriterAfter, NoWriter
  <2>3. CASE ~WriteMeta
      BY <2>1, <2>3 DEF UnlinkCheckpoint, UnlinkLog, TruncateMeta, RemoveFile
  <2> QED
      BY <2>2, <2>3
<1>5. MemoryIsNew'
    BY <1>1, OpFields, MemoryShrinks DEF OneInv
<1>6. \A m \in MetaImages' : \E n \in MetaImages : m.floor = n.floor /\ m.started = n.started
    BY <1>1, <1>3, OpFields DEF MetaImages
<1>7. \A c \in CpImages' : c \in CpImages \/ c = NoCheckpoint
    BY <1>1, <1>2 DEF CpImages
<1>8. \A l \in LogImages' : LogFits(l)
    BY <1>1, <1>2, DiskLogsFit DEF OneInv, LogImages
<1>9. out <= out' /\ ids <= ids'
    BY <1>1 DEF TypeOK
<1>10. Ages' /\ AllOfOne'
    BY <1>1, <1>6, <1>7, <1>8, <1>9, FilesKept DEF OneInv
<1>11. OwnLog'
    BY <1>1, <1>4 DEF OwnLog
<1> QED
    BY <1>5, <1>10, <1>11 DEF OneInv

\* The kernel's write-back makes the written files the durable ones.
LEMMA WriteBackStep ==
    ASSUME TypeOK, TypeOK', OneInv, WriteBack
    PROVE  OneInv'
<1>1. /\ UNCHANGED <<meta, cp, log, w, pc, op, ring, pend, out, inc, epoch, ids>>
      /\ dmeta' = meta /\ dcp' = cp /\ dlog' = log
    BY DEF WriteBack, disk, session, ghosts
<1>2. MemoryIsNew'
    BY <1>1, MemoryShrinks DEF OneInv
<1>3. MetaImages' \subseteq MetaImages /\ CpImages' \subseteq CpImages /\ LogImages' \subseteq LogImages
    BY <1>1 DEF MetaImages, CpImages, LogImages
<1>4. \A l \in LogImages' : LogFits(l)
    BY <1>3, DiskLogsFit DEF OneInv, LogImages
<1>5. out <= out' /\ ids <= ids'
  <2>1. out \in Nat /\ ids \in Nat
      BY DEF TypeOK
  <2> QED
      BY <1>1, <2>1
<1>6. Ages' /\ AllOfOne'
    BY <1>1, <1>3, <1>4, <1>5, FilesKept DEF OneInv
<1>7. OwnLog'
    BY <1>1, <1>3, OwnLogKept DEF OneInv, OwnLog
<1> QED
    BY <1>2, <1>6, <1>7 DEF OneInv

\* The new checkpoint holds the ring of this incarnation, and no log continues it yet.
LEMMA RenameStep ==
    ASSUME TypeOK, TypeOK', PairingIInv, OneInv, RenameCheckpoint
    PROVE  OneInv'
<1>1. /\ pc = "rename" /\ pc' = "reset" /\ w' = ResolveLogState
      /\ cp'.st = "ok" /\ cp'.id = ids /\ cp'.ring = op.ring /\ cp'.at = inc
      /\ dcp' = cp' /\ dlog' \in {dlog, NoLog}
      /\ UNCHANGED <<meta, dmeta, log, op, ring, pend, out, inc, ids, epoch>>
    BY DEF RenameCheckpoint, SyncedFile, SyncedDirectory, session
<1>2. out \in Nat /\ inc \in Nat /\ epoch \in Nat /\ ids \in Nat
    BY DEF TypeOK
<1>3. /\ MetaImages' = MetaImages /\ CpImages' = {cp'}
      /\ \A l \in LogImages' : l \in LogImages \/ l = NoLog
    BY <1>1 DEF MetaImages, CpImages, LogImages
<1>4. \A l \in LogImages' : l.base <= ids /\ (l.st = "ok" => l.gen > 0 /\ l.base < ids)
    BY <1>1, <1>2, <1>3 DEF OneInv, Ages, NoLog
<1>5. MemoryIsNew'
    BY <1>1, MemoryShrinks DEF OneInv, Gone
<1>6. Above(ChunksOf(op.ring), epoch) /\ UpTo(ChunksOf(op.ring), out)
    BY DEF OneInv, MemoryIsNew, Memory, Above, UpTo
<1>7. Ages'
    BY <1>1, <1>2, <1>3, <1>4 DEF OneInv, Ages
<1>8. ASSUME NEW m \in MetaImages', NEW c \in CpImages', NEW l \in LogImages'
      PROVE  OfOne(m, c, l, epoch', out')
  <2>1. Content(c, l) = ChunksOf(op.ring)
      BY <1>1, <1>2, <1>3, <1>4, SMTT(30) DEF Content, LogImages, TypeOK, Logs
  <2>2. m.floor <= epoch /\ m.floor \in Nat
      BY <1>3, ConstantTypes DEF OneInv, Ages, MetaImages, TypeOK, Metas
  <2>3. \A x \in ChunksOf(op.ring) : x \in Nat
      BY HoldNumbers DEF TypeOK
  <2>4. Above(ChunksOf(op.ring), m.floor)
      BY <1>2, <1>6, <2>2, <2>3 DEF Above
  <2> QED
      BY <1>1, <1>6, <2>1, <2>4 DEF OfOne
<1>9. AllOfOne'
    BY <1>8 DEF AllOfOne
<1>10. OwnLog'
  <2>1. w'.reg = w.reg /\ w'.needsFull = w.needsFull
      BY <1>1, ResolveKeeps
  <2>2. log.st = "ok" => log.base # ids
      BY <1>1, <1>2 DEF OneInv, Ages, LogImages, TypeOK, Logs
  <2> QED
      BY <1>1, <1>3, <1>6, <2>1, <2>2 DEF OneInv, OwnLog
<1> QED
    BY <1>5, <1>7, <1>9, <1>10 DEF OneInv

\* The restart of the log, which may fail.
LEMMA ResetStep ==
    ASSUME TypeOK, TypeOK', PairingIInv, OneInv, ResetLog \/ ResetLogFails
    PROVE  OneInv'
<1>1. /\ pc = "reset" /\ pc' = "idle" /\ op' = NoOp
      /\ UNCHANGED <<meta, dmeta, cp, dcp, dlog, ring, pend, out, inc, ids, epoch>>
      /\ log' \in {log, BadLog, FreshLog(w.gen + 1, ids)}
    BY DEF ResetLog, ResetLogFails, AfterFailedCheckpoint, durable, session
<1>2. out <= out' /\ ids <= ids'
    BY <1>1 DEF TypeOK
<1>3. MemoryIsNew'
    BY <1>1, OpFields, MemoryShrinks DEF OneInv, Gone
<1>4. \A l \in LogImages' : LogFits(l)
    BY <1>1, DiskLogsFit, FreshLogFits DEF OneInv, LogImages
<1>5. \A m \in MetaImages' : m \in MetaImages
    BY <1>1, OpFields DEF MetaImages
<1>6. CpImages' = CpImages
    BY <1>1 DEF CpImages
<1>7. Ages' /\ AllOfOne'
    BY <1>1, <1>2, <1>4, <1>5, <1>6, FilesKept DEF OneInv
<1>8. OwnLog'
  <2>1. CASE ResetLog
    <3>1. w'.reg
        BY <2>1, <1>1 DEF PairingIInv, Progress, ResetLog, WriterAfterReset, TypeOK, Writers
    <3>2. log'.frames = <<>>
        BY <2>1 DEF ResetLog, FreshLog
    <3>3. CpImages = {cp} /\ Above(ChunksOf(cp.ring), epoch)
        BY <1>1 DEF PairingIInv, Progress, CpImages, OneInv, OwnLog
    <3> QED
        BY <1>1, <1>6, <3>1, <3>2, <3>3, EmptyHolds DEF OwnLog, Above
  <2>2. CASE ResetLogFails
    <3>1. log' \in {log, BadLog} /\ w' \in {w, NoWriter}
        BY <2>2 DEF ResetLogFails
    <3>2. BadLog.st = "bad" /\ NoWriter.needsFull
        BY DEF BadLog, NoLog, NoWriter
    <3> QED
        BY <1>1, <1>6, <3>1, <3>2, OwnLogKept DEF OneInv, OwnLog
  <2> QED
      BY <2>1, <2>2
<1> QED
    BY <1>3, <1>7, <1>8 DEF OneInv

\* A write of a batch, cut short or not, has no output but the batch's.
LEMMA TornFrames ==
    ASSUME TypeOK, NEW l, NEW t \in TornAppends(l) \cup {WithFrames(l, Batch)}
    PROVE  \E fs \in Seq(Frames) : OutputsOf(fs) \subseteq OutputsOf(Batch) /\ t = WithFrames(l, fs)
<1>1. Batch \in Seq(Frames) /\ Len(Batch) \in Nat
    BY BatchType
<1>2. CASE t = WithFrames(l, Batch)
    BY <1>1, <1>2
<1>3. CASE t \in TornAppends(l)
  <2>1. PICK k \in 0 .. Len(Batch) - 1 : t = WithFrames(l, SubSeq(Batch, 1, k))
      BY <1>3 DEF TornAppends
  <2>2. k \in 0 .. Len(Batch)
      BY <1>1, <2>1
  <2>3. SubSeq(Batch, 1, k) \in Seq(Frames)
      BY <1>1, <2>2
  <2>4. OutputsOf(SubSeq(Batch, 1, k)) \subseteq OutputsOf(Batch)
      BY <1>1, <2>2, CutHolds
  <2> QED
      BY <2>1, <2>3, <2>4
<1> QED
    BY <1>2, <1>3

\* An append, all of it or a part.
LEMMA AppendStep ==
    ASSUME TypeOK, TypeOK', PairingIInv, OneInv, AppendIncrements \/ AppendFails
    PROVE  OneInv'
<1>1. /\ pc = "append" /\ pc' = "idle" /\ op' = NoOp
      /\ UNCHANGED <<meta, dmeta, cp, dcp, dlog, ring, pend, out, inc, ids, epoch>>
    BY DEF AppendIncrements, AppendFails, durable, session, ghosts
<1>2. PICK fs \in Seq(Frames) : OutputsOf(fs) \subseteq OutputsOf(Batch) /\ log' = WithFrames(HeaderedLog, fs)
    BY TornFrames DEF AppendIncrements, AppendFails
<1>3. LogFits(log') /\ (log'.st = "ok" => Above(OutputsOf(log'.frames), epoch))
      /\ log'.st = log.st /\ log'.base = log.base
    BY <1>1, <1>2, GrownLog
<1>4. out <= out' /\ ids <= ids'
    BY <1>1 DEF TypeOK
<1>5. MemoryIsNew'
    BY <1>1, OpFields, MemoryShrinks DEF OneInv, Gone
<1>6. \A m \in MetaImages' : m \in MetaImages
    BY <1>1, OpFields DEF MetaImages
<1>7. CpImages' = CpImages
    BY <1>1 DEF CpImages
<1>8. \A l \in LogImages' : LogFits(l)
    BY <1>1, <1>3, DiskLogsFit DEF OneInv, LogImages
<1>9. Ages' /\ AllOfOne'
    BY <1>1, <1>4, <1>6, <1>7, <1>8, FilesKept DEF OneInv
<1>10. w'.reg = w.reg /\ (~w'.needsFull => ~w.needsFull)
  <2>1. CASE AppendIncrements
      BY <2>1 DEF AppendIncrements, TypeOK, Writers
  <2>2. CASE AppendFails
      BY <2>2 DEF AppendFails, ForceFullAnchor, TypeOK, Writers
  <2> QED
      BY <2>1, <2>2
<1>11. w.reg
    BY <1>1 DEF PairingIInv, Progress
<1>12. OwnLog'
    BY <1>1, <1>3, <1>7, <1>10, <1>11 DEF OneInv, OwnLog
<1> QED
    BY <1>5, <1>9, <1>12 DEF OneInv

\* The process is gone, and each file is one that was there, or one that fits.
LEMMA DieStep ==
    ASSUME TypeOK, TypeOK', OneInv, Die, epoch' = epoch, ids' = ids,
           \E n \in MetaImages : meta'.floor = n.floor /\ meta'.started = n.started,
           cp' \in CpImages, LogFits(log'),
           dmeta' = meta', dcp' = cp', dlog' = log'
    PROVE  OneInv'
<1>1. /\ pc' = "down" /\ w' = NoWriter /\ op' = NoOp /\ ring' = <<>> /\ pend' = NoPending
      /\ UNCHANGED <<out, inc>>
    BY DEF Die
<1>2. out <= out' /\ ids <= ids'
    BY <1>1 DEF TypeOK
<1>3. Memory' = {}
    BY <1>1, OpFields, EmptyHolds DEF Memory
<1>4. MemoryIsNew'
    BY <1>3 DEF MemoryIsNew, Above, UpTo
<1>5. \A m \in MetaImages' : \E n \in MetaImages : m.floor = n.floor /\ m.started = n.started
    BY <1>1, OpFields DEF MetaImages
<1>6. \A c \in CpImages' : c \in CpImages
    BY DEF CpImages
<1>7. \A l \in LogImages' : LogFits(l)
    BY DEF LogImages
<1>8. Ages' /\ AllOfOne'
    BY <1>1, <1>2, <1>5, <1>6, <1>7, FilesKept DEF OneInv
<1>9. OwnLog'
    BY <1>1 DEF OwnLog, NoWriter
<1> QED
    BY <1>4, <1>8, <1>9 DEF OneInv

\* The daemon is killed.
LEMMA CrashStep ==
    ASSUME TypeOK, TypeOK', PairingIInv, OneInv, Crash
    PROVE  OneInv'
<1>1. /\ Die /\ epoch' = epoch /\ ids' = ids /\ meta' = meta /\ cp' = cp
      /\ log' \in CrashedLogs /\ dmeta' = meta' /\ dcp' = cp' /\ dlog' = log'
    BY DEF Crash, ghosts
<1>2. LogFits(log')
  <2>1. CASE pc = "append" /\ ~OverCap
    <3>1. log' \in TornAppends(HeaderedLog) \cup {log, WithFrames(HeaderedLog, Batch)}
        BY <1>1, <2>1 DEF CrashedLogs
    <3>2. CASE log' = log
        BY <3>2, DiskLogsFit DEF OneInv
    <3>3. CASE log' # log
      <4>1. PICK fs \in Seq(Frames) :
               OutputsOf(fs) \subseteq OutputsOf(Batch) /\ log' = WithFrames(HeaderedLog, fs)
          BY <3>1, <3>3, TornFrames
      <4> QED
          BY <2>1, <4>1, GrownLog
    <3> QED
        BY <3>2, <3>3
  <2>2. CASE pc = "reset"
      BY <1>1, <2>2, DiskLogsFit, FreshLogFits DEF CrashedLogs, OneInv
  <2>3. CASE ~(pc = "append" /\ ~OverCap) /\ pc # "reset"
    <3>1. log' = log
        BY <1>1, <2>3 DEF CrashedLogs
    <3> QED
        BY <3>1, DiskLogsFit DEF OneInv
  <2> QED
      BY <2>1, <2>2, <2>3
<1>3. meta \in MetaImages /\ cp \in CpImages
    BY DEF MetaImages, CpImages
<1> QED
    BY <1>1, <1>2, <1>3, DieStep

\* The power is lost.
LEMMA PowerLossStep ==
    ASSUME TypeOK, TypeOK', OneInv, PowerLoss
    PROVE  OneInv'
<1>1. /\ Die /\ epoch' = epoch /\ ids' = ids /\ cp' \in CpImages
      /\ dmeta' = meta' /\ dcp' = cp' /\ dlog' = log'
    BY DEF PowerLoss, CpImages
<1>2. \E n \in MetaImages : meta'.floor = n.floor /\ meta'.started = n.started
  <2>1. PICK t : t = [meta EXCEPT !.st = "torn"]
      OBVIOUS
  <2>2. t.floor = meta.floor /\ t.started = meta.started
      BY <2>1 DEF TypeOK, Metas
  <2>3. meta' \in {meta, dmeta, t}
      BY <2>1 DEF PowerLoss
  <2> QED
      BY <2>2, <2>3 DEF MetaImages
<1>3. LogFits(log')
  <2>1. log' \in {log, dlog, BadLog} \/ log' \in CutLogs(log)
      BY DEF PowerLoss
  <2>2. CASE log' \in CutLogs(log)
    <3>1. log \in Logs /\ log \in LogImages
        BY DEF TypeOK, LogImages
    <3>2. PICK k \in 0 .. Len(log.frames) : log' = [log EXCEPT !.frames = SubSeq(@, 1, k)]
        BY <2>2 DEF CutLogs
    <3>3. log'.frames = SubSeq(log.frames, 1, k) /\ log.frames \in Seq(Frames)
        BY <3>1, <3>2 DEF Logs
    <3>4. OutputsOf(log'.frames) \subseteq OutputsOf(log.frames)
        BY <3>3, CutHolds
    <3>5. log' \in Logs /\ log'.st = log.st /\ log'.gen = log.gen /\ log'.base = log.base
        BY <2>2, <3>1, CutType
    <3> QED
        BY <3>1, <3>4, <3>5, OldLogFits DEF OneInv
  <2> QED
      BY <2>1, <2>2, DiskLogsFit DEF OneInv
<1> QED
    BY <1>1, <1>2, <1>3, DieStep

\* The chunks a replay returns are the checkpoint's and the log's.
LEMMA ReplayHolds ==
    ASSUME NEW b \in Seq(Nat), NEW fs \in Seq(Frames)
    PROVE  ChunksOf(Replay(b, fs)) \subseteq ChunksOf(b) \cup OutputsOf(fs) \cup {NoBytes}
<1> DEFINE t == [i \in 1 .. Len(fs) |->
                   IF IsOutput(fs[i]) /\ ~ClearedAfter(fs, i) THEN fs[i].val ELSE NoBytes]
           s == IF ClearedAfter(fs, 0) THEN <<>> ELSE b
           V == ChunksOf(b) \cup OutputsOf(fs) \cup {NoBytes}
<1>1. \A i \in 1 .. Len(fs) : t[i] \in V
    BY DEF IsOutput, OutputsOf
<1>2. t \in Seq(V)
  <2>1. Len(fs) \in Nat /\ t \in [1 .. Len(fs) -> V]
      BY <1>1
  <2> HIDE DEF t, V
  <2>2. PICK n \in Nat : t \in [1 .. n -> V]
      BY <2>1
  <2> QED
      BY <2>2
<1>3. s \in Seq(V)
  <2>1. b \in Seq(V)
    <3>1. \A i \in 1 .. Len(b) : b[i] \in V
        BY DEF ChunksOf
    <3> HIDE DEF V
    <3> QED
        BY <3>1
  <2> HIDE DEF V
  <2> QED
      BY <2>1
<1>4. Replay(b, fs) = s \o t
    BY DEF Replay
<1> HIDE DEF s, t, V
<1>5. s \o t \in Seq(V)
    BY <1>2, <1>3
<1>6. \A i \in 1 .. Len(s \o t) : (s \o t)[i] \in V
    BY <1>5
<1>7. ChunksOf(Replay(b, fs)) \subseteq V
    BY <1>4, <1>6 DEF ChunksOf
<1> QED
    BY <1>7 DEF V

\* The invariant holds in every state.
LEMMA OneInvHolds == Spec => []OneInv
<1>1. Init => OneInv
  <2> SUFFICES ASSUME Init PROVE OneInv
      OBVIOUS
  <2>1. /\ ring = <<>> /\ pend.recs = <<>> /\ op.ring = <<>> /\ op.recs = <<>> /\ op.meta = NoMeta
        /\ out = 0 /\ epoch = 0 /\ inc = 0 /\ ids = 0 /\ pc = "down" /\ w = NoWriter
      BY OpFields DEF Init
  <2>2. MetaImages = {NoMeta} /\ CpImages = {NoCheckpoint} /\ LogImages = {NoLog}
      BY <2>1 DEF Init, MetaImages, CpImages, LogImages
  <2>3. MemoryIsNew
      BY <2>1, EmptyHolds DEF MemoryIsNew, Memory, Above, UpTo
  <2>4. Ages
      BY <2>1, <2>2 DEF Ages, NoMeta, NoCheckpoint, NoLog
  <2>5. AllOfOne
      BY <2>2 DEF AllOfOne, OfOne, NoCheckpoint
  <2>6. OwnLog
      BY <2>1 DEF OwnLog, NoWriter
  <2> QED
      BY <2>3, <2>4, <2>5, <2>6 DEF OneInv
<1>2. TypeOK /\ TypeOK' /\ PairingIInv /\ OneInv /\ [Next]_vars => OneInv'
  <2> SUFFICES ASSUME TypeOK, TypeOK', PairingIInv, OneInv, [Next]_vars PROVE OneInv'
      OBVIOUS
  <2>1. CASE StartIncarnation
      BY <2>1, StartStep
  <2>2. CASE UnlinkCheckpoint \/ UnlinkLog \/ TruncateMeta \/ WriteMeta \/ RemoveFile
      BY <2>2, FileStep
  <2>3. CASE Tee \/ ClearHistory
      BY <2>3, SessionStep
  <2>4. CASE \/ EnableHistory \/ BeginTick \/ BeginFlush \/ BuildCheckpoint \/ RenameFails
             \/ NeedsCheckpoint \/ CloseSession
      BY <2>4, PersistStep
  <2>5. CASE RenameCheckpoint
      BY <2>5, RenameStep
  <2>6. CASE ResetLog \/ ResetLogFails
      BY <2>6, ResetStep
  <2>7. CASE AppendIncrements \/ AppendFails
      BY <2>7, AppendStep
  <2>8. CASE Crash
      BY <2>8, CrashStep
  <2>9. CASE WriteBack
      BY <2>9, WriteBackStep
  <2>10. CASE PowerLoss
      BY <2>10, PowerLossStep
  <2>11. CASE UNCHANGED vars
    <3>1. /\ UNCHANGED <<disk, durable, w, pc, op, ring, pend, out, inc, epoch, ids>>
        BY <2>11 DEF vars, session, ghosts
    <3>2. MemoryIsNew'
        BY <3>1, MemoryShrinks DEF OneInv
    <3>3. out <= out' /\ ids <= ids'
        BY <3>1 DEF TypeOK
    <3>4. Ages' /\ AllOfOne' /\ OwnLog'
        BY <3>1, <3>3, NoFileStep DEF OneInv, OwnLog
    <3> QED
        BY <3>2, <3>4 DEF OneInv
  <2> QED
      BY <2>1, <2>2, <2>3, <2>4, <2>5, <2>6, <2>7, <2>8, <2>9, <2>10, <2>11 DEF Next
<1> QED
    BY <1>1, <1>2, TypeCorrect, PairingIInvHolds, PTL DEF Spec

\* What a restore returns is of a checkpoint that is not older than the session,
\* and of the log that continues it.
LEMMA RestoredContent ==
    ASSUME TypeOK, PairingIInv, Ages
    PROVE  Restored = {} \/ (cp.st = "ok" /\ cp.at >= meta.started /\ Restored \subseteq Content(cp, log))
<1>1. CASE Restore = NothingToRestore
    BY <1>1, EmptyHolds DEF Restored, NothingToRestore
<1>2. CASE Restore # NothingToRestore /\ LogUsable(cp, log)
  <2>1. log.st = "ok" /\ log.gen > 0 /\ log.gen \in Nat
      BY <1>2 DEF LogUsable, DecodesLog, Ages, LogImages, TypeOK, Logs
  <2>2. cp.st \in {"ok", "absent"}
      BY DEF Ages, CpImages, TypeOK, Checkpoints
  <2>3. cp.st = "ok" /\ log.gen = cp.gen
    <3>1. CASE cp.st = "ok"
        BY <1>2, <3>1 DEF LogUsable
    <3>2. CASE cp.st = "absent"
      <4>1. log.gen = 0
          BY <1>2, <3>2 DEF LogUsable
      <4> QED
          BY <2>1, <4>1
    <3> QED
        BY <2>2, <3>1, <3>2
  <2>4. log.base = cp.id
      BY <2>1, <2>3 DEF PairingIInv, AllPaired, Paired
  <2>5. ~(cp.at < meta.started) /\ Restore = RestoreFromLog(cp, log)
      BY <1>2, <2>3 DEF Restore, ColdRestore
  <2>6. Restore.scroll = Replay(cp.ring, log.frames)
      BY <2>3, <2>5 DEF RestoreFromLog, Finish
  <2>7. Content(cp, log) = ChunksOf(cp.ring) \cup OutputsOf(log.frames)
      BY <2>1, <2>4 DEF Content
  <2>8. Restored \subseteq Content(cp, log)
      BY <2>6, <2>7, ReplayHolds DEF Restored, TypeOK, Checkpoints, Logs
  <2> QED
      BY <2>3, <2>5, <2>8, SMTT(30) DEF TypeOK, Checkpoints, Metas
<1>3. CASE Restore # NothingToRestore /\ ~LogUsable(cp, log)
  <2>1. cp.st = "ok" /\ ~(cp.at < meta.started) /\ Restore = RestoreFromCheckpoint(cp)
      BY <1>3 DEF Restore, ColdRestore
  <2>2. Restored \subseteq Content(cp, log)
      BY <2>1 DEF RestoreFromCheckpoint, Finish, Restored, Content
  <2> QED
      BY <2>1, <2>2, SMTT(30) DEF TypeOK, Checkpoints, Metas
<1> QED
    BY <1>1, <1>2, <1>3

\* A cold restore never replays an earlier session under a reused id, nor mixes two
\* incarnations: whatever mix of written, torn and lost files the crashes before it
\* left, every chunk it returns was ingested after the session of meta.json was
\* opened, and all of them by one incarnation.
THEOREM RestoresOneIncarnation == Spec => []OneIncarnation
<1>1. TypeOK /\ PairingIInv /\ OneInv => OneIncarnation
  <2> SUFFICES ASSUME TypeOK, PairingIInv, OneInv, Restored # {} PROVE OneIncarnation
      BY DEF OneIncarnation
  <2>1. cp.st = "ok" /\ cp.at >= meta.started /\ Restored \subseteq Content(cp, log)
      BY RestoredContent DEF OneInv
  <2>2. OfOne(meta, cp, log, epoch, out)
      BY DEF OneInv, AllOfOne, MetaImages, CpImages, LogImages
  <2>3. \A c \in Restored : c \in Nat
    <3>1. \A x \in ChunksOf(cp.ring) : x \in Nat
        BY HoldNumbers DEF TypeOK, Checkpoints
    <3>2. \A x \in OutputsOf(log.frames) : x \in Nat
        BY HoldNumbers DEF TypeOK, Logs
    <3> QED
        BY <2>1, <3>1, <3>2 DEF Content
  <2>4. meta.floor \in Nat /\ epoch \in Nat
      BY DEF TypeOK, Metas
  <2> QED
      BY <2>1, <2>2, <2>3, <2>4 DEF OneIncarnation, OfOne, Above, UpTo
<1> QED
    BY <1>1, OneInvHolds, TypeCorrect, PairingIInvHolds, PTL

(***************************************************************************)
(* Sequences of frames: what a replay leaves, and what a batch does to a   *)
(* log                                                                     *)
(***************************************************************************)
\* What a replay of the frames fs over the chunks S leaves.
Replayed(S, fs) ==
    (IF ClearedAfter(fs, 0) THEN {} ELSE S)
    \cup {fs[i].val : i \in {j \in 1 .. Len(fs) : IsOutput(fs[j]) /\ ~ClearedAfter(fs, j)}}
\* Records only, and a log that was cut behind a Batch frame.
Plain(fs) == \A i \in 1 .. Len(fs) : fs[i].kind # "batch"
Torn(fs) == \E i \in 1 .. Len(fs) : fs[i].kind = "batch" /\ i + fs[i].n > Len(fs)

\* One sequence behind another.
LEMMA Joined ==
    ASSUME NEW s \in Seq(Frames), NEW t \in Seq(Frames)
    PROVE  LET u == s \o t IN
           /\ u \in Seq(Frames) /\ Len(s) \in Nat /\ Len(t) \in Nat /\ Len(u) = Len(s) + Len(t)
           /\ \A i \in 1 .. Len(s) : i \in 1 .. Len(u) /\ u[i] = s[i]
           /\ \A i \in 1 .. Len(t) : Len(s) + i \in 1 .. Len(u) /\ u[Len(s) + i] = t[i]
           /\ \A i \in 1 .. Len(u) : i \notin 1 .. Len(s) =>
                 i - Len(s) \in 1 .. Len(t) /\ u[i] = t[i - Len(s)]
OBVIOUS

\* A Clear behind a place is in the first sequence or in the second.
LEMMA ClearedJoined ==
    ASSUME NEW s \in Seq(Frames), NEW t \in Seq(Frames)
    PROVE  /\ \A i \in 0 .. Len(s) : ClearedAfter(s \o t, i) <=> ClearedAfter(s, i) \/ ClearedAfter(t, 0)
           /\ \A i \in 1 .. Len(t) : ClearedAfter(s \o t, Len(s) + i) <=> ClearedAfter(t, i)
<1> DEFINE u == s \o t
<1>1. /\ Len(s) \in Nat /\ Len(t) \in Nat /\ Len(u) = Len(s) + Len(t)
      /\ \A i \in 1 .. Len(s) : i \in 1 .. Len(u) /\ u[i] = s[i]
      /\ \A i \in 1 .. Len(t) : Len(s) + i \in 1 .. Len(u) /\ u[Len(s) + i] = t[i]
      /\ \A i \in 1 .. Len(u) : i \notin 1 .. Len(s) => i - Len(s) \in 1 .. Len(t) /\ u[i] = t[i - Len(s)]
    BY Joined
<1> HIDE DEF u
<1>2. ASSUME NEW i \in 0 .. Len(s) PROVE ClearedAfter(u, i) <=> ClearedAfter(s, i) \/ ClearedAfter(t, 0)
  <2>1. ASSUME NEW j \in i + 1 .. Len(u), u[j].kind = "clear"
        PROVE  ClearedAfter(s, i) \/ ClearedAfter(t, 0)
    <3>1. CASE j \in 1 .. Len(s)
        BY <1>1, <2>1, <3>1 DEF ClearedAfter
    <3>2. CASE j \notin 1 .. Len(s)
      <4>1. j - Len(s) \in 0 + 1 .. Len(t) /\ t[j - Len(s)].kind = "clear"
          BY <1>1, <2>1, <3>2
      <4> QED
          BY <4>1 DEF ClearedAfter
    <3> QED
        BY <3>1, <3>2
  <2>2. ASSUME NEW j \in i + 1 .. Len(s), s[j].kind = "clear" PROVE ClearedAfter(u, i)
    <3>1. j \in i + 1 .. Len(u) /\ u[j].kind = "clear"
        BY <1>1, <2>2
    <3> QED
        BY <3>1 DEF ClearedAfter
  <2>3. ASSUME NEW j \in 0 + 1 .. Len(t), t[j].kind = "clear" PROVE ClearedAfter(u, i)
    <3>1. Len(s) + j \in i + 1 .. Len(u) /\ u[Len(s) + j].kind = "clear"
        BY <1>1, <2>3
    <3> QED
        BY <3>1 DEF ClearedAfter
  <2> QED
      BY <2>1, <2>2, <2>3 DEF ClearedAfter
<1>3. ASSUME NEW i \in 1 .. Len(t) PROVE ClearedAfter(u, Len(s) + i) <=> ClearedAfter(t, i)
  <2>1. ASSUME NEW j \in Len(s) + i + 1 .. Len(u), u[j].kind = "clear" PROVE ClearedAfter(t, i)
    <3>1. j - Len(s) \in i + 1 .. Len(t) /\ t[j - Len(s)].kind = "clear"
        BY <1>1, <2>1
    <3> QED
        BY <3>1 DEF ClearedAfter
  <2>2. ASSUME NEW j \in i + 1 .. Len(t), t[j].kind = "clear" PROVE ClearedAfter(u, Len(s) + i)
    <3>1. Len(s) + j \in Len(s) + i + 1 .. Len(u) /\ u[Len(s) + j].kind = "clear"
        BY <1>1, <2>2
    <3> QED
        BY <3>1 DEF ClearedAfter
  <2> QED
      BY <2>1, <2>2 DEF ClearedAfter
<1> QED
    BY <1>2, <1>3 DEF u

\* A replay of two sequences is the replay of the second over that of the first.
LEMMA ReplayedJoined ==
    ASSUME NEW s \in Seq(Frames), NEW t \in Seq(Frames), NEW S
    PROVE  Replayed(S, s \o t) = Replayed(Replayed(S, s), t)
<1> DEFINE u == s \o t
<1>1. /\ Len(s) \in Nat /\ Len(t) \in Nat /\ Len(u) = Len(s) + Len(t)
      /\ \A i \in 1 .. Len(s) : i \in 1 .. Len(u) /\ u[i] = s[i]
      /\ \A i \in 1 .. Len(t) : Len(s) + i \in 1 .. Len(u) /\ u[Len(s) + i] = t[i]
      /\ \A i \in 1 .. Len(u) : i \notin 1 .. Len(s) => i - Len(s) \in 1 .. Len(t) /\ u[i] = t[i - Len(s)]
    BY Joined
<1>2. /\ ClearedAfter(u, 0) <=> ClearedAfter(s, 0) \/ ClearedAfter(t, 0)
      /\ \A i \in 1 .. Len(s) : ClearedAfter(u, i) <=> ClearedAfter(s, i) \/ ClearedAfter(t, 0)
      /\ \A i \in 1 .. Len(t) : ClearedAfter(u, Len(s) + i) <=> ClearedAfter(t, i)
    BY <1>1, ClearedJoined
<1> HIDE DEF u
<1>3. ASSUME NEW c, c \in Replayed(S, u) PROVE c \in Replayed(Replayed(S, s), t)
  <2>1. CASE c \in S /\ ~ClearedAfter(u, 0)
      BY <1>2, <2>1 DEF Replayed
  <2>2. CASE ~(c \in S /\ ~ClearedAfter(u, 0))
    <3>1. PICK i \in 1 .. Len(u) : c = u[i].val /\ IsOutput(u[i]) /\ ~ClearedAfter(u, i)
        BY <1>3, <2>2 DEF Replayed
    <3>2. CASE i \in 1 .. Len(s)
        BY <1>1, <1>2, <3>1, <3>2 DEF Replayed
    <3>3. CASE i \notin 1 .. Len(s)
      <4>1. PICK j \in 1 .. Len(t) : j = i - Len(s) /\ u[i] = t[j] /\ i = Len(s) + j
          BY <1>1, <3>3
      <4> QED
          BY <1>2, <3>1, <4>1 DEF Replayed
    <3> QED
        BY <3>2, <3>3
  <2> QED
      BY <2>1, <2>2
<1>4. ASSUME NEW c, c \in Replayed(Replayed(S, s), t) PROVE c \in Replayed(S, u)
  <2>1. CASE c \in Replayed(S, s) /\ ~ClearedAfter(t, 0)
    <3>1. CASE c \in S /\ ~ClearedAfter(s, 0)
        BY <1>2, <2>1, <3>1 DEF Replayed
    <3>2. CASE ~(c \in S /\ ~ClearedAfter(s, 0))
      <4>1. PICK i \in 1 .. Len(s) : c = s[i].val /\ IsOutput(s[i]) /\ ~ClearedAfter(s, i)
          BY <2>1, <3>2 DEF Replayed
      <4> QED
          BY <1>1, <1>2, <2>1, <4>1 DEF Replayed
    <3> QED
        BY <3>1, <3>2
  <2>2. CASE ~(c \in Replayed(S, s) /\ ~ClearedAfter(t, 0))
    <3>1. PICK i \in 1 .. Len(t) : c = t[i].val /\ IsOutput(t[i]) /\ ~ClearedAfter(t, i)
        BY <1>4, <2>2 DEF Replayed
    <3>2. Len(s) + i \in 1 .. Len(u) /\ u[Len(s) + i] = t[i] /\ ~ClearedAfter(u, Len(s) + i)
        BY <1>1, <1>2, <3>1
    <3> QED
        BY <3>1, <3>2 DEF Replayed
  <2> QED
      BY <2>1, <2>2
<1>5. Replayed(S, u) = Replayed(Replayed(S, s), t)
    BY <1>3, <1>4
<1> QED
    BY <1>5 DEF u

\* No frames leave what was there; one frame adds its output or takes all away.
LEMMA ReplayedOne ==
    /\ ~ClearedAfter(<<>>, 0) /\ \A S : Replayed(S, <<>>) = S
    /\ \A f \in Frames : /\ <<f>> \in Seq(Frames)
                         /\ ClearedAfter(<<f>>, 0) <=> f.kind = "clear"
                         /\ f.kind = "output" => \A S : Replayed(S, <<f>>) = S \cup {f.val}
                         /\ f.kind = "batch" => \A S : Replayed(S, <<f>>) = S
<1>1. ~ClearedAfter(<<>>, 0) /\ \A S : Replayed(S, <<>>) = S
    BY DEF ClearedAfter, Replayed
<1>2. ASSUME NEW f \in Frames
      PROVE  /\ <<f>> \in Seq(Frames)
             /\ ClearedAfter(<<f>>, 0) <=> f.kind = "clear"
             /\ f.kind = "output" => \A S : Replayed(S, <<f>>) = S \cup {f.val}
             /\ f.kind = "batch" => \A S : Replayed(S, <<f>>) = S
  <2> DEFINE u == <<f>>
  <2>1. u \in Seq(Frames) /\ Len(u) = 1 /\ u[1] = f
      OBVIOUS
  <2> HIDE DEF u
  <2>2. 1 .. Len(u) = {1} /\ 0 + 1 .. Len(u) = {1} /\ 1 + 1 .. Len(u) = {}
      BY <2>1
  <2>3. ClearedAfter(u, 0) <=> f.kind = "clear"
      BY <2>1, <2>2 DEF ClearedAfter
  <2>4. ~ClearedAfter(u, 1)
      BY <2>2 DEF ClearedAfter
  <2>5. ASSUME f.kind = "output", NEW S PROVE Replayed(S, u) = S \cup {f.val}
      BY <2>1, <2>2, <2>3, <2>4, <2>5 DEF Replayed, IsOutput
  <2>6. ASSUME f.kind = "batch", NEW S PROVE Replayed(S, u) = S
      BY <2>1, <2>2, <2>3, <2>4, <2>6 DEF Replayed, IsOutput
  <2> QED
      BY <2>1, <2>3, <2>5, <2>6 DEF u
<1> QED
    BY <1>1, <1>2

\* What a replay leaves is what was there and outputs of the frames, and it grows with
\* what was there.
LEMMA ReplayedHolds ==
    ASSUME NEW fs \in Seq(Frames)
    PROVE  /\ \A S : Replayed(S, fs) \subseteq S \cup OutputsOf(fs)
           /\ \A S : Replayed({}, fs) \subseteq Replayed(S, fs)
           /\ \A S : ~ClearedAfter(fs, 0) => S \subseteq Replayed(S, fs)
           /\ \A S : Replayed(S, fs) \ {NoBytes} = Replayed(S \ {NoBytes}, fs) \ {NoBytes}
BY DEF Replayed, OutputsOf, IsOutput

\* One sequence of chunks behind another holds the chunks of both.
LEMMA ChunksJoined ==
    ASSUME NEW s \in Seq(Nat), NEW t \in Seq(Nat)
    PROVE  ChunksOf(s \o t) = ChunksOf(s) \cup ChunksOf(t)
<1> DEFINE u == s \o t
<1>1. /\ Len(s) \in Nat /\ Len(t) \in Nat /\ Len(u) = Len(s) + Len(t)
      /\ \A i \in 1 .. Len(s) : i \in 1 .. Len(u) /\ u[i] = s[i]
      /\ \A i \in 1 .. Len(t) : Len(s) + i \in 1 .. Len(u) /\ u[Len(s) + i] = t[i]
      /\ \A i \in 1 .. Len(u) : i \notin 1 .. Len(s) => i - Len(s) \in 1 .. Len(t) /\ u[i] = t[i - Len(s)]
    OBVIOUS
<1> HIDE DEF u
<1>2. ASSUME NEW i \in 1 .. Len(u) PROVE u[i] \in ChunksOf(s) \cup ChunksOf(t)
  <2>1. CASE i \in 1 .. Len(s)
      BY <1>1, <2>1 DEF ChunksOf
  <2>2. CASE i \notin 1 .. Len(s)
    <3>1. PICK j \in 1 .. Len(t) : u[i] = t[j]
        BY <1>1, <2>2
    <3> QED
        BY <3>1 DEF ChunksOf
  <2> QED
      BY <2>1, <2>2
<1>3. ChunksOf(u) \subseteq ChunksOf(s) \cup ChunksOf(t)
    BY <1>2 DEF ChunksOf
<1>4. ASSUME NEW i \in 1 .. Len(s) PROVE s[i] \in ChunksOf(u)
    BY <1>1 DEF ChunksOf
<1>5. ASSUME NEW i \in 1 .. Len(t) PROVE t[i] \in ChunksOf(u)
    BY <1>1 DEF ChunksOf
<1>6. ChunksOf(s) \cup ChunksOf(t) \subseteq ChunksOf(u)
    BY <1>4, <1>5 DEF ChunksOf
<1>7. ChunksOf(u) = ChunksOf(s) \cup ChunksOf(t)
    BY <1>3, <1>6
<1> QED
    BY <1>7 DEF u

\* The scrollback holds the chunks of that replay.
LEMMA ReplayScroll ==
    ASSUME NEW b \in Seq(Nat), NEW fs \in Seq(Frames)
    PROVE  ChunksOf(Replay(b, fs)) \ {NoBytes} = Replayed(ChunksOf(b), fs) \ {NoBytes}
<1> DEFINE t == [i \in 1 .. Len(fs) |->
                   IF IsOutput(fs[i]) /\ ~ClearedAfter(fs, i) THEN fs[i].val ELSE NoBytes]
           s == IF ClearedAfter(fs, 0) THEN <<>> ELSE b
<1>1. t \in Seq(Nat) /\ Len(t) = Len(fs)
  <2>1. ASSUME NEW i \in 1 .. Len(fs) PROVE t[i] \in Nat
    <3>1. fs[i] \in Frames
        OBVIOUS
    <3> QED
        BY <3>1 DEF Frames, NoBytes
  <2>2. Len(fs) \in Nat /\ t \in [1 .. Len(fs) -> Nat]
      BY <2>1
  <2> HIDE DEF t
  <2> QED
      BY <2>2
<1>2. \A i \in 1 .. Len(fs) : t[i] = IF IsOutput(fs[i]) /\ ~ClearedAfter(fs, i) THEN fs[i].val ELSE NoBytes
    OBVIOUS
<1>3. s \in Seq(Nat) /\ ChunksOf(s) = IF ClearedAfter(fs, 0) THEN {} ELSE ChunksOf(b)
  <2>1. CASE ClearedAfter(fs, 0)
      BY <2>1, EmptyHolds
  <2>2. CASE ~ClearedAfter(fs, 0)
      BY <2>2
  <2> QED
      BY <2>1, <2>2
<1>4. Replay(b, fs) = s \o t
    BY DEF Replay
<1> HIDE DEF s, t
<1>5. ChunksOf(s \o t) = ChunksOf(s) \cup ChunksOf(t)
    BY <1>1, <1>3, ChunksJoined
<1>6. ChunksOf(t) \ {NoBytes} =
        {fs[i].val : i \in {j \in 1 .. Len(fs) : IsOutput(fs[j]) /\ ~ClearedAfter(fs, j)}} \ {NoBytes}
    BY <1>1, <1>2 DEF ChunksOf
<1> QED
    BY <1>3, <1>4, <1>5, <1>6 DEF Replayed

\* The output bytes of two sequences are those of the first and those of the second.
LEMMA BytesJoined ==
    ASSUME NEW s \in Seq(Frames), NEW t \in Seq(Frames)
    PROVE  OutputBytes(s \o t) = OutputBytes(s) + OutputBytes(t)
<1> DEFINE u == s \o t
           At(q) == {i \in 1 .. Len(q) : q[i].kind = "output"}
           B == {i \in 1 .. Len(u) : i \notin 1 .. Len(s) /\ u[i].kind = "output"}
           f == [i \in At(t) |-> Len(s) + i]
<1>1. /\ Len(s) \in Nat /\ Len(t) \in Nat /\ Len(u) = Len(s) + Len(t)
      /\ \A i \in 1 .. Len(s) : i \in 1 .. Len(u) /\ u[i] = s[i]
      /\ \A i \in 1 .. Len(t) : Len(s) + i \in 1 .. Len(u) /\ u[Len(s) + i] = t[i]
      /\ \A i \in 1 .. Len(u) : i \notin 1 .. Len(s) => i - Len(s) \in 1 .. Len(t) /\ u[i] = t[i - Len(s)]
    BY Joined
<1> HIDE DEF u
<1>2. IsFiniteSet(At(s)) /\ IsFiniteSet(At(t)) /\ IsFiniteSet(B)
  <2>1. IsFiniteSet(1 .. Len(s)) /\ IsFiniteSet(1 .. Len(t)) /\ IsFiniteSet(1 .. Len(u))
      BY <1>1, FS_Interval
  <2>2. At(s) \subseteq 1 .. Len(s) /\ At(t) \subseteq 1 .. Len(t) /\ B \subseteq 1 .. Len(u)
      OBVIOUS
  <2> HIDE DEF At, B
  <2> QED
      BY <2>1, <2>2, FS_Subset
<1>3. At(u) = At(s) \cup B /\ At(s) \cap B = {}
    BY <1>1
<1>4. ExistsBijection(At(t), B)
  <2>1. \A i \in At(t) : f[i] \in B
      BY <1>1
  <2>2. \A i, j \in At(t) : f[i] = f[j] => i = j
      BY <1>1
  <2>3. \A b \in B : b - Len(s) \in At(t) /\ f[b - Len(s)] = b
      BY <1>1
  <2>4. f \in [At(t) -> B]
      BY <2>1
  <2> HIDE DEF f, At, B
  <2>5. f \in Bijection(At(t), B)
      BY <2>2, <2>3, <2>4 DEF Bijection, Injection, IsInjective, Surjection
  <2> QED
      BY <2>5 DEF ExistsBijection
<1>5. Cardinality(B) = Cardinality(At(t)) /\ Cardinality(At(t)) \in Nat /\ Cardinality(At(s)) \in Nat
  <2> HIDE DEF At, B
  <2> QED
      BY <1>2, <1>4, FS_Bijection, FS_CardinalityType
<1> HIDE DEF At, B
<1>6. Cardinality(At(s) \cup B) = Cardinality(At(s)) + Cardinality(B) - Cardinality(At(s) \cap B)
    BY <1>2, FS_Union
<1>7. Cardinality(At(s) \cap B) = 0
    BY <1>3, FS_EmptySet
<1>8. Cardinality(At(u)) = Cardinality(At(s)) + Cardinality(At(t))
  <2>1. PICK x \in Nat, y \in Nat : x = Cardinality(At(s)) /\ y = Cardinality(At(t))
      BY <1>5
  <2>2. Cardinality(At(u)) = x + y - 0
      BY <1>3, <1>5, <1>6, <1>7, <2>1
  <2>3. x + y - 0 = x + y
      OBVIOUS
  <2> QED
      BY <2>1, <2>2, <2>3
<1> QED
    BY <1>8 DEF OutputBytes, At, u

\* One batch: its Batch frame announces the records behind it.
IsBatch(b, r, fs) ==
    /\ b \in Frames /\ b.kind = "batch" /\ r \in Seq(Frames) /\ Plain(r) /\ b.n = Len(r)
    /\ fs = <<b>> \o r

\* A batch counts and replays as its records do.
LEMMA BatchReplays ==
    ASSUME NEW b, NEW r, NEW fs, IsBatch(b, r, fs)
    PROVE  /\ fs \in Seq(Frames) /\ Len(r) \in Nat /\ Len(fs) = Len(r) + 1 /\ fs[1] = b
           /\ \A i \in 2 .. Len(fs) : fs[i].kind # "batch"
           /\ OutputBytes(fs) = OutputBytes(r)
           /\ \A S : Replayed(S, fs) = Replayed(S, r)
           /\ ClearedAfter(fs, 0) <=> ClearedAfter(r, 0)
<1>1. <<b>> \in Seq(Frames) /\ r \in Seq(Frames) /\ fs = <<b>> \o r /\ b.kind = "batch"
    BY DEF IsBatch
<1>2. /\ fs \in Seq(Frames) /\ Len(r) \in Nat /\ Len(fs) = Len(r) + 1 /\ fs[1] = b
      /\ \A i \in 2 .. Len(fs) : i - 1 \in 1 .. Len(r) /\ fs[i] = r[i - 1]
    BY <1>1
<1>3. \A i \in 2 .. Len(fs) : fs[i].kind # "batch"
    BY <1>2 DEF IsBatch, Plain
<1>4. OutputBytes(<<b>>) = 0
  <2>1. {i \in 1 .. Len(<<b>>) : <<b>>[i].kind = "output"} = {}
      BY <1>1
  <2> QED
      BY <2>1, FS_EmptySet DEF OutputBytes
<1>5. OutputBytes(fs) = OutputBytes(r)
  <2>1. OutputBytes(<<b>> \o r) = OutputBytes(<<b>>) + OutputBytes(r)
      BY <1>1, BytesJoined
  <2>2. OutputBytes(r) \in Nat
      BY <1>1, OutputBytesType
  <2> QED
      BY <1>1, <1>4, <2>1, <2>2
<1>6. ASSUME NEW S PROVE Replayed(S, fs) = Replayed(S, r)
  <2>1. Replayed(S, <<b>> \o r) = Replayed(Replayed(S, <<b>>), r)
      BY <1>1, ReplayedJoined
  <2>2. b \in Frames
      BY DEF IsBatch
  <2>3. Replayed(S, <<b>>) = S
      BY <1>1, <2>2, ReplayedOne
  <2> QED
      BY <1>1, <2>1, <2>3
<1>7. ClearedAfter(fs, 0) <=> ClearedAfter(r, 0)
  <2>1. 0 \in 0 .. Len(<<b>>)
      OBVIOUS
  <2>2. ~ClearedAfter(<<b>>, 0)
      BY <1>1, ReplayedOne DEF IsBatch
  <2> QED
      BY <1>1, <2>1, <2>2, ClearedJoined
<1> QED
    BY <1>2, <1>3, <1>5, <1>6, <1>7

\* A log that grows by a whole batch is not torn, and one that grows by a part of it is.
LEMMA BatchTears ==
    ASSUME NEW s \in Seq(Frames), NEW b, NEW r, NEW fs, IsBatch(b, r, fs)
    PROVE  /\ ~Torn(s) => ~Torn(s \o fs)
           /\ \A k \in 1 .. Len(fs) - 1 : Torn(s \o SubSeq(fs, 1, k))
<1>1. /\ fs \in Seq(Frames) /\ Len(r) \in Nat /\ Len(fs) = Len(r) + 1 /\ fs[1] = b
      /\ \A i \in 2 .. Len(fs) : fs[i].kind # "batch"
      /\ b.kind = "batch" /\ b.n = Len(r)
  <2>1. b.kind = "batch" /\ b.n = Len(r)
      BY DEF IsBatch
  <2> QED
      BY <2>1, BatchReplays
<1>2. ASSUME ~Torn(s) PROVE ~Torn(s \o fs)
  <2> DEFINE u == s \o fs
  <2>1. /\ Len(s) \in Nat /\ Len(u) = Len(s) + Len(fs)
        /\ \A i \in 1 .. Len(s) : i \in 1 .. Len(u) /\ u[i] = s[i]
        /\ \A i \in 1 .. Len(u) : i \notin 1 .. Len(s) => i - Len(s) \in 1 .. Len(fs) /\ u[i] = fs[i - Len(s)]
      BY <1>1, Joined
  <2> HIDE DEF u
  <2>2. ASSUME NEW i \in 1 .. Len(u), u[i].kind = "batch" PROVE ~(i + u[i].n > Len(u))
    <3>1. CASE i \in 1 .. Len(s)
      <4>1. s[i] \in Frames
          BY <3>1
      <4>2. s[i].n \in Nat
          BY <4>1 DEF Frames
      <4>3. u[i] = s[i]
          BY <2>1, <3>1
      <4>4. ~(i + s[i].n > Len(s))
          BY <1>2, <2>2, <3>1, <4>3 DEF Torn
      <4> QED
          BY <1>1, <2>1, <3>1, <4>2, <4>3, <4>4
    <3>2. CASE i \notin 1 .. Len(s)
      <4>1. i - Len(s) = 1
          BY <1>1, <2>1, <2>2, <3>2
      <4> QED
          BY <1>1, <2>1, <3>2, <4>1
    <3> QED
        BY <3>1, <3>2
  <2>3. ~Torn(u)
      BY <2>2 DEF Torn
  <2> QED
      BY <2>3 DEF u
<1>3. ASSUME NEW k \in 1 .. Len(fs) - 1 PROVE Torn(s \o SubSeq(fs, 1, k))
  <2> DEFINE t == SubSeq(fs, 1, k)
             u == s \o t
  <2>1. t \in Seq(Frames) /\ Len(t) = k /\ t[1] = b
      BY <1>1
  <2> HIDE DEF t
  <2>2. Len(s) \in Nat /\ Len(u) = Len(s) + k /\ Len(s) + 1 \in 1 .. Len(u) /\ u[Len(s) + 1] = b
    <3>1. /\ Len(s) \in Nat /\ Len(u) = Len(s) + Len(t)
          /\ \A i \in 1 .. Len(t) : Len(s) + i \in 1 .. Len(u) /\ u[Len(s) + i] = t[i]
        BY <2>1, Joined
    <3> HIDE DEF u
    <3>2. 1 \in 1 .. Len(t)
        BY <2>1
    <3> QED
        BY <2>1, <3>1, <3>2
  <2> HIDE DEF u
  <2>3. Torn(u)
      BY <1>1, <2>2 DEF Torn
  <2> QED
      BY <2>3 DEF t, u
<1> QED
    BY <1>2, <1>3

\* The first frames of two sequences in a row.
LEMMA PrefixJoined ==
    ASSUME NEW s \in Seq(Frames), NEW t \in Seq(Frames), NEW j \in 0 .. Len(s \o t)
    PROVE  /\ j <= Len(s) => SubSeq(s \o t, 1, j) = SubSeq(s, 1, j)
           /\ j > Len(s) => /\ j - Len(s) \in 1 .. Len(t)
                            /\ SubSeq(s \o t, 1, j) = s \o SubSeq(t, 1, j - Len(s))
<1> DEFINE u == s \o t
<1>1. /\ u \in Seq(Frames) /\ Len(s) \in Nat /\ Len(t) \in Nat /\ Len(u) = Len(s) + Len(t)
      /\ \A i \in 1 .. Len(s) : i \in 1 .. Len(u) /\ u[i] = s[i]
      /\ \A i \in 1 .. Len(u) : i \notin 1 .. Len(s) => i - Len(s) \in 1 .. Len(t) /\ u[i] = t[i - Len(s)]
    BY Joined
<1>2. j \in Nat /\ j <= Len(u)
    BY <1>1
<1> HIDE DEF u
<1>3. SubSeq(u, 1, j) = [i \in 1 .. j |-> u[i]]
    BY <1>1, <1>2
<1>4. ASSUME j <= Len(s) PROVE SubSeq(u, 1, j) = SubSeq(s, 1, j)
  <2>1. SubSeq(s, 1, j) = [i \in 1 .. j |-> s[i]]
      BY <1>1, <1>2, <1>4
  <2>2. \A i \in 1 .. j : u[i] = s[i]
      BY <1>1, <1>2, <1>4
  <2> QED
      BY <1>3, <2>1, <2>2
<1>5. ASSUME j > Len(s) PROVE j - Len(s) \in 1 .. Len(t) /\ SubSeq(u, 1, j) = s \o SubSeq(t, 1, j - Len(s))
  <2> DEFINE k == j - Len(s)
             v == SubSeq(t, 1, k)
  <2>1. k \in 1 .. Len(t)
      BY <1>1, <1>2, <1>5
  <2>2. j = Len(s) + k
      BY <1>1, <1>2
  <2> HIDE DEF k
  <2>3. v \in Seq(Frames) /\ Len(v) = k /\ \A i \in 1 .. k : v[i] = t[i]
      BY <1>1, <2>1
  <2> HIDE DEF v
  <2>4. /\ s \o v \in Seq(Frames) /\ Len(s \o v) = Len(s) + Len(v)
        /\ \A i \in 1 .. Len(s) : (s \o v)[i] = s[i]
        /\ \A i \in 1 .. Len(s \o v) : i \notin 1 .. Len(s) =>
              i - Len(s) \in 1 .. Len(v) /\ (s \o v)[i] = v[i - Len(s)]
      BY <2>3, Joined
  <2>5. Len(s \o v) = j
      BY <2>2, <2>3, <2>4
  <2>6. ASSUME NEW i \in 1 .. j PROVE u[i] = (s \o v)[i]
    <3>1. CASE i \in 1 .. Len(s)
        BY <1>1, <2>4, <3>1
    <3>2. CASE i \notin 1 .. Len(s)
      <4>1. (s \o v)[i] = v[i - Len(s)] /\ i - Len(s) \in 1 .. k
          BY <2>3, <2>4, <2>5, <3>2
      <4>2. i \in 1 .. Len(u)
          BY <1>1, <1>2
      <4>3. u[i] = t[i - Len(s)]
          BY <1>1, <3>2, <4>2
      <4> QED
          BY <2>3, <4>1, <4>3
    <3> QED
        BY <3>1, <3>2
  <2>7. s \o v = [i \in 1 .. j |-> (s \o v)[i]]
    <3>1. PICK x \in Seq(Frames) : x = s \o v
        BY <2>4
    <3>2. Len(x) = j
        BY <2>5, <3>1
    <3>3. x = [i \in 1 .. Len(x) |-> x[i]]
        OBVIOUS
    <3> QED
        BY <3>1, <3>2, <3>3
  <2>8. SubSeq(u, 1, j) = s \o v
      BY <1>3, <2>6, <2>7
  <2> QED
      BY <2>1, <2>8 DEF k, v
<1> QED
    BY <1>2, <1>4, <1>5 DEF u

\* A log decodes after a batch whose seq counts the log's bytes and its own.
LEMMA DecodesGrown ==
    ASSUME NEW l \in Logs, DecodesLog(l), NEW b, NEW r, NEW fs, IsBatch(b, r, fs),
           b.val = OutputBytes(l.frames) + OutputBytes(r)
    PROVE  /\ WithFrames(l, fs).frames = l.frames \o fs
           /\ DecodesLog(WithFrames(l, fs))
<1> DEFINE s == l.frames
           u == s \o fs
           t == WithFrames(l, fs)
<1>1. s \in Seq(Frames) /\ fs \in Seq(Frames) /\ fs[1] = b /\ Len(fs) \in Nat /\ Len(fs) >= 1
      /\ \A i \in 2 .. Len(fs) : fs[i].kind # "batch"
    BY BatchReplays DEF Logs
<1>2. l.st = "ok"
    BY DEF DecodesLog
<1>3. t.frames = u /\ t.st = "ok"
    BY <1>2 DEF WithFrames, Logs
<1>4. b.kind = "batch"
    BY DEF IsBatch
<1>5. b.val = OutputBytes(u)
  <2>1. OutputBytes(u) = OutputBytes(s) + OutputBytes(fs)
      BY <1>1, BytesJoined
  <2>2. OutputBytes(fs) = OutputBytes(r)
      BY BatchReplays
  <2> QED
      BY <2>1, <2>2
<1>6. \A i \in 1 .. Len(s) : s[i].kind = "batch" =>
         \A e \in i .. Len(s) : EndsBatch(s, i, e) => s[i].val = OutputBytes(SubSeq(s, 1, e))
    BY DEF DecodesLog
<1> HIDE DEF s, t
<1>7. /\ u \in Seq(Frames) /\ Len(s) \in Nat /\ Len(u) = Len(s) + Len(fs)
      /\ \A i \in 1 .. Len(s) : i \in 1 .. Len(u) /\ u[i] = s[i]
      /\ \A i \in 1 .. Len(fs) : Len(s) + i \in 1 .. Len(u) /\ u[Len(s) + i] = fs[i]
      /\ \A i \in 1 .. Len(u) : i \notin 1 .. Len(s) => i - Len(s) \in 1 .. Len(fs) /\ u[i] = fs[i - Len(s)]
    BY <1>1, Joined
<1>8. \A j \in 0 .. Len(u) : j <= Len(s) => SubSeq(u, 1, j) = SubSeq(s, 1, j)
    BY <1>1, PrefixJoined
<1>9. SubSeq(u, 1, Len(u)) = u
    BY <1>7
<1> HIDE DEF u
<1>10. u[Len(s) + 1].kind = "batch" /\ Len(s) + 1 \in 1 .. Len(u)
    BY <1>1, <1>4, <1>7
<1>11. \A i \in 1 .. Len(u) : u[i].kind = "batch" => i <= Len(s) + 1
  <2> SUFFICES ASSUME NEW i \in 1 .. Len(u), u[i].kind = "batch", i > Len(s) + 1 PROVE FALSE
      BY <1>7
  <2>1. i \notin 1 .. Len(s) /\ i - Len(s) \in 2 .. Len(fs)
      BY <1>1, <1>7
  <2>2. u[i] = fs[i - Len(s)]
      BY <1>7, <2>1
  <2> QED
      BY <1>1, <2>1, <2>2
<1>12. ASSUME NEW i \in 1 .. Len(u), u[i].kind = "batch", NEW e \in i .. Len(u), EndsBatch(u, i, e)
       PROVE  u[i].val = OutputBytes(SubSeq(u, 1, e))
  <2>1. /\ e = Len(u) \/ u[e + 1].kind = "batch"
        /\ \A k \in i + 1 .. e : u[k].kind # "batch"
      BY <1>12 DEF EndsBatch
  <2>2. i \in Nat /\ e \in Nat /\ 1 <= i /\ i <= e /\ e <= Len(u) /\ Len(u) \in Nat
      BY <1>7
  <2>3. CASE i <= Len(s)
    <3>1. e <= Len(s)
      <4>1. ~(Len(s) + 1 \in i + 1 .. e)
          BY <1>10, <2>1
      <4> QED
          BY <1>7, <2>2, <2>3, <4>1
    <3>2. i \in 1 .. Len(s) /\ e \in i .. Len(s) /\ s[i] = u[i]
        BY <1>7, <2>2, <2>3, <3>1
    <3>3. EndsBatch(s, i, e)
      <4>1. e = Len(s) \/ s[e + 1].kind = "batch"
        <5> SUFFICES ASSUME e # Len(s) PROVE s[e + 1].kind = "batch"
            OBVIOUS
        <5>1. e + 1 \in 1 .. Len(s) /\ e # Len(u)
            BY <1>1, <1>7, <2>2, <3>1
        <5> QED
            BY <1>7, <2>1, <5>1
      <4>2. ASSUME NEW k \in i + 1 .. e PROVE s[k].kind # "batch"
        <5>1. k \in 1 .. Len(s)
            BY <1>7, <2>2, <3>1
        <5> QED
            BY <1>7, <2>1, <5>1
      <4> QED
          BY <4>1, <4>2 DEF EndsBatch
    <3>4. SubSeq(u, 1, e) = SubSeq(s, 1, e)
        BY <1>8, <2>2, <3>1
    <3> QED
        BY <1>6, <1>12, <3>2, <3>3, <3>4
  <2>4. CASE i > Len(s)
    <3>1. i = Len(s) + 1
        BY <1>7, <1>11, <1>12, <2>2, <2>4
    <3>2. e = Len(u)
      <4> SUFFICES ASSUME e # Len(u) PROVE FALSE
          OBVIOUS
      <4>1. e + 1 \in 1 .. Len(u)
          BY <2>2
      <4>2. e + 1 <= Len(s) + 1
          BY <1>11, <2>1, <4>1
      <4> QED
          BY <1>7, <2>2, <3>1, <4>2
    <3>3. u[i] = b
      <4>1. 1 \in 1 .. Len(fs)
          BY <1>1
      <4> QED
          BY <1>1, <1>7, <3>1, <4>1
    <3> QED
        BY <1>5, <1>9, <3>2, <3>3
  <2> QED
      BY <1>7, <2>2, <2>3, <2>4
<1>13. DecodesLog(t)
    BY <1>3, <1>12 DEF DecodesLog
<1> QED
    BY <1>3, <1>13 DEF s, t, u

(***************************************************************************)
(* What the disk holds against what was acknowledged                       *)
(***************************************************************************)
\* What the checkpoint c and the log l give back, if they are of the session.
Kept(c, l) ==
    (IF c.st # "ok" THEN {}
     ELSE IF LogUsable(c, l) THEN Replayed(ChunksOf(c.ring), l.frames)
     ELSE ChunksOf(c.ring)) \ {NoBytes}

\* A Clear in fs takes nothing of X away that came after the n-th chunk: it is in fs again.
Covered(fs, X, n) == ClearedAfter(fs, 0) => \A c \in X : c > n => c \in Replayed({}, fs)
\* Neither does a Clear in the part of a log that a power loss may leave.
LogCovers(fs, X, n) == \A k \in 0 .. Len(fs) : Torn(SubSeq(fs, 1, k)) \/ Covered(SubSeq(fs, 1, k), X, n)

\* Records are not Batch frames; what is buffered belongs to a session that buffers.
Buffers ==
    /\ Plain(pend.recs) /\ Plain(op.recs)
    /\ pend.overflowed \/ ~enabled => pend.recs = <<>>
    /\ pc # "append" => op.recs = <<>>
    /\ pc \in Gone => ~enabled
    /\ wiped <= out /\ UpTo(acked, out) /\ UpTo(anchored, out)
    /\ acked \cup anchored \subseteq Nat \ {NoBytes}

Opening == {"unlinkCp", "unlinkLog", "truncMeta", "writeMeta"}
Reopening == pc \in {"truncMeta", "writeMeta"} /\ op.then = "reopened"

\* What meta.json says of a session with a writer, being opened, or gone.
Sessions ==
    /\ w.reg => Eligible
    /\ pc \in Opening /\ op.then # "ended" => op.meta.st = "ok" /\ ~op.meta.ended
    /\ (pc \in Opening /\ op.then # "reopened") \/ pc = "rmdir" => acked = {} /\ anchored = {}
    /\ pc \in Opening /\ op.then = "opened" /\ pc # "unlinkCp" => cp.st = "absent"
    /\ pc = "down" /\ meta.st = "ok" => dmeta = meta /\ dcp = cp

\* The checkpoint on disk, while something is acknowledged: it is durable, of this
\* session, and holds what was anchored.
OwnCheckpoint ==
    /\ pc = "rename" => acked \cap ChunksOf(ring) \subseteq ChunksOf(op.ring)
    /\ pc = "reset" => /\ cp.ring = op.ring /\ cp.at = inc /\ acked \subseteq ChunksOf(op.ring)
                       /\ log.base < ids /\ dlog.base < ids
    /\ acked # {} \/ anchored # {} => dcp = cp
    /\ anchored # {} => cp.st = "ok" /\ anchored = ChunksOf(cp.ring)
    /\ acked # {} \/ anchored # {} => /\ cp.st = "ok"
                                      /\ \A m \in MetaImages : m.st = "ok" => m.started <= cp.at
    /\ w.reg /\ ~w.needsFull => cp.st = "ok" /\ cp.at = inc /\ dcp = cp

\* A writer that appends knows its log.
SureLog ==
    w.reg /\ ~w.needsFull /\ ~orphaned /\ pc # "reset" =>
       /\ log.st = "ok" /\ log.gen = cp.gen /\ DecodesLog(log)
       /\ w.appended = OutputBytes(log.frames) /\ ~Torn(log.frames)

\* A Clear on its way to the log takes nothing acknowledged away but what was wiped.
Clears ==
    /\ Covered(pend.recs, ChunksOf(ring) \cup ChunksOf(op.ring) \cup acked \cup anchored, wiped)
    /\ Covered(op.recs, acked \cup anchored, wiped)
    /\ ClearedAfter(pend.recs, 0) => UpTo(OutputsOf(op.recs), wiped)

\* Neither does one in a log that continues the checkpoint, written or durable.
LogClears ==
    ~orphaned /\ cp.st = "ok" =>
       \A l \in LogImages : l.st = "ok" /\ l.base = cp.id => LogCovers(l.frames, anchored, wiped)

\* What the disk holds is what was acknowledged, with a writer, and no less without.
Exact ==
    (w.reg \/ Reopening) /\ pc # "reset" /\ ~TornLog /\ ~orphaned => Kept(cp, log) = acked
Safe == ~TornLog /\ ~orphaned => Unwiped(acked) \subseteq Kept(cp, log)

AckInv ==
    /\ Buffers /\ Sessions /\ OwnCheckpoint
    /\ SureLog /\ Clears /\ LogClears /\ Exact /\ Safe

\* No frames and a sequence without Clear take nothing away; nothing has nothing to lose.
LEMMA NoneCovered ==
    /\ \A X, n : Covered(<<>>, X, n)
    /\ \A fs, n : Covered(fs, {}, n)
    /\ \A fs, n : LogCovers(fs, {}, n)
    /\ \A X, n : LogCovers(<<>>, X, n)
<1>1. \A X, n : Covered(<<>>, X, n)
    BY ReplayedOne DEF Covered
<1>2. \A fs, n : Covered(fs, {}, n)
    BY DEF Covered
<1>3. \A fs, n : LogCovers(fs, {}, n)
    BY <1>2 DEF LogCovers
<1>4. ASSUME NEW X, NEW n PROVE LogCovers(<<>>, X, n)
  <2>1. 0 .. Len(<<>>) = {0} /\ SubSeq(<<>>, 1, 0) = <<>>
      OBVIOUS
  <2> QED
      BY <1>1, <2>1 DEF LogCovers
<1> QED
    BY <1>1, <1>2, <1>3, <1>4

\* Fewer chunks and a later wipe ask less.
LEMMA CoversLess ==
    ASSUME NEW X, NEW Y, Y \subseteq X, Y \subseteq Nat, NEW n \in Nat, NEW m \in Nat, n <= m
    PROVE  /\ \A fs : Covered(fs, X, n) => Covered(fs, Y, m)
           /\ \A fs : LogCovers(fs, X, n) => LogCovers(fs, Y, m)
<1>1. ASSUME NEW c \in Y, c > m PROVE c \in X /\ c > n
    BY <1>1
<1>2. ASSUME NEW fs, Covered(fs, X, n) PROVE Covered(fs, Y, m)
    BY <1>1, <1>2 DEF Covered
<1>3. ASSUME NEW fs, LogCovers(fs, X, n) PROVE LogCovers(fs, Y, m)
    BY <1>2, <1>3 DEF LogCovers
<1> QED
    BY <1>2, <1>3

\* A log that is cut is covered as far as it goes.
LEMMA CoversCut ==
    ASSUME NEW s \in Seq(Frames), NEW k \in 0 .. Len(s), NEW X, NEW n, LogCovers(s, X, n)
    PROVE  LogCovers(SubSeq(s, 1, k), X, n)
<1> DEFINE t == SubSeq(s, 1, k)
<1>1. Len(s) \in Nat /\ k \in Nat /\ k <= Len(s)
    OBVIOUS
<1>2. t \in Seq(Frames) /\ Len(t) = k /\ \A i \in 1 .. k : t[i] = s[i]
    BY <1>1
<1> HIDE DEF t
<1>3. ASSUME NEW j \in 0 .. Len(t) PROVE j \in 0 .. Len(s) /\ SubSeq(t, 1, j) = SubSeq(s, 1, j)
  <2>1. j \in Nat /\ j <= k /\ j <= Len(s)
      BY <1>1, <1>2
  <2>2. SubSeq(t, 1, j) = [i \in 1 .. j |-> t[i]] /\ SubSeq(s, 1, j) = [i \in 1 .. j |-> s[i]]
      BY <1>2, <2>1
  <2>3. \A i \in 1 .. j : t[i] = s[i]
      BY <1>1, <1>2, <2>1
  <2> QED
      BY <1>1, <2>1, <2>2, <2>3
<1>4. LogCovers(t, X, n)
    BY <1>3 DEF LogCovers
<1> QED
    BY <1>4 DEF t

\* So is one that grows by a part of a batch ...
LEMMA CoversPart ==
    ASSUME NEW s \in Seq(Frames), NEW b, NEW r, NEW fs, IsBatch(b, r, fs),
           NEW X, NEW n, LogCovers(s, X, n), NEW k \in 0 .. Len(fs) - 1
    PROVE  LogCovers(s \o SubSeq(fs, 1, k), X, n)
<1> DEFINE t == SubSeq(fs, 1, k)
<1>1. fs \in Seq(Frames) /\ Len(fs) \in Nat
    BY BatchReplays
<1>2. t \in Seq(Frames) /\ Len(t) = k /\ k \in Nat
    BY <1>1
<1>3. Len(s) \in Nat /\ Len(s \o t) = Len(s) + k
    BY <1>2, Joined
<1>4. \A i \in 1 .. k : SubSeq(t, 1, i) = SubSeq(fs, 1, i) /\ i \in 1 .. Len(fs) - 1
  <2> SUFFICES ASSUME NEW i \in 1 .. k PROVE SubSeq(t, 1, i) = SubSeq(fs, 1, i) /\ i \in 1 .. Len(fs) - 1
      OBVIOUS
  <2>1. i \in Nat /\ i <= k /\ i <= Len(fs) /\ i \in 1 .. Len(fs) - 1
      BY <1>1, <1>2
  <2>2. \A j \in 1 .. k : t[j] = fs[j]
      BY <1>1, <1>2
  <2> HIDE DEF t
  <2>3. SubSeq(t, 1, i) = [j \in 1 .. i |-> t[j]] /\ SubSeq(fs, 1, i) = [j \in 1 .. i |-> fs[j]]
      BY <1>1, <1>2, <2>1
  <2>4. \A j \in 1 .. i : t[j] = fs[j]
      BY <1>2, <2>1, <2>2
  <2> QED
      BY <2>1, <2>3, <2>4
<1> HIDE DEF t
<1>5. ASSUME NEW j \in 0 .. Len(s \o t)
      PROVE  Torn(SubSeq(s \o t, 1, j)) \/ Covered(SubSeq(s \o t, 1, j), X, n)
  <2>1. CASE j <= Len(s)
    <3>1. SubSeq(s \o t, 1, j) = SubSeq(s, 1, j)
        BY <1>2, <2>1, PrefixJoined
    <3>2. j \in 0 .. Len(s)
        BY <1>3, <2>1
    <3> QED
        BY <3>1, <3>2 DEF LogCovers
  <2>2. CASE j > Len(s)
    <3>1. j - Len(s) \in 1 .. k /\ SubSeq(s \o t, 1, j) = s \o SubSeq(t, 1, j - Len(s))
        BY <1>2, <2>2, PrefixJoined
    <3>2. PICK i \in 1 .. k : i = j - Len(s)
        BY <3>1
    <3>3. SubSeq(s \o t, 1, j) = s \o SubSeq(fs, 1, i) /\ i \in 1 .. Len(fs) - 1
        BY <1>4, <3>1, <3>2
    <3>4. Torn(s \o SubSeq(fs, 1, i))
        BY <3>3, BatchTears
    <3> QED
        BY <3>3, <3>4
  <2> QED
      BY <1>3, <2>1, <2>2
<1>6. LogCovers(s \o t, X, n)
    BY <1>5 DEF LogCovers
<1> QED
    BY <1>6 DEF t

\* ... and one that grows by all of it, if its records are covered.
LEMMA CoversBatch ==
    ASSUME NEW s \in Seq(Frames), ~Torn(s), NEW b, NEW r, NEW fs, IsBatch(b, r, fs),
           NEW X, NEW n, LogCovers(s, X, n), Covered(r, X, n)
    PROVE  LogCovers(s \o fs, X, n)
<1> DEFINE u == s \o fs
<1>1. fs \in Seq(Frames) /\ Len(fs) \in Nat /\ r \in Seq(Frames) /\ Len(fs) >= 1
    BY BatchReplays DEF IsBatch
<1>2. Len(s) \in Nat /\ Len(u) = Len(s) + Len(fs) /\ u \in Seq(Frames)
    BY <1>1, Joined
<1>3. Covered(s, X, n)
  <2>1. Len(s) \in 0 .. Len(s) /\ SubSeq(s, 1, Len(s)) = s
      BY <1>2
  <2> QED
      BY <2>1 DEF LogCovers
<1>4. Covered(u, X, n)
  <2>1. Replayed({}, u) = Replayed(Replayed({}, s), r)
    <3>1. Replayed({}, u) = Replayed(Replayed({}, s), fs)
        BY <1>1, ReplayedJoined
    <3>2. Replayed(Replayed({}, s), fs) = Replayed(Replayed({}, s), r)
        BY BatchReplays
    <3> QED
        BY <3>1, <3>2
  <2>2. ClearedAfter(u, 0) <=> ClearedAfter(s, 0) \/ ClearedAfter(r, 0)
    <3>1. 0 \in 0 .. Len(s)
        BY <1>2
    <3>2. ClearedAfter(u, 0) <=> ClearedAfter(s, 0) \/ ClearedAfter(fs, 0)
        BY <1>1, <3>1, ClearedJoined
    <3>3. ClearedAfter(fs, 0) <=> ClearedAfter(r, 0)
        BY BatchReplays
    <3> QED
        BY <3>2, <3>3
  <2> HIDE DEF u
  <2>3. CASE ClearedAfter(r, 0)
    <3>1. Replayed({}, r) \subseteq Replayed(Replayed({}, s), r)
        BY <1>1, ReplayedHolds
    <3> QED
        BY <2>1, <2>3, <3>1 DEF Covered
  <2>4. CASE ~ClearedAfter(r, 0)
    <3>1. Replayed({}, s) \subseteq Replayed(Replayed({}, s), r)
        BY <1>1, <2>4, ReplayedHolds
    <3> QED
        BY <1>3, <2>1, <2>2, <2>4, <3>1 DEF Covered
  <2> QED
      BY <2>3, <2>4
<1>5. ASSUME NEW j \in 0 .. Len(u) PROVE Torn(SubSeq(u, 1, j)) \/ Covered(SubSeq(u, 1, j), X, n)
  <2>1. CASE j <= Len(s)
    <3>1. SubSeq(u, 1, j) = SubSeq(s, 1, j)
        BY <1>1, <2>1, PrefixJoined
    <3>2. j \in 0 .. Len(s)
        BY <1>2, <2>1
    <3> QED
        BY <3>1, <3>2 DEF LogCovers
  <2>2. CASE j > Len(s)
    <3>1. j - Len(s) \in 1 .. Len(fs) /\ SubSeq(u, 1, j) = s \o SubSeq(fs, 1, j - Len(s))
        BY <1>1, <2>2, PrefixJoined
    <3>2. PICK i \in 1 .. Len(fs) : i = j - Len(s)
        BY <3>1
    <3>3. CASE i = Len(fs)
      <4>1. SubSeq(fs, 1, i) = fs
          BY <1>1, <3>3
      <4> QED
          BY <1>4, <3>1, <3>2, <4>1
    <3>4. CASE i # Len(fs)
      <4>1. i \in 1 .. Len(fs) - 1
          BY <1>1, <3>2, <3>4
      <4>2. Torn(s \o SubSeq(fs, 1, i))
          BY <4>1, BatchTears
      <4> QED
          BY <3>1, <3>2, <4>2
    <3> QED
        BY <3>3, <3>4
  <2> QED
      BY <1>2, <2>1, <2>2
<1>6. LogCovers(u, X, n)
    BY <1>5 DEF LogCovers
<1> QED
    BY <1>6 DEF u

\* A covered log gives the checkpoint's chunks back, but for those that were wiped.
LEMMA CoveredKept ==
    ASSUME NEW c, c.st = "ok", NEW l, l.frames \in Seq(Frames), NEW n, LogCovers(l.frames, ChunksOf(c.ring), n),
           ~Torn(l.frames), NEW x \in ChunksOf(c.ring), x > n, x # NoBytes
    PROVE  x \in Kept(c, l)
<1> DEFINE s == l.frames
<1>1. Covered(s, ChunksOf(c.ring), n)
  <2>1. Len(s) \in 0 .. Len(s) /\ SubSeq(s, 1, Len(s)) = s
      OBVIOUS
  <2> QED
      BY <2>1 DEF LogCovers
<1>2. x \in Replayed(ChunksOf(c.ring), s)
  <2>1. CASE ClearedAfter(s, 0)
    <3>1. x \in Replayed({}, s)
        BY <1>1, <2>1 DEF Covered
    <3> QED
        BY <3>1, ReplayedHolds
  <2>2. CASE ~ClearedAfter(s, 0)
      BY <2>2, ReplayedHolds
  <2> QED
      BY <2>1, <2>2
<1> QED
    BY <1>2 DEF Kept

\* What a cold restore returns is what the checkpoint and the log hold.
LEMMA RestoredIsKept ==
    ASSUME TypeOK, PairingIInv, Ages
    PROVE  /\ Eligible /\ (cp.st = "ok" => meta.started <= cp.at) => Restored = Kept(cp, log)
           /\ ~(Eligible /\ (cp.st = "ok" => meta.started <= cp.at)) => Restored = {} /\ ~Restore.some
           /\ Restored # {} => Restored = Kept(cp, log) /\ cp.st = "ok" /\ meta.started <= cp.at
<1> DEFINE Young == Eligible /\ (cp.st = "ok" => meta.started <= cp.at)
<1>1. (cp.st = "ok" => meta.started <= cp.at) <=> ~(cp.st = "ok" /\ cp.at < meta.started)
  <2>1. cp.at \in Nat /\ meta.started \in Nat
      BY DEF TypeOK, Checkpoints, Metas
  <2> QED
      BY <2>1
<1>2. ~NothingToRestore.some /\ ChunksOf(NothingToRestore.scroll) \ {NoBytes} = {}
    BY EmptyHolds DEF NothingToRestore
<1>3. ASSUME ~Young PROVE Restored = {} /\ ~Restore.some
  <2>1. Restore = NothingToRestore
      BY <1>1, <1>3 DEF Restore, ColdRestore, Eligible
  <2> QED
      BY <1>2, <2>1 DEF Restored
<1>4. cp.st \in {"ok", "absent"}
    BY DEF Ages, CpImages, TypeOK, Checkpoints
<1>5. ASSUME LogUsable(cp, log) PROVE cp.st = "ok"
  <2>1. log.st = "ok" /\ log.gen > 0 /\ log.gen \in Nat
      BY <1>5 DEF LogUsable, DecodesLog, Ages, LogImages, TypeOK, Logs
  <2>2. cp.st = "absent" => log.gen = 0
      BY <1>5 DEF LogUsable
  <2> QED
      BY <1>4, <2>1, <2>2
<1>6. cp.ring \in Seq(Nat) /\ log.frames \in Seq(Frames)
    BY DEF TypeOK, Checkpoints, Logs
<1>7. ASSUME Young PROVE Restored = Kept(cp, log)
  <2>1. CASE LogUsable(cp, log)
    <3>1. Restore = RestoreFromLog(cp, log)
        BY <1>1, <1>7, <2>1 DEF Restore, ColdRestore, Eligible
    <3>2. Restore.scroll = Replay(cp.ring, log.frames)
        BY <1>5, <2>1, <3>1 DEF RestoreFromLog, Finish
    <3>3. Restored = Replayed(ChunksOf(cp.ring), log.frames) \ {NoBytes}
        BY <1>6, <3>2, ReplayScroll DEF Restored
    <3> QED
        BY <1>5, <2>1, <3>3 DEF Kept
  <2>2. CASE ~LogUsable(cp, log) /\ cp.st = "ok"
    <3>1. Restore = RestoreFromCheckpoint(cp)
        BY <1>1, <1>7, <2>2 DEF Restore, ColdRestore, Eligible
    <3> QED
        BY <2>2, <3>1 DEF RestoreFromCheckpoint, Finish, Restored, Kept
  <2>3. CASE ~LogUsable(cp, log) /\ cp.st # "ok"
    <3>1. Restore = NothingToRestore
        BY <1>1, <1>7, <2>3 DEF Restore, ColdRestore, Eligible
    <3> QED
        BY <1>2, <2>3, <3>1 DEF Restored, Kept
  <2> QED
      BY <2>1, <2>2, <2>3
<1>8. cp.st # "ok" => Kept(cp, log) = {}
    BY DEF Kept
<1> QED
    BY <1>3, <1>7, <1>8

\* Fields of the operation in progress.
LEMMA OpFieldsMore ==
    /\ NoOp.then = "idle" /\ ~NoOp.final
    /\ \A m, t : [NoOp EXCEPT !.meta = m, !.then = t].then = t
    /\ TypeOK => LET a == [op EXCEPT !.ring = ring]
                     b == [op EXCEPT !.recs = <<>>]
                 IN  /\ a.ring = ring /\ a.recs = op.recs /\ a.meta = op.meta
                     /\ b.ring = op.ring /\ b.recs = <<>> /\ b.meta = op.meta
<1>1. NoOp.then = "idle" /\ ~NoOp.final /\ \A m, t : [NoOp EXCEPT !.meta = m, !.then = t].then = t
    BY DEF NoOp
<1>2. ASSUME TypeOK PROVE LET a == [op EXCEPT !.ring = ring]
                              b == [op EXCEPT !.recs = <<>>]
                          IN  /\ a.ring = ring /\ a.recs = op.recs /\ a.meta = op.meta
                              /\ b.ring = op.ring /\ b.recs = <<>> /\ b.meta = op.meta
    BY <1>2 DEF TypeOK
<1> QED
    BY <1>1, <1>2

\* The log before an append is the file as it is, and the batch is one.
LEMMA AppendsBatch ==
    ASSUME TypeOK, PairingIInv, Buffers, pc = "append"
    PROVE  /\ HeaderedLog = log
           /\ \E b : IsBatch(b, op.recs, Batch) /\ b.val = BatchSeq
<1>1. w.reg /\ ~w.needsFull /\ w.bytes > 0 /\ w.bytes \in Nat
    BY DEF PairingIInv, Progress, TypeOK, Writers
<1>2. HeaderedLog = log
    BY <1>1 DEF HeaderedLog
<1> DEFINE b == [kind |-> "batch", val |-> BatchSeq, n |-> Len(op.recs)]
<1>3. op.recs \in Seq(Frames) /\ BatchSeq \in Nat
    BY BatchType DEF TypeOK
<1>4. Len(op.recs) \in Nat
    BY <1>3
<1>5. b \in Frames /\ b.kind = "batch" /\ b.n = Len(op.recs) /\ b.val = BatchSeq
    BY <1>3, <1>4 DEF Frames
<1>6. Batch = <<b>> \o op.recs
    BY DEF Batch
<1> HIDE DEF b
<1>7. IsBatch(b, op.recs, Batch)
    BY <1>3, <1>5, <1>6 DEF IsBatch, Buffers
<1> QED
    BY <1>2, <1>5, <1>7

\* A batch cut short leaves the log as it was, or torn; a power loss may take some of it
\* away and not more than before.
LEMMA TornAppend ==
    ASSUME TypeOK, PairingIInv, Buffers, pc = "append", NEW t \in TornAppends(HeaderedLog)
    PROVE  /\ t = log \/ Torn(t.frames)
           /\ t.st = log.st /\ t.gen = log.gen /\ t.base = log.base /\ t \in Logs
           /\ \A X, n : log.st = "ok" /\ LogCovers(log.frames, X, n) => LogCovers(t.frames, X, n)
<1>1. HeaderedLog = log
    BY AppendsBatch
<1>2. PICK b : IsBatch(b, op.recs, Batch)
    BY AppendsBatch
<1>3. PICK k \in 0 .. Len(Batch) - 1 : t = WithFrames(log, SubSeq(Batch, 1, k))
    BY <1>1 DEF TornAppends
<1>4. Batch \in Seq(Frames) /\ Len(Batch) \in Nat /\ log \in Logs /\ log.frames \in Seq(Frames)
    BY BatchType DEF TypeOK, Logs
<1>5. t.st = log.st /\ t.gen = log.gen /\ t.base = log.base /\ t \in Logs
    BY <1>1, <1>4, TornType
<1>6. CASE log.st # "ok"
    BY <1>3, <1>5, <1>6 DEF WithFrames
<1>7. CASE log.st = "ok"
  <2> DEFINE v == SubSeq(Batch, 1, k)
             f == log.frames \o v
  <2>1. t = [log EXCEPT !.frames = f]
      BY <1>3, <1>7 DEF WithFrames
  <2>2. f \in Seq(Frames)
    <3>1. v \in Seq(Frames)
        BY <1>4
    <3> QED
        BY <1>4, <3>1
  <2>3. t.frames = f
    <3> HIDE DEF f
    <3> QED
        BY <1>4, <2>1 DEF Logs
  <2>4. CASE k = 0
    <3>1. v = <<>>
        BY <2>4
    <3>2. f = log.frames
      <4>1. \A s \in Seq(Frames) : s \o <<>> = s
          OBVIOUS
      <4> QED
          BY <1>4, <3>1, <4>1
    <3> HIDE DEF f
    <3>3. t = log
        BY <1>4, <2>1, <3>2 DEF Logs
    <3> QED
        BY <3>3, <1>5
  <2>5. CASE k # 0
    <3>1. k \in 1 .. Len(Batch) - 1
        BY <1>4, <2>5
    <3>2. Torn(f)
        BY <1>2, <1>4, <3>1, BatchTears
    <3>3. ASSUME NEW X, NEW n, LogCovers(log.frames, X, n) PROVE LogCovers(f, X, n)
        BY <1>2, <1>4, <3>3, CoversPart
    <3> QED
        BY <1>5, <2>3, <3>2, <3>3
  <2> QED
      BY <2>4, <2>5
<1> QED
    BY <1>6, <1>7

\* A whole batch leaves a log that decodes, and it and the checkpoint hold what an
\* acknowledgement of its records says.
LEMMA WholeAppend ==
    ASSUME TypeOK, PairingIInv, OneInv, AckInv, pc = "append", ~orphaned,
           NEW t, t = WithFrames(HeaderedLog, Batch)
    PROVE  /\ t.st = "ok" /\ t.gen = cp.gen /\ t.base = log.base /\ DecodesLog(t) /\ t \in Logs
           /\ OutputBytes(t.frames) = BatchSeq /\ ~Torn(t.frames)
           /\ Kept(cp, t) = Replayed(acked, op.recs)
           /\ cp.st = "ok" /\ LogCovers(t.frames, anchored, wiped)
<1>1. w.reg /\ ~w.needsFull
    BY DEF PairingIInv, Progress
<1>2. /\ log.st = "ok" /\ log.gen = cp.gen /\ DecodesLog(log)
      /\ w.appended = OutputBytes(log.frames) /\ ~Torn(log.frames)
    BY <1>1 DEF AckInv, SureLog
<1>3. cp.st = "ok"
    BY <1>1 DEF AckInv, OwnCheckpoint
<1>4. PICK b : IsBatch(b, op.recs, Batch) /\ b.val = BatchSeq
    BY AppendsBatch DEF AckInv
<1>5. t = WithFrames(log, Batch)
    BY AppendsBatch DEF AckInv
<1>6. /\ Batch \in Seq(Frames) /\ log \in Logs /\ log.frames \in Seq(Frames) /\ op.recs \in Seq(Frames)
      /\ cp.ring \in Seq(Nat)
    BY BatchType DEF TypeOK, Logs, Checkpoints
<1>7. t \in Logs /\ t.st = "ok" /\ t.gen = cp.gen /\ t.base = log.base
  <2>1. log \in Logs /\ Batch \in Seq(Frames)
      BY <1>6
  <2>2. t \in Logs /\ t.st = log.st /\ t.gen = log.gen /\ t.base = log.base
      BY <1>5, <2>1, WithFramesType
  <2> QED
      BY <1>2, <2>2
<1>8. BatchSeq = OutputBytes(log.frames) + OutputBytes(op.recs)
    BY <1>2 DEF BatchSeq
<1>9. t.frames = log.frames \o Batch /\ DecodesLog(t)
    BY <1>2, <1>4, <1>5, <1>6, <1>8, DecodesGrown
<1>10. OutputBytes(t.frames) = BatchSeq
  <2>1. OutputBytes(log.frames \o Batch) = OutputBytes(log.frames) + OutputBytes(Batch)
      BY <1>6, BytesJoined
  <2>2. OutputBytes(Batch) = OutputBytes(op.recs)
      BY <1>4, BatchReplays
  <2> QED
      BY <1>8, <1>9, <2>1, <2>2
<1>11. ~Torn(t.frames)
    BY <1>2, <1>4, <1>6, <1>9, BatchTears
<1>12. LogUsable(cp, t)
  <2>1. t.frames # <<>>
    <3>1. Len(Batch) \in Nat /\ Len(Batch) >= 1
        BY <1>4, BatchReplays
    <3>2. Len(log.frames \o Batch) = Len(log.frames) + Len(Batch) /\ Len(log.frames) \in Nat
        BY <1>6, Joined
    <3>3. Len(t.frames) > 0
        BY <1>9, <3>1, <3>2
    <3> QED
        BY <3>3
  <2> QED
      BY <1>3, <1>7, <1>9, <2>1 DEF LogUsable
<1>13. Replayed(ChunksOf(cp.ring), log.frames) \ {NoBytes} = acked
  <2>1. Kept(cp, log) = acked
      BY <1>1, <1>2 DEF AckInv, Exact, TornLog, Torn
  <2>2. CASE LogUsable(cp, log)
      BY <1>3, <2>1, <2>2 DEF Kept
  <2>3. CASE ~LogUsable(cp, log)
    <3>1. log.frames = <<>>
        BY <1>2, <1>3, <2>3 DEF LogUsable
    <3>2. Replayed(ChunksOf(cp.ring), log.frames) = ChunksOf(cp.ring)
        BY <3>1, ReplayedOne
    <3> QED
        BY <1>3, <2>1, <2>3, <3>2 DEF Kept
  <2> QED
      BY <2>2, <2>3
<1>14. Kept(cp, t) = Replayed(acked, op.recs)
  <2> DEFINE S == Replayed(ChunksOf(cp.ring), log.frames)
  <2>1. Replayed(ChunksOf(cp.ring), t.frames) = Replayed(S, Batch)
      BY <1>6, <1>9, ReplayedJoined
  <2>2. Replayed(S, Batch) = Replayed(S, op.recs)
      BY <1>4, BatchReplays
  <2> HIDE DEF S
  <2>3. Replayed(S, op.recs) \ {NoBytes} = Replayed(S \ {NoBytes}, op.recs) \ {NoBytes}
      BY <1>6, ReplayedHolds
  <2>4. NoBytes \notin Replayed(acked, op.recs)
    <3>1. Replayed(acked, op.recs) \subseteq acked \cup OutputsOf(op.recs)
        BY <1>6, ReplayedHolds
    <3>2. NoBytes \notin acked
        BY DEF AckInv, Buffers
    <3>3. NoBytes \notin OutputsOf(op.recs)
      <4>1. \A c \in OutputsOf(op.recs) : epoch < c
          BY DEF OneInv, MemoryIsNew, Memory, Above
      <4>2. epoch \in Nat
          BY DEF TypeOK
      <4> QED
          BY <4>1, <4>2 DEF NoBytes
    <3> QED
        BY <3>1, <3>2, <3>3
  <2> QED
      BY <1>3, <1>12, <1>13, <2>1, <2>2, <2>3, <2>4 DEF Kept, S
<1>15. LogCovers(t.frames, anchored, wiped)
  <2>1. log.base = cp.id
      BY <1>2, <1>3 DEF PairingIInv, AllPaired, Paired
  <2>2. LogCovers(log.frames, anchored, wiped)
      BY <1>2, <1>3, <2>1 DEF AckInv, LogClears, LogImages
  <2>3. Covered(op.recs, anchored, wiped)
      BY DEF AckInv, Clears, Covered
  <2> QED
      BY <1>2, <1>4, <1>6, <1>9, <2>2, <2>3, CoversBatch
<1> QED
    BY <1>3, <1>7, <1>9, <1>10, <1>11, <1>14, <1>15

\* The operation that opens a session, and what it will make of meta.json.
LEMMA StartOp ==
    ASSUME TypeOK, StartIncarnation
    PROVE  /\ op'.ring = <<>> /\ op'.recs = <<>> /\ op'.meta.st = "ok" /\ ~op'.meta.ended
           /\ Restore.some => /\ pc' = "truncMeta" /\ op'.then = "reopened" /\ op'.meta.started = meta.started
                              /\ meta.st = "ok" /\ acked' = Restored /\ UNCHANGED <<anchored, orphaned>>
           /\ ~Restore.some => pc' = "unlinkCp" /\ op'.then = "opened" /\ acked' = {} /\ anchored' = {}
<1>1. CASE Restore.some
  <2> DEFINE m == [meta EXCEPT !.ended = FALSE]
  <2>1. meta.st = "ok"
      BY <1>1 DEF Restore, ColdRestore, NothingToRestore
  <2>2. m.st = "ok" /\ ~m.ended /\ m.started = meta.started
      BY <2>1 DEF TypeOK, Metas
  <2>3. /\ op' = [NoOp EXCEPT !.meta = m, !.then = "reopened"] /\ pc' = "truncMeta"
        /\ acked' = Restored /\ UNCHANGED <<anchored, orphaned>>
      BY <1>1 DEF StartIncarnation
  <2> HIDE DEF m
  <2>4. op'.ring = <<>> /\ op'.recs = <<>> /\ op'.meta = m /\ op'.then = "reopened"
      BY <2>3, OpFields, OpFieldsMore
  <2> QED
      BY <1>1, <2>1, <2>2, <2>3, <2>4
<1>2. CASE ~Restore.some
  <2> DEFINE m == [NoMeta EXCEPT !.st = "ok", !.started = inc + 1, !.floor = out]
  <2>1. m.st = "ok" /\ ~m.ended
      BY DEF NoMeta
  <2>2. op' = [NoOp EXCEPT !.meta = m, !.then = "opened"] /\ pc' = "unlinkCp" /\ acked' = {} /\ anchored' = {}
      BY <1>2 DEF StartIncarnation
  <2> HIDE DEF m
  <2>3. op'.ring = <<>> /\ op'.recs = <<>> /\ op'.meta = m /\ op'.then = "opened"
      BY <2>2, OpFields, OpFieldsMore
  <2> QED
      BY <1>2, <2>1, <2>2, <2>3
<1> QED
    BY <1>1, <1>2

\* The operation of a close, and those of a persist, which have no meta.json to write.
LEMMA PersistOp ==
    ASSUME TypeOK
    PROVE  /\ CloseSession => /\ op'.ring = <<>> /\ op'.recs = <<>>
                              /\ pc' = "rmdir" \/ (pc' = "truncMeta" /\ op'.then = "ended")
           /\ BeginFlush => op'.ring = <<>> /\ op'.recs = <<>> /\ op'.meta = NoMeta
           /\ BeginTick => /\ op'.ring = <<>> /\ op'.meta = NoMeta
                           /\ IF w.needsFull THEN op'.recs = <<>> /\ UNCHANGED pend
                              ELSE op'.recs = pend.recs /\ pend' = NoPending
           /\ BuildCheckpoint => op'.ring = ring /\ op'.recs = op.recs /\ op'.meta = op.meta
           /\ NeedsCheckpoint => op'.ring = op.ring /\ op'.recs = <<>> /\ op'.meta = op.meta
<1>1. ASSUME CloseSession
      PROVE  /\ op'.ring = <<>> /\ op'.recs = <<>>
             /\ pc' = "rmdir" \/ (pc' = "truncMeta" /\ op'.then = "ended")
  <2>1. CASE op' = NoOp /\ pc' = "rmdir"
      BY <2>1, OpFields
  <2>2. CASE ~(op' = NoOp /\ pc' = "rmdir")
    <3>1. PICK m : op' = [NoOp EXCEPT !.meta = m, !.then = "ended"] /\ pc' = "truncMeta"
        BY <1>1, <2>2 DEF CloseSession
    <3> QED
        BY <3>1, OpFields, OpFieldsMore
  <2> QED
      BY <2>1, <2>2
<1>2. ASSUME BeginFlush PROVE op'.ring = <<>> /\ op'.recs = <<>> /\ op'.meta = NoMeta
    BY <1>2, OpFields DEF BeginFlush
<1>3. ASSUME BeginTick
      PROVE  /\ op'.ring = <<>> /\ op'.meta = NoMeta
             /\ IF w.needsFull THEN op'.recs = <<>> /\ UNCHANGED pend
                ELSE op'.recs = pend.recs /\ pend' = NoPending
  <2>1. CASE w.needsFull
      BY <1>3, <2>1, OpFields DEF BeginTick
  <2>2. CASE ~w.needsFull
    <3>1. PICK fs : op' = [NoOp EXCEPT !.recs = fs] /\ fs = pend.recs /\ pend' = NoPending
        BY <1>3, <2>2 DEF BeginTick
    <3>2. op'.ring = <<>> /\ op'.recs = fs /\ op'.meta = NoMeta
        BY <3>1, OpFields
    <3> QED
        BY <2>2, <3>1, <3>2
  <2> QED
      BY <2>1, <2>2
<1>4. ASSUME BuildCheckpoint PROVE op'.ring = ring /\ op'.recs = op.recs /\ op'.meta = op.meta
    BY <1>4, OpFieldsMore DEF BuildCheckpoint
<1>5. ASSUME NeedsCheckpoint PROVE op'.ring = op.ring /\ op'.recs = <<>> /\ op'.meta = op.meta
    BY <1>5, OpFieldsMore DEF NeedsCheckpoint
<1> QED
    BY <1>1, <1>2, <1>3, <1>4, <1>5

\* What a push does to the pending records.
LEMMA PushFields ==
    ASSUME NEW p \in [recs : Seq(Frames), overflowed : BOOLEAN], NEW f \in Frames,
           NEW q, q \in {PushOutput(p, f), PushRecord(p, f)}
    PROVE  \/ q = p /\ p.overflowed
           \/ q.recs = <<>> /\ q.overflowed /\ f.kind # "clear"
           \/ q.recs = <<>> /\ q = PushOutput(p, f)
           \/ q.recs = Append(p.recs, f) /\ ~q.overflowed
<1> DEFINE g == Append(p.recs, f)
<1>1. /\ PushOutput(p, f) = IF p.overflowed THEN p
                            ELSE IF Len(p.recs) + 1 > PendingMax THEN [recs |-> <<>>, overflowed |-> TRUE]
                            ELSE [p EXCEPT !.recs = g]
      /\ PushRecord(p, f) = IF p.overflowed THEN p ELSE [p EXCEPT !.recs = g]
    BY DEF PushOutput, PushRecord
<1> HIDE DEF g
<1>2. ~p.overflowed => [p EXCEPT !.recs = g].recs = g /\ ~[p EXCEPT !.recs = g].overflowed
    OBVIOUS
<1> QED
    BY <1>1, <1>2 DEF g

\* Records stay records.
LEMMA PushPlain ==
    /\ Plain(<<>>)
    /\ \A s \in Seq(Frames), f \in Frames : Plain(s) /\ f.kind # "batch" => Plain(Append(s, f))
<1>1. Plain(<<>>)
    BY DEF Plain
<1>2. ASSUME NEW s \in Seq(Frames), Plain(s), NEW f \in Frames, f.kind # "batch"
      PROVE  Plain(Append(s, f))
  <2> DEFINE u == Append(s, f)
  <2>1. Len(s) \in Nat /\ Len(u) = Len(s) + 1 /\ u[Len(s) + 1] = f /\ \A i \in 1 .. Len(s) : u[i] = s[i]
      OBVIOUS
  <2> HIDE DEF u
  <2>2. ASSUME NEW i \in 1 .. Len(u) PROVE u[i].kind # "batch"
    <3>1. CASE i \in 1 .. Len(s)
        BY <1>2, <2>1, <3>1 DEF Plain
    <3>2. CASE i \notin 1 .. Len(s)
      <4>1. i = Len(s) + 1
          BY <2>1, <3>2
      <4> QED
          BY <1>2, <2>1, <4>1
    <3> QED
        BY <3>1, <3>2
  <2>3. Plain(u)
      BY <2>2 DEF Plain
  <2> QED
      BY <2>3 DEF u
<1> QED
    BY <1>1, <1>2

\* What a restore returns are chunks that were ingested.
LEMMA RestoredType ==
    ASSUME TypeOK, PairingIInv, OneInv
    PROVE  Restored \subseteq Nat \ {NoBytes} /\ UpTo(Restored, out)
<1> SUFFICES ASSUME Restored # {} PROVE Restored \subseteq Nat \ {NoBytes} /\ UpTo(Restored, out)
    BY DEF UpTo
<1>1. cp.st = "ok" /\ Restored \subseteq Content(cp, log)
    BY RestoredContent DEF OneInv
<1>2. OfOne(meta, cp, log, epoch, out)
    BY DEF OneInv, AllOfOne, MetaImages, CpImages, LogImages
<1>3. \A c \in Restored : c \in Nat /\ c # NoBytes
  <2>1. \A x \in ChunksOf(cp.ring) : x \in Nat
      BY HoldNumbers DEF TypeOK, Checkpoints
  <2>2. \A x \in OutputsOf(log.frames) : x \in Nat
      BY HoldNumbers DEF TypeOK, Logs
  <2>3. Restored \subseteq ChunksOf(cp.ring) \cup OutputsOf(log.frames) /\ NoBytes \notin Restored
      BY <1>1 DEF Content, Restored
  <2> QED
      BY <2>1, <2>2, <2>3
<1>4. UpTo(Content(cp, log), out)
    BY <1>1, <1>2 DEF OfOne
<1> QED
    BY <1>1, <1>3, <1>4 DEF UpTo

\* The chunks in memory are numbers, above 0 and not above out.
LEMMA MemoryType ==
    ASSUME TypeOK, OneInv
    PROVE  /\ Memory \subseteq Nat \ {NoBytes} /\ UpTo(Memory, out)
           /\ ChunksOf(ring) \subseteq Memory /\ OutputsOf(pend.recs) \subseteq Memory
           /\ ChunksOf(op.ring) \subseteq Memory /\ OutputsOf(op.recs) \subseteq Memory
<1>1. \A c \in Memory : c \in Nat
  <2>1. /\ \A x \in ChunksOf(ring) : x \in Nat
        /\ \A x \in ChunksOf(op.ring) : x \in Nat
        /\ \A x \in OutputsOf(pend.recs) : x \in Nat
        /\ \A x \in OutputsOf(op.recs) : x \in Nat
      BY HoldNumbers DEF TypeOK
  <2> QED
      BY <2>1 DEF Memory
<1>2. \A c \in Memory : epoch < c /\ c <= out
    BY DEF OneInv, MemoryIsNew, Above, UpTo
<1>3. epoch \in Nat
    BY DEF TypeOK
<1>4. \A c \in Memory : c # NoBytes
    BY <1>1, <1>2, <1>3 DEF NoBytes
<1> QED
    BY <1>1, <1>2, <1>4 DEF Memory, UpTo

\* Buffers is kept by every step.
LEMMA BuffersKept ==
    ASSUME TypeOK, TypeOK', PairingIInv, OneInv, AckInv, Next
    PROVE  Buffers'
<1>1. Buffers
    BY DEF AckInv
<1>2. /\ pend \in [recs : Seq(Frames), overflowed : BOOLEAN] /\ out \in Nat /\ wiped \in Nat
      /\ op.recs \in Seq(Frames)
    BY DEF TypeOK
<1>3. NoPending.recs = <<>> /\ NoOp.recs = <<>> /\ Plain(<<>>)
    BY OpFields, PushPlain
<1> DEFINE Marks == wiped <= out /\ UpTo(acked, out) /\ UpTo(anchored, out) /\ acked \cup anchored \subseteq Nat \ {NoBytes}
           NoneKept == op'.recs = <<>> /\ pc' # "append" /\ (pc' \in Gone => ~enabled')
<1>4. ASSUME UNCHANGED <<pend, enabled>>, NoneKept, Marks' PROVE Buffers'
    BY <1>1, <1>3, <1>4 DEF Buffers
<1>5. ASSUME pend' = NoPending, NoneKept, Marks' PROVE Buffers'
    BY <1>1, <1>3, <1>5 DEF Buffers
<1>6. ASSUME UNCHANGED <<wiped, out>>, acked' \subseteq acked \cup Memory, anchored' \subseteq anchored \cup Memory
      PROVE  Marks'
    BY <1>1, <1>6, MemoryType DEF Buffers, UpTo
<1>7. Marks /\ (UNCHANGED <<wiped, out, acked, anchored>> => Marks')
    BY <1>1, <1>6 DEF Buffers
<1> HIDE DEF Marks
<1>8. CASE StartIncarnation
  <2>1. ~enabled /\ UNCHANGED <<pend, enabled, wiped, out>> /\ pc' # "append" /\ op'.recs = <<>>
      BY <1>1, <1>8, StartOp DEF StartIncarnation, Buffers, Gone
  <2>2. acked' \in {Restored, {}} /\ anchored' \in {anchored, {}}
      BY <1>8 DEF StartIncarnation
  <2>3. Marks'
      BY <1>7, <2>1, <2>2, RestoredType DEF Marks, UpTo
  <2> QED
      BY <1>4, <2>1, <2>3
<1>9. CASE UnlinkCheckpoint \/ UnlinkLog \/ TruncateMeta \/ WriteMeta \/ RemoveFile
  <2>1. pc \in Gone /\ UNCHANGED <<pend, enabled, wiped, out, acked, anchored>> /\ op' \in {op, NoOp}
      BY <1>9 DEF UnlinkCheckpoint, UnlinkLog, TruncateMeta, WriteMeta, RemoveFile, session, ghosts, Gone
  <2>2. pc' # "append"
      BY <1>9 DEF UnlinkCheckpoint, UnlinkLog, TruncateMeta, WriteMeta, RemoveFile
  <2>3. op.recs = <<>> /\ ~enabled
      BY <1>1, <2>1 DEF Buffers, Gone
  <2> QED
      BY <1>3, <1>4, <1>7, <2>1, <2>2, <2>3
<1>10. CASE EnableHistory
  <2>1. UNCHANGED <<pend, op, pc, wiped, out, acked, anchored>> /\ enabled' /\ w.reg
      BY <1>10 DEF EnableHistory, ghosts
  <2>2. pc \notin Gone
      BY <2>1 DEF PairingIInv, Progress, Gone
  <2> QED
      BY <1>1, <2>1, <2>2 DEF Buffers
<1>11. CASE Tee \/ ClearHistory
  <2>1. /\ UNCHANGED <<op, pc, enabled, acked, anchored>>
        /\ out' \in {out, out + 1} /\ wiped' \in {wiped, out}
      BY <1>11 DEF Tee, ClearHistory
  <2>2. Marks'
    <3>1. wiped' \in Nat /\ out' \in Nat /\ wiped' <= out' /\ out <= out'
        BY <1>2, <1>7, <2>1 DEF Marks
    <3>2. \A c \in Nat : c <= out => c <= out'
        BY <1>2, <3>1
    <3> QED
        BY <1>7, <2>1, <3>1, <3>2 DEF Marks, UpTo
  <2>3. Plain(pend'.recs) /\ (pend'.overflowed \/ ~enabled => pend'.recs = <<>>)
    <3>1. CASE ~enabled
        BY <1>1, <1>11, <3>1 DEF Tee, ClearHistory, Buffers
    <3>2. CASE enabled
      <4>1. PICK f \in Frames : f.kind # "batch" /\ pend' \in {PushOutput(pend, f), PushRecord(pend, f)}
        <5>1. CASE Tee
          <6>1. Output(out + 1) \in Frames /\ Output(out + 1).kind # "batch"
              BY <1>2 DEF Output, Frames
          <6> QED
              BY <3>2, <5>1, <6>1 DEF Tee
        <5>2. CASE ClearHistory
          <6>1. Clear \in Frames /\ Clear.kind # "batch"
              BY DEF Clear, Frames
          <6> QED
              BY <3>2, <5>2, <6>1 DEF ClearHistory
        <5> QED
            BY <1>11, <5>1, <5>2
      <4>2. \/ pend' = pend /\ pend.overflowed
            \/ pend'.recs = <<>>
            \/ pend'.recs = Append(pend.recs, f) /\ ~pend'.overflowed
          BY <1>2, <4>1, PushFields
      <4>3. Plain(pend.recs) /\ (pend.overflowed => pend.recs = <<>>)
          BY <1>1 DEF Buffers
      <4>4. Plain(Append(pend.recs, f))
          BY <1>2, <4>1, <4>3, PushPlain
      <4> QED
          BY <1>3, <3>2, <4>2, <4>3, <4>4
    <3> QED
        BY <3>1, <3>2
  <2> QED
      BY <1>1, <2>1, <2>2, <2>3 DEF Buffers, Marks
<1>12. CASE BeginTick
  <2>1. UNCHANGED <<enabled, wiped, out, acked, anchored>> /\ pc' \notin Gone
      BY <1>12 DEF BeginTick, ghosts, Gone
  <2>2. CASE w.needsFull
      BY <1>3, <1>4, <1>7, <1>12, <2>1, <2>2 DEF BeginTick
  <2>3. CASE ~w.needsFull
    <3>1. /\ pend' = NoPending /\ op'.recs = pend.recs
          /\ pc' = IF pend.overflowed THEN "snap" ELSE IF pend.recs = <<>> THEN "idle" ELSE "append"
        BY <1>12, <2>3, PersistOp DEF BeginTick
    <3> QED
        BY <1>1, <1>3, <1>7, <2>1, <3>1 DEF Buffers, Marks
  <2> QED
      BY <2>2, <2>3
<1>13. CASE BeginFlush \/ BuildCheckpoint \/ RenameFails \/ NeedsCheckpoint
  <2>1. UNCHANGED <<pend, enabled, wiped, out, acked, anchored>> /\ pc' \notin Gone /\ pc' # "append"
      BY <1>13 DEF BeginFlush, BuildCheckpoint, RenameFails, AfterFailedCheckpoint, NeedsCheckpoint, session, ghosts, Gone
  <2>2. op'.recs = <<>>
    <3>1. pc = "snap" => op.recs = <<>>
        BY <1>1 DEF Buffers
    <3> QED
        BY <1>3, <1>13, <3>1, PersistOp DEF BuildCheckpoint, RenameFails, AfterFailedCheckpoint
  <2> QED
      BY <1>4, <1>7, <2>1, <2>2
<1>14. CASE CloseSession
  <2>1. /\ pend' = NoPending /\ ~enabled' /\ acked' = {} /\ anchored' = {} /\ UNCHANGED <<out, wiped>>
        /\ op'.recs = <<>> /\ pc' # "append"
      BY <1>14, PersistOp DEF CloseSession
  <2> QED
      BY <1>5, <1>6, <2>1
<1>15. CASE RenameCheckpoint
  <2>1. /\ UNCHANGED <<op, pend, enabled, wiped, out>> /\ pc = "rename" /\ pc' = "reset"
        /\ acked' \subseteq acked /\ anchored' = ChunksOf(op.ring)
      BY <1>15 DEF RenameCheckpoint, session
  <2>2. op.recs = <<>>
      BY <1>1, <2>1 DEF Buffers
  <2>3. Marks'
      BY <1>6, <2>1, MemoryType
  <2> QED
      BY <1>4, <2>1, <2>2, <2>3 DEF Gone
<1>16. CASE ResetLog \/ ResetLogFails
  <2>1. /\ UNCHANGED <<pend, enabled, wiped, out, anchored>> /\ op' = NoOp /\ pc' = "idle"
        /\ acked' = ChunksOf(op.ring)
      BY <1>16 DEF ResetLog, ResetLogFails, AfterFailedCheckpoint, session
  <2>2. Marks'
      BY <1>6, <2>1, MemoryType
  <2> QED
      BY <1>3, <1>4, <2>1, <2>2 DEF Gone
<1>17. CASE AppendIncrements \/ AppendFails
  <2>1. /\ UNCHANGED <<pend, enabled, wiped, out, anchored>> /\ op' = NoOp /\ pc' = "idle"
        /\ acked' \in {acked, AckedAfter}
      BY <1>17 DEF AppendIncrements, AppendFails, session, ghosts
  <2>2. AckedAfter \subseteq acked \cup OutputsOf(op.recs)
      BY DEF AckedAfter, OutputsOf, IsOutput
  <2>3. Marks'
      BY <1>6, <2>1, <2>2, MemoryType
  <2> QED
      BY <1>3, <1>4, <2>1, <2>3 DEF Gone
<1>18. CASE Crash \/ PowerLoss
  <2>1. /\ pend' = NoPending /\ ~enabled' /\ op' = NoOp /\ pc' = "down" /\ UNCHANGED <<out, wiped, anchored>>
        /\ acked' \in {acked, anchored}
      BY <1>18 DEF Crash, PowerLoss, Die, ghosts
  <2>2. Marks'
      BY <1>7, <2>1 DEF Marks
  <2> QED
      BY <1>3, <1>5, <2>1, <2>2
<1>19. CASE WriteBack
  <2>1. UNCHANGED <<pend, enabled, op, pc, out, wiped, acked, anchored>>
      BY <1>19 DEF WriteBack, session, ghosts
  <2> QED
      BY <1>1, <2>1 DEF Buffers
<1> QED
    BY <1>8, <1>9, <1>10, <1>11, <1>12, <1>13, <1>14, <1>15, <1>16, <1>17, <1>18, <1>19 DEF Next

\* A persist registers no writer, and only a checkpoint takes its need for one away.
LEMMA WriterSteps ==
    ASSUME TypeOK, \/ RenameCheckpoint \/ ResetLog \/ RenameFails \/ ResetLogFails
                   \/ AppendIncrements \/ AppendFails
    PROVE  /\ w'.reg => w.reg
           /\ ~ResetLog /\ w'.reg /\ ~w'.needsFull => w.reg /\ ~w.needsFull
           /\ AppendFails => w'.needsFull
<1>1. ~NoWriter.reg /\ NoWriter.needsFull
    BY DEF NoWriter
<1>2. CASE RenameCheckpoint \/ RenameFails
  <2>1. w' \in {NoWriter, ResolveLogState} /\ ~AppendFails
      BY <1>2 DEF RenameCheckpoint, RenameFails, AppendFails
  <2> QED
      BY <1>1, <2>1, ResolveKeeps
<1>3. CASE ResetLog
  <2>1. w'.reg = w.reg /\ ~AppendFails
      BY <1>3 DEF ResetLog, WriterAfterReset, TypeOK, Writers, AppendFails
  <2> QED
      BY <1>3, <2>1
<1>4. CASE ResetLogFails
  <2>1. w' \in {w, NoWriter} /\ ~AppendFails
      BY <1>4 DEF ResetLogFails, AppendFails
  <2> QED
      BY <1>1, <2>1
<1>5. CASE AppendIncrements
  <2>1. w'.reg = w.reg /\ w'.needsFull = w.needsFull
      BY <1>5 DEF AppendIncrements, TypeOK, Writers
  <2>2. AppendFails => w'.needsFull
      BY DEF AppendFails, ForceFullAnchor, TypeOK, Writers
  <2> QED
      BY <2>1, <2>2
<1>6. CASE AppendFails
  <2>1. w'.reg = w.reg /\ w'.needsFull
      BY <1>6 DEF AppendFails, ForceFullAnchor, TypeOK, Writers
  <2> QED
      BY <2>1
<1> QED
    BY <1>2, <1>3, <1>4, <1>5, <1>6

\* Sessions is kept by every step.
LEMMA SessionsKept ==
    ASSUME TypeOK, TypeOK', PairingIInv, OneInv, AckInv, Next
    PROVE  Sessions'
<1>1. Sessions
    BY DEF AckInv
<1>2. ~NoWriter.reg
    BY DEF NoWriter
<1>3. pc \in Gone => ~w.reg
    BY DEF PairingIInv, Progress, Gone
<1>4. CASE StartIncarnation
  <2>1. pc = "down" /\ w' = w
      BY <1>4 DEF StartIncarnation
  <2>2. ~w'.reg
      BY <1>3, <2>1 DEF Gone
  <2> QED
      BY <1>4, <2>2, StartOp DEF Sessions, Opening
<1>5. CASE UnlinkCheckpoint \/ UnlinkLog \/ TruncateMeta
  <2>1. /\ pc \in Opening \cap Gone /\ pc' \in Opening /\ pc' # "unlinkCp" /\ UNCHANGED <<w, op, acked, anchored>>
        /\ cp' = (IF UnlinkCheckpoint THEN NoCheckpoint ELSE cp)
        /\ pc = "unlinkCp" => UnlinkCheckpoint
      BY <1>5 DEF UnlinkCheckpoint, UnlinkLog, TruncateMeta, ghosts, Opening, Gone
  <2>2. NoCheckpoint.st = "absent"
      BY DEF NoCheckpoint
  <2> QED
      BY <1>1, <1>3, <2>1, <2>2 DEF Sessions, Opening
<1>6. CASE WriteMeta
  <2>1. /\ pc = "writeMeta" /\ meta' = op.meta /\ w' = WriterAfter(op.then) /\ UNCHANGED <<acked, anchored>>
        /\ pc' = IF op.then = "ended" THEN "rmdir" ELSE "idle"
      BY <1>6 DEF WriteMeta, ghosts
  <2>2. w'.reg => op.then \in {"opened", "reopened"}
      BY <1>2, <2>1 DEF WriterAfter
  <2> QED
      BY <1>1, <2>1, <2>2 DEF Sessions, Opening, Eligible
<1>7. CASE EnableHistory \/ Tee \/ ClearHistory
  <2>1. UNCHANGED <<disk, durable, w, pc, op, acked, anchored>>
      BY <1>7 DEF EnableHistory, Tee, ClearHistory, ghosts
  <2> QED
      BY <1>1, <2>1 DEF Sessions, Eligible, disk, durable
<1>8. CASE \/ BeginTick \/ BeginFlush \/ BuildCheckpoint \/ NeedsCheckpoint
           \/ RenameCheckpoint \/ ResetLog \/ RenameFails \/ ResetLogFails \/ AppendIncrements \/ AppendFails
  <2>1. pc' \in {"snap", "idle", "append", "rename", "reset"} /\ meta' = meta
      BY <1>8 DEF BeginTick, BeginFlush, BuildCheckpoint, NeedsCheckpoint, RenameCheckpoint, ResetLog,
                  RenameFails, ResetLogFails, AfterFailedCheckpoint, AppendIncrements, AppendFails, disk
  <2>2. w'.reg => w.reg
    <3>1. CASE BeginTick \/ BeginFlush \/ BuildCheckpoint \/ NeedsCheckpoint
        BY <3>1 DEF BeginTick, BeginFlush, BuildCheckpoint, NeedsCheckpoint
    <3> QED
        BY <1>8, <3>1, WriterSteps
  <2> QED
      BY <1>1, <2>1, <2>2 DEF Sessions, Opening, Eligible
<1>9. CASE CloseSession
  <2>1. w' = NoWriter /\ acked' = {} /\ anchored' = {}
      BY <1>9 DEF CloseSession
  <2> QED
      BY <1>2, <1>9, <2>1, PersistOp DEF Sessions, Opening
<1>10. CASE RemoveFile
  <2>1. /\ pc = "rmdir" /\ UNCHANGED <<w, acked, anchored>>
        /\ pc' = "rmdir" \/ (pc' = "down" /\ meta' = meta /\ meta.st = "absent")
      BY <1>10 DEF RemoveFile, ghosts, disk
  <2> QED
      BY <1>1, <1>3, <2>1 DEF Sessions, Opening, Gone
<1>11. CASE Crash \/ PowerLoss
  <2>1. w' = NoWriter /\ pc' = "down" /\ dmeta' = meta' /\ dcp' = cp'
      BY <1>11 DEF Crash, PowerLoss, Die
  <2> QED
      BY <1>2, <2>1 DEF Sessions, Opening
<1>12. CASE WriteBack
  <2>1. UNCHANGED <<meta, cp, w, pc, op, acked, anchored>> /\ dmeta' = meta /\ dcp' = cp
      BY <1>12 DEF WriteBack, disk, ghosts
  <2> QED
      BY <1>1, <2>1 DEF Sessions, Eligible
<1> QED
    BY <1>4, <1>5, <1>6, <1>7, <1>8, <1>9, <1>10, <1>11, <1>12 DEF Next

\* While nothing happens to the files, what is said of the checkpoint depends on the
\* marks and on where the operation stands.
LEMMA CheckpointStays ==
    ASSUME OwnCheckpoint, UNCHANGED <<cp, dcp>>, acked' \subseteq acked, anchored' \in {anchored, {}},
           \A m \in MetaImages' : m.st = "ok" => m \in MetaImages,
           pc' # "rename" \/ acked' \cap ChunksOf(ring)' \subseteq ChunksOf(op'.ring), pc' # "reset",
           w'.reg /\ ~w'.needsFull => w.reg /\ ~w.needsFull /\ inc' = inc
    PROVE  OwnCheckpoint'
<1>1. acked' # {} \/ anchored' # {} => acked # {} \/ anchored # {}
    OBVIOUS
<1>2. acked' # {} \/ anchored' # {} => /\ dcp' = cp' /\ cp'.st = "ok"
                                       /\ \A m \in MetaImages' : m.st = "ok" => m.started <= cp'.at
    BY <1>1 DEF OwnCheckpoint
<1>3. anchored' # {} => cp'.st = "ok" /\ anchored' = ChunksOf(cp'.ring)
    BY DEF OwnCheckpoint
<1>4. w'.reg /\ ~w'.needsFull => cp'.st = "ok" /\ cp'.at = inc' /\ dcp' = cp'
    BY DEF OwnCheckpoint
<1> QED
    BY <1>2, <1>3, <1>4 DEF OwnCheckpoint

\* Nothing acknowledged and no writer: nothing to say.
LEMMA NothingOwned ==
    ASSUME acked' = {}, anchored' = {}, ~w'.reg, pc' \notin {"rename", "reset"}
    PROVE  OwnCheckpoint'
BY DEF OwnCheckpoint

\* A checkpoint of this incarnation is not older than any session.
LEMMA NewestCheckpoint ==
    ASSUME TypeOK, OneInv
    PROVE  \A m \in MetaImages : m.started <= inc
BY DEF OneInv, Ages

\* OwnCheckpoint is kept by every step.
LEMMA OwnCheckpointKept ==
    ASSUME TypeOK, TypeOK', PairingIInv, OneInv, AckInv, Next
    PROVE  OwnCheckpoint'
<1>1. OwnCheckpoint /\ Sessions /\ Buffers
    BY DEF AckInv
<1>2. ~NoWriter.reg /\ NoMeta.st = "absent"
    BY DEF NoWriter, NoMeta
<1>3. pc \in Gone => ~w.reg
    BY DEF PairingIInv, Progress, Gone
<1>4. CASE StartIncarnation
  <2>1. pc = "down" /\ UNCHANGED <<w, meta, dmeta, cp, dcp>>
      BY <1>4 DEF StartIncarnation, disk, durable
  <2>2. ~w'.reg
      BY <1>3, <2>1 DEF Gone
  <2>3. CASE ~Restore.some
    <3>1. acked' = {} /\ anchored' = {} /\ pc' = "unlinkCp"
        BY <1>4, <2>3, StartOp
    <3> QED
        BY <2>2, <3>1, NothingOwned
  <2>4. CASE Restore.some
    <3>1. /\ acked' = Restored /\ anchored' = anchored /\ pc' = "truncMeta" /\ meta.st = "ok"
          /\ op'.meta.started = meta.started
        BY <1>4, <2>4, StartOp
    <3>2. dmeta = meta /\ dcp = cp
        BY <1>1, <2>1, <3>1 DEF Sessions
    <3>3. MetaImages' = {meta, op'.meta, NoMeta}
        BY <2>1, <3>2 DEF MetaImages
    <3>4. acked' # {} \/ anchored' # {} => cp.st = "ok" /\ meta.started <= cp.at
      <4>1. anchored # {} => cp.st = "ok" /\ meta.started <= cp.at
          BY <1>1, <3>1 DEF OwnCheckpoint, MetaImages
      <4>2. Restored # {} => cp.st = "ok" /\ meta.started <= cp.at
          BY RestoredIsKept DEF OneInv
      <4> QED
          BY <3>1, <4>1, <4>2
    <3>5. acked' # {} \/ anchored' # {} =>
            /\ cp'.st = "ok" /\ dcp' = cp'
            /\ \A m \in MetaImages' : m.st = "ok" => m.started <= cp'.at
        BY <1>2, <2>1, <3>1, <3>2, <3>3, <3>4
    <3>6. anchored' # {} => cp'.st = "ok" /\ anchored' = ChunksOf(cp'.ring)
        BY <1>1, <2>1, <3>1 DEF OwnCheckpoint
    <3> QED
        BY <2>2, <3>1, <3>5, <3>6 DEF OwnCheckpoint
  <2> QED
      BY <2>3, <2>4
<1>5. CASE UnlinkCheckpoint \/ UnlinkLog \/ RemoveFile
  <2>1. /\ pc \in {"unlinkCp", "unlinkLog", "rmdir"} /\ UNCHANGED <<w, acked, anchored>>
        /\ pc' \notin {"rename", "reset"}
      BY <1>5 DEF UnlinkCheckpoint, UnlinkLog, RemoveFile, ghosts
  <2>2. ~w.reg
      BY <1>3, <2>1 DEF Gone
  <2>3. pc # "rmdir" => op.then = "opened"
      BY <2>1 DEF PairingIInv, Progress
  <2>4. acked = {} /\ anchored = {}
      BY <1>1, <2>1, <2>3 DEF Sessions, Opening
  <2> QED
      BY <2>1, <2>2, <2>4, NothingOwned
<1>6. CASE TruncateMeta \/ WriteMeta
  <2>1. /\ pc \in Gone /\ UNCHANGED <<cp, dcp, dmeta, acked, anchored>> /\ pc' \notin {"rename", "reset"}
        /\ op' \in {op, NoOp} /\ (meta' = op.meta \/ meta'.st = "torn")
        /\ w' = w \/ w' = WriterAfter(op.then)
      BY <1>6 DEF TruncateMeta, WriteMeta, durable, ghosts, Gone, TypeOK, Metas
  <2>2. \A m \in MetaImages' : m.st = "ok" => m \in MetaImages
      BY <2>1, OpFields DEF MetaImages
  <2>3. w'.reg => w'.needsFull
    <3>1. ~w.reg
        BY <1>3, <2>1
    <3>2. WriterAfter(op.then).needsFull
        BY DEF WriterAfter, NoWriter
    <3> QED
        BY <2>1, <3>1, <3>2
  <2> QED
      BY <1>1, <2>1, <2>2, <2>3, CheckpointStays
<1>7. CASE Tee \/ ClearHistory
  <2>1. UNCHANGED <<meta, cp, log, dmeta, dcp, dlog, op, w, pc, inc, ids, acked, anchored>>
      BY <1>7 DEF Tee, ClearHistory, disk, durable
  <2>2. acked \cap ChunksOf(ring)' \subseteq acked \cap ChunksOf(ring)
    <3>1. CASE ClearHistory
        BY <3>1, EmptyHolds DEF ClearHistory
    <3>2. CASE Tee
      <4>1. ChunksOf(ring)' \subseteq ChunksOf(ring) \cup {out + 1}
          BY <3>2, RingHolds DEF Tee, TypeOK
      <4>2. out + 1 \notin acked
        <5>1. out \in Nat /\ \A c \in acked : c <= out
            BY <1>1 DEF Buffers, UpTo, TypeOK
        <5> QED
            BY <5>1
      <4> QED
          BY <4>1, <4>2
    <3> QED
        BY <1>7, <3>1, <3>2
  <2>3. MetaImages' = MetaImages
      BY <2>1 DEF MetaImages
  <2> QED
      BY <1>1, <2>1, <2>2, <2>3 DEF OwnCheckpoint
<1>8. CASE EnableHistory \/ BeginTick \/ BeginFlush \/ BuildCheckpoint \/ RenameFails \/ NeedsCheckpoint
  <2>1. UNCHANGED <<meta, cp, log, dmeta, dcp, dlog, ring, inc, acked, anchored>>
      BY <1>8 DEF EnableHistory, BeginTick, BeginFlush, BuildCheckpoint, RenameFails, NeedsCheckpoint,
                  disk, durable, session, ghosts
  <2>2. CASE EnableHistory
    <3>1. UNCHANGED <<w, pc, op, ids>>
        BY <2>2 DEF EnableHistory, ghosts
    <3>2. MetaImages' = MetaImages
        BY <2>1, <3>1 DEF MetaImages
    <3> QED
        BY <1>1, <2>1, <3>1, <3>2 DEF OwnCheckpoint
  <2>3. CASE BeginTick \/ BeginFlush \/ BuildCheckpoint \/ RenameFails \/ NeedsCheckpoint
    <3>1. op'.meta \in {NoMeta, op.meta}
        BY <2>3, PersistOp, OpFields DEF RenameFails, AfterFailedCheckpoint
    <3>2. \A m \in MetaImages' : m.st = "ok" => m \in MetaImages
        BY <2>1, <3>1 DEF MetaImages
    <3>3. pc' # "reset" /\ (pc' = "rename" => BuildCheckpoint)
        BY <2>3 DEF BeginTick, BeginFlush, BuildCheckpoint, RenameFails, AfterFailedCheckpoint, NeedsCheckpoint
    <3>4. pc' = "rename" => op'.ring = ring
        BY <3>3, PersistOp
    <3>5. w'.reg /\ ~w'.needsFull => w.reg /\ ~w.needsFull
      <4>1. CASE RenameFails
        <5>1. ~ResetLog
            BY <4>1 DEF RenameFails, ResetLog
        <5> QED
            BY <4>1, <5>1, WriterSteps
      <4>2. CASE ~RenameFails
          BY <2>3, <4>2 DEF BeginTick, BeginFlush, BuildCheckpoint, NeedsCheckpoint
      <4> QED
          BY <4>1, <4>2
    <3> QED
        BY <1>1, <2>1, <3>2, <3>3, <3>4, <3>5, CheckpointStays
  <2> QED
      BY <1>8, <2>2, <2>3
<1>9. CASE CloseSession
  <2>1. w' = NoWriter /\ acked' = {} /\ anchored' = {}
      BY <1>9 DEF CloseSession
  <2>2. pc' \notin {"rename", "reset"}
      BY <1>9, PersistOp
  <2> QED
      BY <1>2, <2>1, <2>2, NothingOwned
<1>10. CASE RenameCheckpoint
  <2>1. /\ pc = "rename" /\ pc' = "reset" /\ UNCHANGED <<meta, dmeta, log, op, ring, inc, ids>>
        /\ cp'.st = "ok" /\ cp'.ring = op.ring /\ cp'.at = inc /\ dcp' = cp'
        /\ acked' = acked \cap ChunksOf(ring) /\ anchored' = ChunksOf(op.ring) /\ dlog' \in {NoLog, dlog}
      BY <1>10 DEF RenameCheckpoint, SyncedFile, SyncedDirectory, session
  <2>2. log'.base < ids' /\ dlog'.base < ids'
    <3>1. log.base < ids /\ dlog.base < ids
        BY <2>1 DEF OneInv, Ages, LogImages
    <3>2. NoLog.base = 0
        BY DEF NoLog
    <3>3. log.base \in Nat /\ ids \in Nat
        BY DEF TypeOK, Logs
    <3>4. 0 < ids
        BY <3>1, <3>3
    <3> QED
        BY <2>1, <3>1, <3>2, <3>4
  <2>3. acked' \subseteq ChunksOf(op'.ring)
      BY <1>1, <2>1 DEF OwnCheckpoint
  <2>4. \A m \in MetaImages' : m.started <= cp'.at
      BY <2>1, NewestCheckpoint DEF MetaImages
  <2> QED
      BY <2>1, <2>2, <2>3, <2>4 DEF OwnCheckpoint
<1>11. CASE ResetLog \/ ResetLogFails
  <2>1. /\ pc = "reset" /\ pc' = "idle" /\ op' = NoOp /\ UNCHANGED <<meta, dmeta, cp, dcp, inc, anchored>>
      BY <1>11 DEF ResetLog, ResetLogFails, AfterFailedCheckpoint, session, durable
  <2>2. cp.at = inc /\ cp.st = "ok" /\ dcp = cp
      BY <1>1, <2>1 DEF OwnCheckpoint, PairingIInv, Progress
  <2>3. MetaImages' \subseteq MetaImages
      BY <2>1, OpFields DEF MetaImages
  <2>4. \A m \in MetaImages' : m.started <= cp.at
      BY <2>2, <2>3, NewestCheckpoint
  <2> QED
      BY <1>1, <2>1, <2>2, <2>4 DEF OwnCheckpoint
<1>12. CASE AppendIncrements \/ AppendFails
  <2>1. /\ pc = "append" /\ pc' = "idle" /\ op' = NoOp /\ UNCHANGED <<meta, dmeta, cp, dcp, inc, anchored>>
      BY <1>12 DEF AppendIncrements, AppendFails, session, durable, ghosts
  <2>2. cp.at = inc /\ cp.st = "ok" /\ dcp = cp
    <3>1. w.reg /\ ~w.needsFull
        BY <2>1 DEF PairingIInv, Progress
    <3> QED
        BY <1>1, <3>1 DEF OwnCheckpoint
  <2>3. MetaImages' \subseteq MetaImages
      BY <2>1, OpFields DEF MetaImages
  <2>4. \A m \in MetaImages' : m.started <= cp.at
      BY <2>2, <2>3, NewestCheckpoint
  <2> QED
      BY <1>1, <2>1, <2>2, <2>4 DEF OwnCheckpoint
<1>13. CASE Crash \/ PowerLoss
  <2>1. /\ pc' = "down" /\ w' = NoWriter /\ op' = NoOp /\ anchored' = anchored
        /\ acked' \in {acked, anchored} /\ cp' \in {cp, dcp} /\ dcp' = cp' /\ dmeta' = meta'
        /\ meta' \in {meta, dmeta} \/ meta'.st = "torn"
      BY <1>13 DEF Crash, PowerLoss, Die, ghosts, TypeOK, Metas
  <2>2. acked' # {} \/ anchored' # {} => cp' = cp /\ (acked # {} \/ anchored # {})
      BY <1>1, <2>1 DEF OwnCheckpoint
  <2>3. \A m \in MetaImages' : m.st = "ok" => m \in MetaImages
      BY <2>1, OpFields DEF MetaImages
  <2>4. acked' # {} \/ anchored' # {} => /\ cp'.st = "ok"
                                         /\ \A m \in MetaImages' : m.st = "ok" => m.started <= cp'.at
      BY <1>1, <2>2, <2>3 DEF OwnCheckpoint
  <2>5. anchored' # {} => cp'.st = "ok" /\ anchored' = ChunksOf(cp'.ring)
      BY <1>1, <2>1, <2>2 DEF OwnCheckpoint
  <2> QED
      BY <1>2, <2>1, <2>4, <2>5 DEF OwnCheckpoint
<1>14. CASE WriteBack
  <2>1. /\ UNCHANGED <<meta, cp, log, w, pc, op, ring, inc, ids, acked, anchored>>
        /\ dmeta' = meta /\ dcp' = cp /\ dlog' = log
      BY <1>14 DEF WriteBack, disk, session, ghosts
  <2>2. MetaImages' \subseteq MetaImages
      BY <2>1 DEF MetaImages
  <2> QED
      BY <1>1, <2>1, <2>2 DEF OwnCheckpoint
<1> QED
    BY <1>4, <1>5, <1>6, <1>7, <1>8, <1>9, <1>10, <1>11, <1>12, <1>13, <1>14 DEF Next

\* A log with a header and no more.
LEMMA FreshLogDecodes ==
    ASSUME NEW g, NEW b
    PROVE  LET l == FreshLog(g, b) IN
           /\ l.st = "ok" /\ l.gen = g /\ l.base = b /\ l.frames = <<>> /\ DecodesLog(l)
           /\ OutputBytes(l.frames) = 0 /\ ~Torn(l.frames)
<1> DEFINE l == FreshLog(g, b)
<1>1. l.st = "ok" /\ l.gen = g /\ l.base = b /\ l.frames = <<>>
    BY DEF FreshLog
<1> HIDE DEF l
<1>2. 1 .. Len(l.frames) = {}
    BY <1>1
<1>3. DecodesLog(l) /\ ~Torn(l.frames)
    BY <1>1, <1>2 DEF DecodesLog, Torn
<1>4. OutputBytes(l.frames) = 0
    BY <1>2, FS_EmptySet DEF OutputBytes
<1> QED
    BY <1>1, <1>3, <1>4 DEF l

\* SureLog is kept by every step.
LEMMA SureLogKept ==
    ASSUME TypeOK, TypeOK', PairingIInv, OneInv, AckInv, Next
    PROVE  SureLog'
<1> SUFFICES ASSUME w'.reg, ~w'.needsFull, ~orphaned', pc' # "reset"
             PROVE  /\ log'.st = "ok" /\ log'.gen = cp'.gen /\ DecodesLog(log')
                    /\ w'.appended = OutputBytes(log'.frames) /\ ~Torn(log'.frames)
    BY DEF SureLog
<1>1. SureLog
    BY DEF AckInv
<1>2. ~NoWriter.reg
    BY DEF NoWriter
<1>3. pc \in Gone => ~w.reg
    BY DEF PairingIInv, Progress, Gone
<1>4. ASSUME UNCHANGED <<cp, log>>, w' = w, orphaned' = orphaned, pc # "reset"
      PROVE  /\ log'.st = "ok" /\ log'.gen = cp'.gen /\ DecodesLog(log')
             /\ w'.appended = OutputBytes(log'.frames) /\ ~Torn(log'.frames)
    BY <1>1, <1>4 DEF SureLog
<1>5. CASE StartIncarnation \/ UnlinkCheckpoint \/ UnlinkLog \/ TruncateMeta \/ RemoveFile
  <2>1. pc \in Gone /\ w' = w
      BY <1>5 DEF StartIncarnation, UnlinkCheckpoint, UnlinkLog, TruncateMeta, RemoveFile, Gone
  <2> QED
      BY <1>3, <2>1
<1>6. CASE WriteMeta \/ CloseSession \/ Crash \/ PowerLoss
  <2>1. w' = NoWriter \/ w' = WriterAfter(op.then)
      BY <1>6 DEF WriteMeta, CloseSession, Crash, PowerLoss, Die
  <2>2. WriterAfter(op.then).needsFull
      BY DEF WriterAfter, NoWriter
  <2> QED
      BY <1>2, <2>1, <2>2
<1>7. CASE EnableHistory \/ Tee \/ ClearHistory \/ WriteBack
  <2>1. UNCHANGED <<cp, log, w, orphaned, pc>>
      BY <1>7 DEF EnableHistory, Tee, ClearHistory, WriteBack, disk, ghosts
  <2> QED
      BY <1>4, <2>1
<1>8. CASE BeginTick \/ BeginFlush \/ BuildCheckpoint \/ NeedsCheckpoint
  <2>1. UNCHANGED <<cp, log, w, orphaned>> /\ pc # "reset"
      BY <1>8 DEF BeginTick, BeginFlush, BuildCheckpoint, NeedsCheckpoint, disk, ghosts
  <2> QED
      BY <1>4, <2>1
<1>9. CASE RenameCheckpoint
    BY <1>9 DEF RenameCheckpoint
<1>10. CASE RenameFails
  <2>1. UNCHANGED <<cp, log, orphaned>> /\ pc # "reset" /\ w' \in {NoWriter, ResolveLogState} /\ ~ResetLog
      BY <1>10 DEF RenameFails, ResetLog, disk, ghosts
  <2>2. w.reg /\ ~w.needsFull
      BY <1>10, <2>1, WriterSteps
  <2>3. w' = w
      BY <1>2, <2>1, <2>2 DEF PairingIInv, Progress, ResolveLogState
  <2> QED
      BY <1>4, <2>1, <2>3
<1>11. CASE ResetLog
  <2>1. pc = "reset" /\ log' = FreshLog(w.gen + 1, ids) /\ w' = WriterAfterReset(w) /\ cp' = cp
      BY <1>11 DEF ResetLog
  <2>2. cp.gen = w.gen + 1
      BY <2>1 DEF PairingIInv, Progress
  <2>3. w'.appended = 0
      BY <2>1 DEF WriterAfterReset, TypeOK, Writers
  <2> QED
      BY <2>1, <2>2, <2>3, FreshLogDecodes
<1>12. CASE ResetLogFails
    BY <1>2, <1>12 DEF ResetLogFails
<1>13. CASE AppendIncrements
  <2>1. /\ pc = "append" /\ log' = WithFrames(HeaderedLog, Batch) /\ UNCHANGED <<cp, orphaned>>
        /\ w'.appended = BatchSeq
      BY <1>13 DEF AppendIncrements, TypeOK, Writers
  <2> QED
      BY <2>1, WholeAppend
<1>14. CASE AppendFails
    BY <1>14, WriterSteps
<1> QED
    BY <1>5, <1>6, <1>7, <1>8, <1>9, <1>10, <1>11, <1>12, <1>13, <1>14 DEF Next

\* LogClears is kept by every step.
LEMMA LogClearsKept ==
    ASSUME TypeOK, TypeOK', PairingIInv, OneInv, AckInv, Next
    PROVE  LogClears'
<1>1. LogClears /\ Buffers /\ Sessions /\ OwnCheckpoint
    BY DEF AckInv
<1>2. wiped \in Nat /\ wiped' \in Nat /\ out \in Nat /\ wiped <= out /\ anchored \subseteq Nat
    BY <1>1 DEF TypeOK, Buffers
<1>3. ASSUME anchored' = {} PROVE LogClears'
    BY <1>3, NoneCovered DEF LogClears
<1>4. ASSUME UNCHANGED <<cp, log, dlog, anchored, orphaned>>, wiped' \in {wiped, out} PROVE LogClears'
  <2>1. wiped <= wiped'
      BY <1>2, <1>4
  <2>2. \A fs : LogCovers(fs, anchored, wiped) => LogCovers(fs, anchored', wiped')
      BY <1>2, <1>4, <2>1, CoversLess
  <2> QED
      BY <1>1, <1>4, <2>2 DEF LogClears, LogImages
<1>5. ASSUME UNCHANGED <<cp, anchored, wiped, orphaned>>,
             NEW t, log' \in {log, t}, dlog' \in {log, dlog, t},
             ~orphaned /\ cp.st = "ok" /\ t.st = "ok" /\ t.base = cp.id => LogCovers(t.frames, anchored, wiped)
      PROVE  LogClears'
    BY <1>1, <1>5 DEF LogClears, LogImages
<1>6. NoLog.st = "absent" /\ BadLog.st = "bad" /\ NoCheckpoint.st = "absent"
    BY DEF NoLog, BadLog, NoCheckpoint
<1>7. CASE StartIncarnation
  <2>1. UNCHANGED <<cp, log, dlog, wiped>>
      BY <1>7 DEF StartIncarnation, disk, durable
  <2>2. anchored' = {} \/ UNCHANGED <<anchored, orphaned>>
      BY <1>7, StartOp
  <2> QED
      BY <1>3, <1>4, <2>1, <2>2
<1>8. CASE UnlinkCheckpoint \/ UnlinkLog \/ RemoveFile
  <2>1. UNCHANGED anchored /\ pc \in {"unlinkCp", "unlinkLog", "rmdir"}
      BY <1>8 DEF UnlinkCheckpoint, UnlinkLog, RemoveFile, ghosts
  <2>2. pc # "rmdir" => op.then = "opened"
      BY <2>1 DEF PairingIInv, Progress
  <2>3. anchored = {}
      BY <1>1, <2>1, <2>2 DEF Sessions, Opening
  <2> QED
      BY <1>3, <2>1, <2>3
<1>9. CASE \/ TruncateMeta \/ WriteMeta \/ EnableHistory \/ Tee \/ ClearHistory \/ BeginTick \/ BeginFlush
           \/ BuildCheckpoint \/ RenameFails \/ NeedsCheckpoint
  <2>1. UNCHANGED <<cp, log, dlog, anchored, orphaned>> /\ wiped' \in {wiped, out}
      BY <1>9 DEF TruncateMeta, WriteMeta, EnableHistory, Tee, ClearHistory, BeginTick, BeginFlush,
                  BuildCheckpoint, RenameFails, NeedsCheckpoint, disk, durable, ghosts
  <2> QED
      BY <1>4, <2>1
<1>10. CASE CloseSession
    BY <1>3, <1>10 DEF CloseSession
<1>11. CASE RenameCheckpoint
  <2>1. log' = log /\ dlog' \in {NoLog, dlog} /\ cp'.id = ids /\ pc = "rename"
      BY <1>11 DEF RenameCheckpoint, SyncedDirectory
  <2>2. log.base # ids /\ dlog.base # ids
    <3>1. log.base < ids /\ dlog.base < ids
        BY <2>1 DEF OneInv, Ages, LogImages
    <3>2. log.base \in Nat /\ dlog.base \in Nat /\ ids \in Nat
        BY DEF TypeOK, Logs
    <3> QED
        BY <3>1, <3>2
  <2> QED
      BY <1>6, <2>1, <2>2 DEF LogClears, LogImages
<1>12. CASE ResetLog
  <2>1. log' = FreshLog(w.gen + 1, ids) /\ UNCHANGED <<cp, dlog>> /\ pc = "reset"
      BY <1>12 DEF ResetLog, durable
  <2>2. dlog.base # cp.id
    <3>1. dlog.base < ids /\ cp.id = ids
        BY <1>1, <2>1 DEF OwnCheckpoint, PairingIInv, Progress
    <3>2. dlog.base \in Nat /\ ids \in Nat
        BY DEF TypeOK, Logs
    <3> QED
        BY <3>1, <3>2
  <2>3. LogCovers(log'.frames, anchored', wiped')
      BY <2>1, FreshLogDecodes, NoneCovered
  <2> QED
      BY <2>1, <2>2, <2>3 DEF LogClears, LogImages
<1>13. CASE ResetLogFails
  <2>1. log' \in {log, BadLog} /\ UNCHANGED <<cp, dlog, anchored, wiped>>
      BY <1>13 DEF ResetLogFails, durable
  <2>2. ~orphaned' => ~orphaned
      BY <1>13 DEF ResetLogFails
  <2> QED
      BY <1>1, <1>6, <2>1, <2>2 DEF LogClears, LogImages
<1>14. ASSUME pc = "append", NEW t \in TornAppends(HeaderedLog) \cup {WithFrames(HeaderedLog, Batch)}
       PROVE  ~orphaned /\ cp.st = "ok" /\ t.st = "ok" /\ t.base = cp.id => LogCovers(t.frames, anchored, wiped)
  <2>1. CASE t \in TornAppends(HeaderedLog)
    <3>1. /\ t.st = log.st /\ t.base = log.base
          /\ \A X, n : log.st = "ok" /\ LogCovers(log.frames, X, n) => LogCovers(t.frames, X, n)
        BY <1>1, <1>14, <2>1, TornAppend
    <3> QED
        BY <1>1, <3>1 DEF LogClears, LogImages
  <2>2. CASE t = WithFrames(HeaderedLog, Batch)
      BY <1>14, <2>2, WholeAppend
  <2> QED
      BY <1>14, <2>1, <2>2
<1>15. CASE AppendIncrements \/ AppendFails
  <2>1. /\ pc = "append" /\ UNCHANGED <<cp, dlog, anchored, wiped, orphaned>>
        /\ log' \in TornAppends(HeaderedLog) \cup {WithFrames(HeaderedLog, Batch)}
      BY <1>15 DEF AppendIncrements, AppendFails, durable, ghosts
  <2> QED
      BY <1>5, <1>14, <2>1
<1>16. CASE Crash
  <2>1. UNCHANGED <<cp, anchored, wiped, orphaned>> /\ log' \in CrashedLogs /\ dlog' = log'
      BY <1>16 DEF Crash, ghosts
  <2>2. CASE log' = log
      BY <1>1, <2>1, <2>2 DEF LogClears, LogImages
  <2>3. CASE log' # log /\ pc = "append"
    <3>1. log' \in TornAppends(HeaderedLog) \cup {WithFrames(HeaderedLog, Batch)}
        BY <2>1, <2>3 DEF CrashedLogs
    <3> QED
        BY <1>5, <1>14, <2>1, <2>3, <3>1
  <2>4. CASE log' # log /\ pc = "reset"
    <3>1. log' \in {BadLog, FreshLog(w.gen + 1, ids)}
        BY <2>1, <2>4 DEF CrashedLogs
    <3>2. log'.st = "ok" => LogCovers(log'.frames, anchored, wiped)
        BY <1>6, <3>1, FreshLogDecodes, NoneCovered
    <3> QED
        BY <1>5, <2>1, <3>2
  <2>5. log' = log \/ pc \in {"append", "reset"}
      BY <2>1 DEF CrashedLogs
  <2> QED
      BY <2>2, <2>3, <2>4, <2>5
<1>17. CASE WriteBack
  <2>1. UNCHANGED <<cp, log, anchored, wiped, orphaned>> /\ dlog' = log
      BY <1>17 DEF WriteBack, disk, ghosts
  <2> QED
      BY <1>1, <2>1 DEF LogClears, LogImages
<1>18. CASE PowerLoss
  <2>1. /\ UNCHANGED <<anchored, wiped, orphaned>> /\ dlog' = log' /\ cp' \in {cp, dcp}
        /\ log' \in {log, dlog, BadLog} \/ log' \in CutLogs(log)
      BY <1>18 DEF PowerLoss
  <2>2. CASE anchored = {}
      BY <1>3, <2>1, <2>2
  <2>3. CASE anchored # {}
    <3>1. cp' = cp
        BY <1>1, <2>1, <2>3 DEF OwnCheckpoint
    <3>2. CASE log' \in CutLogs(log)
      <4>1. PICK k \in 0 .. Len(log.frames) : log' = [log EXCEPT !.frames = SubSeq(@, 1, k)]
          BY <3>2 DEF CutLogs
      <4>2. log \in Logs /\ log.frames \in Seq(Frames)
          BY DEF TypeOK, Logs
      <4>3. log'.frames = SubSeq(log.frames, 1, k) /\ log'.st = log.st /\ log'.base = log.base
        <5> DEFINE f == SubSeq(log.frames, 1, k)
        <5>1. log' = [log EXCEPT !.frames = f]
            BY <4>1
        <5> HIDE DEF f
        <5>2. log'.frames = f /\ log'.st = log.st /\ log'.base = log.base
            BY <4>2, <5>1 DEF Logs
        <5> QED
            BY <5>2 DEF f
      <4>4. LogCovers(log.frames, anchored, wiped) => LogCovers(log'.frames, anchored, wiped)
          BY <4>1, <4>2, <4>3, CoversCut
      <4>5. ~orphaned /\ cp.st = "ok" /\ log'.st = "ok" /\ log'.base = cp.id => LogCovers(log'.frames, anchored, wiped)
          BY <1>1, <4>3, <4>4 DEF LogClears, LogImages
      <4> QED
          BY <1>5, <2>1, <3>1, <4>5
    <3>3. CASE log' \in {log, dlog, BadLog}
      <4>1. ~orphaned /\ cp.st = "ok" /\ log'.st = "ok" /\ log'.base = cp.id => LogCovers(log'.frames, anchored, wiped)
          BY <1>1, <1>6, <3>3 DEF LogClears, LogImages
      <4> QED
          BY <1>5, <2>1, <3>1, <4>1
    <3> QED
        BY <2>1, <3>2, <3>3
  <2> QED
      BY <2>2, <2>3
<1> QED
    BY <1>7, <1>8, <1>9, <1>10, <1>11, <1>12, <1>13, <1>15, <1>16, <1>17, <1>18 DEF Next

\* One record more: a Clear empties, an output is added.
LEMMA PushReplays ==
    ASSUME NEW s \in Seq(Frames), NEW f \in Frames, f.kind = "output"
    PROVE  /\ ClearedAfter(Append(s, f), 0) <=> ClearedAfter(s, 0)
           /\ Replayed({}, Append(s, f)) = Replayed({}, s) \cup {f.val}
<1>1. <<f>> \in Seq(Frames) /\ Append(s, f) = s \o <<f>>
    OBVIOUS
<1>2. ~ClearedAfter(<<f>>, 0) /\ \A S : Replayed(S, <<f>>) = S \cup {f.val}
    BY ReplayedOne
<1>3. ClearedAfter(s \o <<f>>, 0) <=> ClearedAfter(s, 0) \/ ClearedAfter(<<f>>, 0)
  <2>1. 0 \in 0 .. Len(s)
      OBVIOUS
  <2> QED
      BY <1>1, <2>1, ClearedJoined
<1>4. Replayed({}, s \o <<f>>) = Replayed(Replayed({}, s), <<f>>)
    BY <1>1, ReplayedJoined
<1> QED
    BY <1>1, <1>2, <1>3, <1>4

\* Clears is kept by every step.
LEMMA ClearsKept ==
    ASSUME TypeOK, TypeOK', PairingIInv, OneInv, AckInv, Next
    PROVE  Clears'
<1> DEFINE X == ChunksOf(ring) \cup ChunksOf(op.ring) \cup acked \cup anchored
<1>1. Clears /\ Buffers
    BY DEF AckInv
<1>2. X \subseteq Nat /\ UpTo(X, out) /\ UpTo(OutputsOf(op.recs), out) /\ out \in Nat /\ wiped \in Nat
    BY <1>1, MemoryType DEF Buffers, UpTo, TypeOK
<1>3. Covered(pend.recs, X, wiped)
    BY <1>1 DEF Clears
<1>4. \A S, n : Covered(<<>>, S, n)
    BY NoneCovered
<1>5. ~ClearedAfter(<<>>, 0) /\ OutputsOf(<<>>) = {} /\ ChunksOf(<<>>) = {}
    BY ReplayedOne, EmptyHolds
<1>6. NoPending.recs = <<>> /\ NoOp.recs = <<>> /\ NoOp.ring = <<>>
    BY OpFields
\* Nothing pending, nothing being appended.
<1>7. ASSUME pend'.recs = <<>>, op'.recs = <<>> PROVE Clears'
    BY <1>4, <1>5, <1>7 DEF Clears
\* The same pending, nothing being appended, and nothing new but what memory held.
<1>8. ASSUME UNCHANGED <<pend, wiped>>, op'.recs = <<>>, X' \subseteq X \cup OutputsOf(op.recs) PROVE Clears'
  <2>1. ASSUME ClearedAfter(pend.recs, 0), NEW c \in X', c > wiped PROVE c \in Replayed({}, pend.recs)
    <3>1. CASE c \in X
        BY <1>3, <2>1, <3>1 DEF Covered
    <3>2. CASE c \in OutputsOf(op.recs)
      <4>1. c <= wiped
          BY <1>1, <2>1, <3>2 DEF Clears, UpTo
      <4>2. c \in Nat
          BY <3>2, MemoryType
      <4> QED
          BY <1>2, <2>1, <4>1, <4>2
    <3> QED
        BY <1>8, <3>1, <3>2
  <2>2. Covered(pend'.recs, X', wiped')
      BY <1>8, <2>1 DEF Covered
  <2>3. UpTo(OutputsOf(op'.recs), wiped')
      BY <1>5, <1>8 DEF UpTo
  <2> QED
      BY <1>4, <1>8, <2>2, <2>3 DEF Clears
<1> HIDE DEF X
<1>9. CASE StartIncarnation
  <2>1. UNCHANGED pend /\ op'.recs = <<>> /\ pc = "down"
      BY <1>9, StartOp DEF StartIncarnation
  <2>2. pend.recs = <<>>
      BY <1>1, <2>1 DEF Buffers, Gone
  <2> QED
      BY <1>7, <2>1, <2>2
<1>10. CASE UnlinkCheckpoint \/ UnlinkLog \/ TruncateMeta \/ WriteMeta \/ RemoveFile
  <2>1. pc \in Gone /\ pc # "append" /\ UNCHANGED pend /\ op' \in {op, NoOp}
      BY <1>10 DEF UnlinkCheckpoint, UnlinkLog, TruncateMeta, WriteMeta, RemoveFile, session, Gone
  <2>2. pend.recs = <<>> /\ op.recs = <<>>
      BY <1>1, <2>1 DEF Buffers
  <2> QED
      BY <1>6, <1>7, <2>1, <2>2
<1>11. CASE EnableHistory \/ WriteBack
  <2>1. UNCHANGED <<pend, op, ring, acked, anchored, wiped>>
      BY <1>11 DEF EnableHistory, WriteBack, session, ghosts
  <2> QED
      BY <1>1, <2>1 DEF Clears
<1>12. CASE Tee
  <2>1. /\ UNCHANGED <<op, acked, anchored, wiped>>
        /\ pend' = IF enabled THEN PushOutput(pend, Output(out + 1)) ELSE pend
      BY <1>12 DEF Tee
  <2>2. X' \subseteq X \cup {out + 1}
    <3>1. ChunksOf(ring)' \subseteq ChunksOf(ring) \cup {out + 1}
        BY <1>12, RingHolds DEF Tee, TypeOK
    <3> QED
        BY <2>1, <3>1 DEF X
  <2>3. CASE pend'.recs = <<>>
      BY <1>1, <1>4, <1>5, <2>1, <2>3 DEF Clears
  <2>4. CASE pend'.recs # <<>>
    <3> DEFINE f == Output(out + 1)
    <3>1. f \in Frames /\ f.kind = "output" /\ f.val = out + 1
        BY <1>2 DEF Output, Frames
    <3>2. enabled
        BY <1>1, <2>1, <2>4 DEF Buffers
    <3>3. pend \in [recs : Seq(Frames), overflowed : BOOLEAN] /\ pend.recs \in Seq(Frames)
        BY DEF TypeOK
    <3> HIDE DEF f
    <3>4. \/ pend' = pend /\ pend.overflowed
          \/ pend'.recs = <<>>
          \/ pend'.recs = Append(pend.recs, f) /\ ~pend'.overflowed
      <4>1. pend' = PushOutput(pend, f)
          BY <2>1, <3>2 DEF f
      <4> QED
          BY <3>1, <3>3, <4>1, PushFields
    <3>5. pend'.recs = Append(pend.recs, f)
        BY <1>1, <2>4, <3>4 DEF Buffers
    <3>6. /\ ClearedAfter(pend'.recs, 0) <=> ClearedAfter(pend.recs, 0)
          /\ Replayed({}, pend'.recs) = Replayed({}, pend.recs) \cup {out + 1}
        BY <3>1, <3>3, <3>5, PushReplays
    <3>7. Covered(pend'.recs, X', wiped')
        BY <1>3, <2>1, <2>2, <3>6 DEF Covered
    <3>8. Covered(op'.recs, (acked \cup anchored)', wiped')
        BY <1>1, <2>1 DEF Clears
    <3>9. ClearedAfter(pend'.recs, 0) => UpTo(OutputsOf(op'.recs), wiped')
        BY <1>1, <2>1, <3>6 DEF Clears
    <3> QED
        BY <3>7, <3>8, <3>9 DEF Clears, X
  <2> QED
      BY <2>3, <2>4
<1>13. CASE ClearHistory
  <2>1. UNCHANGED <<op, acked, anchored>> /\ ring' = <<>> /\ wiped' = out
      BY <1>13 DEF ClearHistory
  <2>2. X' \subseteq X /\ (acked \cup anchored)' \subseteq X
      BY <1>5, <2>1 DEF X
  <2>3. \A c \in X : ~(c > wiped')
      BY <1>2, <2>1 DEF UpTo
  <2>4. /\ Covered(pend'.recs, X', wiped')
        /\ Covered(op'.recs, (acked \cup anchored)', wiped')
      BY <2>2, <2>3 DEF Covered
  <2>5. UpTo(OutputsOf(op'.recs), wiped')
      BY <1>2, <2>1
  <2> QED
      BY <2>4, <2>5 DEF Clears, X
<1>14. CASE BeginTick
  <2>1. UNCHANGED <<ring, acked, anchored, wiped>> /\ op'.ring = <<>>
      BY <1>14, PersistOp DEF BeginTick, ghosts
  <2>2. CASE w.needsFull
    <3>1. op'.recs = <<>> /\ UNCHANGED pend
        BY <1>14, <2>2, PersistOp
    <3>2. X' \subseteq X
        BY <1>5, <2>1 DEF X
    <3> QED
        BY <1>8, <2>1, <3>1, <3>2
  <2>3. CASE ~w.needsFull
    <3>1. op'.recs = pend.recs /\ pend' = NoPending
        BY <1>14, <2>3, PersistOp
    <3>2. Covered(op'.recs, (acked \cup anchored)', wiped')
        BY <1>3, <2>1, <3>1 DEF Covered, X
    <3> QED
        BY <1>4, <1>5, <1>6, <3>1, <3>2 DEF Clears
  <2> QED
      BY <2>2, <2>3
<1>15. CASE BeginFlush \/ BuildCheckpoint \/ NeedsCheckpoint \/ RenameFails
  <2>1. UNCHANGED <<pend, ring, acked, anchored, wiped>>
      BY <1>15 DEF BeginFlush, BuildCheckpoint, NeedsCheckpoint, RenameFails, session, ghosts
  <2>2. op'.recs = <<>> /\ op'.ring \in {<<>>, ring, op.ring}
    <3>1. pc = "snap" => op.recs = <<>>
        BY <1>1 DEF Buffers
    <3> QED
        BY <1>6, <1>15, <3>1, PersistOp DEF BuildCheckpoint, RenameFails, AfterFailedCheckpoint
  <2>3. X' \subseteq X
      BY <1>5, <2>1, <2>2 DEF X
  <2> QED
      BY <1>8, <2>1, <2>2, <2>3
<1>16. CASE CloseSession \/ Crash \/ PowerLoss
  <2>1. pend' = NoPending /\ op'.recs = <<>>
      BY <1>6, <1>16, PersistOp DEF CloseSession, Crash, PowerLoss, Die
  <2> QED
      BY <1>6, <1>7, <2>1
<1>17. CASE RenameCheckpoint
  <2>1. /\ UNCHANGED <<pend, op, ring, wiped>> /\ pc = "rename"
        /\ acked' \subseteq acked /\ anchored' = ChunksOf(op.ring)
      BY <1>17 DEF RenameCheckpoint, session
  <2>2. op.recs = <<>>
      BY <1>1, <2>1 DEF Buffers
  <2>3. X' \subseteq X
      BY <2>1 DEF X
  <2> QED
      BY <1>8, <2>1, <2>2, <2>3
<1>18. CASE ResetLog \/ ResetLogFails
  <2>1. UNCHANGED <<pend, ring, anchored, wiped>> /\ op' = NoOp /\ acked' = ChunksOf(op.ring)
      BY <1>18 DEF ResetLog, ResetLogFails, AfterFailedCheckpoint, session
  <2>2. X' \subseteq X
      BY <1>5, <1>6, <2>1 DEF X
  <2> QED
      BY <1>6, <1>8, <2>1, <2>2
<1>19. CASE AppendIncrements \/ AppendFails
  <2>1. /\ UNCHANGED <<pend, ring, anchored, wiped>> /\ op' = NoOp
        /\ acked' \in {acked, AckedAfter}
      BY <1>19 DEF AppendIncrements, AppendFails, session, ghosts
  <2>2. AckedAfter \subseteq acked \cup OutputsOf(op.recs)
      BY DEF AckedAfter, OutputsOf, IsOutput
  <2>3. X' \subseteq X \cup OutputsOf(op.recs)
      BY <1>5, <1>6, <2>1, <2>2 DEF X
  <2> QED
      BY <1>6, <1>8, <2>1, <2>3
<1> QED
    BY <1>9, <1>10, <1>11, <1>12, <1>13, <1>14, <1>15, <1>16, <1>17, <1>18, <1>19 DEF Next

\* Before the log restarts, no log on disk is taken for the new checkpoint's.
LEMMA LogUnused ==
    ASSUME TypeOK, PairingIInv
    PROVE  /\ pc = "reset" => \A l \in {log, BadLog, FreshLog(w.gen + 1, ids)} : ~LogUsable(cp, l)
           /\ RenameCheckpoint => ~LogUsable(cp', log')
<1>1. ASSUME NEW c, NEW l, c.st = "ok", l.st = "ok" => l.gen # c.gen PROVE ~LogUsable(c, l)
    BY <1>1 DEF LogUsable, DecodesLog
<1>2. w.gen \in Nat /\ log.gen \in Nat
    BY DEF TypeOK, Writers, Logs
<1>3. ASSUME pc = "reset", NEW l \in {log, BadLog, FreshLog(w.gen + 1, ids)} PROVE ~LogUsable(cp, l)
  <2>1. cp.st = "ok" /\ cp.gen = w.gen + 1 /\ (log.st = "ok" => log.gen = w.gen)
      BY <1>3 DEF PairingIInv, Progress, WriterAhead
  <2>2. CASE l = log
      BY <1>1, <1>2, <2>1, <2>2
  <2>3. CASE l = BadLog
    <3>1. BadLog.st = "bad"
        BY DEF BadLog
    <3> QED
        BY <2>3, <3>1 DEF LogUsable, DecodesLog
  <2>4. CASE l = FreshLog(w.gen + 1, ids)
    <3>1. l.frames = <<>>
        BY <2>4 DEF FreshLog
    <3> QED
        BY <3>1 DEF LogUsable
  <2> QED
      BY <1>3, <2>2, <2>3, <2>4
<1>4. ASSUME RenameCheckpoint PROVE ~LogUsable(cp', log')
  <2>1. cp'.st = "ok" /\ cp'.gen = ResolveLogState.gen + 1 /\ log' = log /\ pc = "rename"
      BY <1>4 DEF RenameCheckpoint, NextGeneration
  <2>2. log.st = "ok" => ResolveLogState.gen = log.gen
    <3>1. CASE w.resolved
        BY <2>1, <3>1 DEF PairingIInv, Progress, WriterAhead, ResolveLogState
    <3>2. CASE ~w.resolved
      <4> SUFFICES ASSUME log.st = "ok" PROVE ResolveLogState.gen = log.gen
          OBVIOUS
      <4> DEFINE a == IF DecodesLog(log) THEN OutputBytes(log.frames) ELSE 0
                 b == 1 + Len(log.frames)
      <4>1. ResolveLogState = [w EXCEPT !.resolved = TRUE, !.gen = log.gen, !.bytes = b, !.appended = a]
          BY <3>2 DEF ResolveLogState
      <4> HIDE DEF a, b
      <4> QED
          BY <4>1 DEF TypeOK, Writers
    <3> QED
        BY <3>1, <3>2
  <2>3. log'.st = "ok" => log'.gen # cp'.gen
      BY <1>2, <2>1, <2>2
  <2> QED
      BY <1>1, <2>1, <2>3
<1> QED
    BY <1>3, <1>4

\* A checkpoint without a log of its own gives its ring back.
LEMMA RingKept ==
    ASSUME NEW c, c.st = "ok", NEW l, ~LogUsable(c, l)
    PROVE  Kept(c, l) = ChunksOf(c.ring) \ {NoBytes}
BY DEF Kept

\* Exact is kept by every step.
LEMMA ExactKept ==
    ASSUME TypeOK, TypeOK', PairingIInv, OneInv, AckInv, Next
    PROVE  Exact'
<1> SUFFICES ASSUME w'.reg \/ Reopening', pc' # "reset", ~Torn(log'.frames), ~orphaned'
             PROVE  Kept(cp', log') = acked'
    BY DEF Exact, TornLog, Torn
<1>1. Exact /\ Sessions
    BY DEF AckInv
<1>2. ~NoWriter.reg
    BY DEF NoWriter
<1>3. pc \in Gone => ~w.reg
    BY DEF PairingIInv, Progress, Gone
<1>4. ASSUME UNCHANGED <<cp, log, acked, orphaned>>, w.reg \/ Reopening, pc # "reset"
      PROVE  Kept(cp', log') = acked'
    BY <1>1, <1>4 DEF Exact, TornLog, Torn
<1>5. CASE StartIncarnation
  <2>1. pc = "down" /\ UNCHANGED <<w, cp, log>>
      BY <1>5 DEF StartIncarnation, disk
  <2>2. Reopening'
      BY <1>3, <2>1 DEF Gone
  <2>3. Restore.some
      BY <1>5, <2>2, StartOp DEF Reopening
  <2>4. acked' = Restored
      BY <1>5, <2>3, StartOp
  <2>5. Restored = Kept(cp, log)
      BY <2>3, RestoredIsKept DEF OneInv
  <2> QED
      BY <2>1, <2>4, <2>5
<1>6. CASE UnlinkCheckpoint \/ UnlinkLog \/ RemoveFile
  <2>1. /\ pc \in {"unlinkCp", "unlinkLog", "rmdir"} /\ UNCHANGED <<w, op>>
        /\ pc = "rmdir" => pc' \in {"rmdir", "down"}
      BY <1>6 DEF UnlinkCheckpoint, UnlinkLog, RemoveFile
  <2>2. ~w'.reg
      BY <1>3, <2>1 DEF Gone
  <2>3. pc # "rmdir" => op.then = "opened"
      BY <2>1 DEF PairingIInv, Progress
  <2> QED
      BY <2>1, <2>2, <2>3 DEF Reopening
<1>7. CASE TruncateMeta
  <2>1. UNCHANGED <<cp, log, w, op, acked, orphaned>> /\ pc = "truncMeta"
      BY <1>7 DEF TruncateMeta, ghosts
  <2>2. ~w.reg
      BY <1>3, <2>1 DEF Gone
  <2>3. Reopening
      BY <2>1, <2>2 DEF Reopening
  <2> QED
      BY <1>4, <2>1, <2>3
<1>8. CASE WriteMeta
  <2>1. /\ pc = "writeMeta" /\ w' = WriterAfter(op.then) /\ UNCHANGED <<cp, log, acked, orphaned>>
        /\ pc' = IF op.then = "ended" THEN "rmdir" ELSE "idle"
      BY <1>8 DEF WriteMeta, ghosts
  <2>2. op.then \in {"opened", "reopened"}
      BY <1>2, <2>1 DEF WriterAfter, Reopening
  <2>3. CASE op.then = "reopened"
      BY <1>4, <2>1, <2>3 DEF Reopening
  <2>4. CASE op.then = "opened"
    <3>1. cp.st = "absent" /\ acked = {}
        BY <1>1, <2>1, <2>4 DEF Sessions, Opening
    <3> QED
        BY <2>1, <3>1 DEF Kept
  <2> QED
      BY <2>2, <2>3, <2>4
<1>9. CASE EnableHistory \/ Tee \/ ClearHistory \/ WriteBack
  <2>1. UNCHANGED <<cp, log, acked, orphaned, w, pc, op>>
      BY <1>9 DEF EnableHistory, Tee, ClearHistory, WriteBack, disk, ghosts
  <2>2. (w.reg \/ Reopening) /\ pc # "reset"
      BY <2>1 DEF Reopening
  <2> QED
      BY <1>4, <2>1, <2>2
<1>10. CASE BeginTick \/ BeginFlush \/ BuildCheckpoint \/ NeedsCheckpoint \/ RenameFails
  <2>1. UNCHANGED <<cp, log, acked, orphaned>> /\ pc \in {"idle", "snap", "append", "rename"}
      BY <1>10 DEF BeginTick, BeginFlush, BuildCheckpoint, NeedsCheckpoint, RenameFails, disk, ghosts
  <2>2. pc \in {"snap", "append", "rename"} => w.reg
      BY DEF PairingIInv, Progress
  <2>3. pc = "idle" => w.reg
      BY <1>10 DEF BeginTick, BeginFlush, BuildCheckpoint, NeedsCheckpoint, RenameFails
  <2> QED
      BY <1>4, <2>1, <2>2, <2>3
<1>11. CASE RenameCheckpoint
    BY <1>11 DEF RenameCheckpoint
<1>12. CASE ResetLog
  <2>1. pc = "reset" /\ cp' = cp /\ log' = FreshLog(w.gen + 1, ids) /\ acked' = ChunksOf(op.ring)
      BY <1>12 DEF ResetLog
  <2>2. cp.st = "ok" /\ cp.ring = op.ring
      BY <2>1 DEF PairingIInv, Progress, AckInv, OwnCheckpoint
  <2>3. ~LogUsable(cp, log')
      BY <2>1, LogUnused
  <2>4. NoBytes \notin ChunksOf(op.ring)
      BY MemoryType
  <2> QED
      BY <2>1, <2>2, <2>3, <2>4, RingKept
<1>13. CASE ResetLogFails
    BY <1>2, <1>13 DEF ResetLogFails, AfterFailedCheckpoint, Reopening
<1>14. CASE AppendIncrements
  <2>1. /\ pc = "append" /\ log' = WithFrames(HeaderedLog, Batch) /\ UNCHANGED <<cp, orphaned>>
        /\ acked' = AckedAfter
      BY <1>14 DEF AppendIncrements
  <2>2. Kept(cp, log') = Replayed(acked, op.recs)
      BY <2>1, WholeAppend
  <2> QED
      BY <2>1, <2>2 DEF AckedAfter, Replayed
<1>15. CASE AppendFails
  <2>1. pc = "append" /\ log' \in TornAppends(HeaderedLog) /\ UNCHANGED <<cp, acked, orphaned>>
      BY <1>15 DEF AppendFails, ghosts
  <2>2. log' = log
      BY <2>1, TornAppend DEF AckInv
  <2>3. w.reg
      BY <2>1 DEF PairingIInv, Progress
  <2> QED
      BY <1>4, <2>1, <2>2, <2>3
<1>16. CASE CloseSession
  <2>1. w' = NoWriter
      BY <1>16 DEF CloseSession
  <2> QED
      BY <1>2, <1>16, <2>1, PersistOp DEF Reopening
<1>17. CASE Crash \/ PowerLoss
    BY <1>2, <1>17 DEF Crash, PowerLoss, Die, Reopening
<1> QED
    BY <1>5, <1>6, <1>7, <1>8, <1>9, <1>10, <1>11, <1>12, <1>13, <1>14, <1>15, <1>16, <1>17 DEF Next

\* Safe is kept by every step.
LEMMA SafeKept ==
    ASSUME TypeOK, TypeOK', PairingIInv, OneInv, AckInv, Next
    PROVE  Safe'
<1> SUFFICES ASSUME ~Torn(log'.frames), ~orphaned', NEW x \in acked', x > wiped'
             PROVE  x \in Kept(cp', log')
    BY DEF Safe, TornLog, Torn, Unwiped
<1>1. Safe /\ Sessions /\ OwnCheckpoint /\ Buffers
    BY DEF AckInv
<1>2. Exact'
    BY ExactKept
<1>3. ASSUME UNCHANGED <<cp, log, orphaned, wiped>>, x \in acked PROVE x \in Kept(cp', log')
    BY <1>1, <1>3 DEF Safe, TornLog, Torn, Unwiped
<1>4. ASSUME w'.reg \/ Reopening', pc' # "reset" PROVE x \in Kept(cp', log')
    BY <1>2, <1>4 DEF Exact, TornLog, Torn
<1>5. acked \cup anchored \subseteq Nat \ {NoBytes}
    BY <1>1 DEF Buffers
<1>6. CASE StartIncarnation
  <2>1. Restore.some
      BY <1>6, StartOp
  <2>2. Reopening' /\ pc' # "reset"
      BY <1>6, <2>1, StartOp DEF Reopening
  <2> QED
      BY <1>4, <2>2
<1>7. CASE UnlinkCheckpoint \/ UnlinkLog \/ RemoveFile
  <2>1. pc \in {"unlinkCp", "unlinkLog", "rmdir"} /\ UNCHANGED acked
      BY <1>7 DEF UnlinkCheckpoint, UnlinkLog, RemoveFile, ghosts
  <2>2. pc # "rmdir" => op.then = "opened"
      BY <2>1 DEF PairingIInv, Progress
  <2> QED
      BY <1>1, <2>1, <2>2 DEF Sessions, Opening
<1>8. CASE \/ TruncateMeta \/ WriteMeta \/ EnableHistory \/ Tee \/ BeginTick \/ BeginFlush
           \/ BuildCheckpoint \/ RenameFails \/ NeedsCheckpoint \/ WriteBack
  <2>1. UNCHANGED <<cp, log, acked, orphaned, wiped>>
      BY <1>8 DEF TruncateMeta, WriteMeta, EnableHistory, Tee, BeginTick, BeginFlush,
                  BuildCheckpoint, RenameFails, NeedsCheckpoint, WriteBack, disk, ghosts
  <2> QED
      BY <1>3, <2>1
<1>9. CASE ClearHistory
  <2>1. wiped' = out /\ acked' = acked
      BY <1>9 DEF ClearHistory
  <2>2. x \in Nat /\ x <= out /\ out \in Nat
      BY <1>1, <1>5, <2>1 DEF Buffers, UpTo, TypeOK
  <2> QED
      BY <2>1, <2>2
<1>10. CASE CloseSession
    BY <1>10 DEF CloseSession
<1>11. CASE RenameCheckpoint
  <2>1. /\ cp'.st = "ok" /\ cp'.ring = op.ring /\ pc = "rename"
        /\ acked' = acked \cap ChunksOf(ring)
      BY <1>11 DEF RenameCheckpoint
  <2>2. x \in ChunksOf(op.ring) /\ x # NoBytes
      BY <1>1, <1>5, <2>1 DEF OwnCheckpoint
  <2>3. ~LogUsable(cp', log')
      BY <1>11, LogUnused
  <2> QED
      BY <2>1, <2>2, <2>3, RingKept
<1>12. CASE ResetLog \/ ResetLogFails
  <2>1. /\ pc = "reset" /\ cp' = cp /\ log' \in {log, BadLog, FreshLog(w.gen + 1, ids)}
        /\ acked' = ChunksOf(op.ring)
      BY <1>12 DEF ResetLog, ResetLogFails
  <2>2. cp.st = "ok" /\ cp.ring = op.ring
      BY <1>1, <2>1 DEF PairingIInv, Progress, OwnCheckpoint
  <2>3. ~LogUsable(cp, log')
      BY <2>1, LogUnused
  <2>4. NoBytes \notin ChunksOf(op.ring)
      BY MemoryType
  <2> QED
      BY <2>1, <2>2, <2>3, <2>4, RingKept
<1>13. CASE AppendIncrements
  <2>1. pc = "append" /\ pc' = "idle"
      BY <1>13 DEF AppendIncrements
  <2>2. w'.reg
    <3>1. w.reg
        BY <2>1 DEF PairingIInv, Progress
    <3> QED
        BY <1>13, <3>1 DEF AppendIncrements, TypeOK, Writers
  <2> QED
      BY <1>4, <2>1, <2>2
<1>14. CASE AppendFails
  <2>1. pc = "append" /\ log' \in TornAppends(HeaderedLog) /\ UNCHANGED <<cp, acked, orphaned, wiped>>
      BY <1>14 DEF AppendFails, ghosts
  <2>2. log' = log
      BY <1>1, <2>1, TornAppend
  <2> QED
      BY <1>3, <2>1, <2>2
<1>15. CASE Crash
  <2>1. UNCHANGED <<cp, acked, orphaned, wiped>> /\ log' \in CrashedLogs
      BY <1>15 DEF Crash, ghosts
  <2>2. CASE log' = log
      BY <1>3, <2>1, <2>2
  <2>3. CASE log' # log /\ pc = "append"
    <3>1. log' \in TornAppends(HeaderedLog) \cup {WithFrames(HeaderedLog, Batch)}
        BY <2>1, <2>3 DEF CrashedLogs
    <3>2. log' = WithFrames(HeaderedLog, Batch)
        BY <1>1, <2>3, <3>1, TornAppend
    <3>3. Kept(cp, log') = Replayed(acked, op.recs)
        BY <2>1, <2>3, <3>2, WholeAppend
    <3>4. x \in Replayed(acked, op.recs)
      <4>1. op.recs \in Seq(Frames)
          BY DEF TypeOK
      <4>2. CASE ClearedAfter(op.recs, 0)
        <5>1. x \in Replayed({}, op.recs)
            BY <2>1, <4>2 DEF AckInv, Clears, Covered
        <5> QED
            BY <4>1, <5>1, ReplayedHolds
      <4>3. CASE ~ClearedAfter(op.recs, 0)
          BY <2>1, <4>1, <4>3, ReplayedHolds
      <4> QED
          BY <4>2, <4>3
    <3> QED
        BY <2>1, <3>3, <3>4
  <2>4. CASE log' # log /\ pc = "reset"
    <3>1. log' \in {BadLog, FreshLog(w.gen + 1, ids)}
        BY <2>1, <2>4 DEF CrashedLogs
    <3>2. ~LogUsable(cp, log')
        BY <2>4, <3>1, LogUnused
    <3>3. cp.st = "ok" /\ cp.ring = op.ring /\ acked \subseteq ChunksOf(op.ring)
        BY <1>1, <2>4 DEF PairingIInv, Progress, OwnCheckpoint
    <3>4. x # NoBytes
        BY <1>5, <2>1
    <3> QED
        BY <2>1, <3>2, <3>3, <3>4, RingKept
  <2>5. log' = log \/ pc \in {"append", "reset"}
      BY <2>1 DEF CrashedLogs
  <2> QED
      BY <2>2, <2>3, <2>4, <2>5
<1>16. CASE PowerLoss
  <2>1. /\ UNCHANGED <<anchored, orphaned, wiped>> /\ cp' \in {cp, dcp}
        /\ acked' = IF log' = log THEN acked ELSE anchored
      BY <1>16 DEF PowerLoss
  <2>2. cp' = cp /\ cp.st = "ok"
      BY <1>1, <2>1 DEF OwnCheckpoint
  <2>3. CASE log' = log
      BY <1>3, <2>1, <2>2, <2>3
  <2>4. CASE log' # log
    <3>1. x \in anchored /\ anchored = ChunksOf(cp.ring) /\ x # NoBytes
        BY <1>1, <1>5, <2>1, <2>4 DEF OwnCheckpoint
    <3>2. CASE ~LogUsable(cp, log')
        BY <2>2, <3>1, <3>2, RingKept
    <3>3. CASE LogUsable(cp, log')
      <4>1. log'.st = "ok" /\ log'.gen = cp.gen
          BY <2>2, <3>3 DEF LogUsable, DecodesLog
      <4>2. log'.base = cp.id
        <5>1. \E l \in {log, dlog} : l.st = "ok" /\ l.gen = log'.gen /\ l.base = log'.base
          <6>1. log' \in {dlog, BadLog} \/ log' \in CutLogs(log)
              BY <1>16, <2>4 DEF PowerLoss
          <6>2. BadLog.st = "bad"
              BY DEF BadLog
          <6>3. log' \in CutLogs(log) => log'.st = log.st /\ log'.gen = log.gen /\ log'.base = log.base
              BY CutType DEF TypeOK
          <6> QED
              BY <4>1, <6>1, <6>2, <6>3
        <5> QED
            BY <2>2, <4>1, <5>1 DEF PairingIInv, AllPaired, Paired
      <4>3. LogClears'
          BY LogClearsKept
      <4>4. LogCovers(log'.frames, ChunksOf(cp.ring), wiped)
          BY <2>1, <2>2, <3>1, <4>1, <4>2, <4>3 DEF LogClears, LogImages
      <4>5. log'.frames \in Seq(Frames)
          BY DEF TypeOK, Logs
      <4> QED
          BY <2>1, <2>2, <3>1, <4>4, <4>5, CoveredKept
    <3> QED
        BY <3>2, <3>3
  <2> QED
      BY <2>3, <2>4
<1> QED
    BY <1>6, <1>7, <1>8, <1>9, <1>10, <1>11, <1>12, <1>13, <1>14, <1>15, <1>16 DEF Next

\* The invariant holds in every state.
LEMMA AckInvHolds == Spec => []AckInv
<1>1. Init => AckInv
  <2> SUFFICES ASSUME Init PROVE AckInv
      OBVIOUS
  <2>1. /\ pend.recs = <<>> /\ op.recs = <<>> /\ op.meta = NoMeta /\ ~enabled /\ pc = "down" /\ w = NoWriter
        /\ out = 0 /\ wiped = 0 /\ acked = {} /\ anchored = {}
        /\ meta = NoMeta /\ cp = NoCheckpoint /\ dcp = NoCheckpoint
      BY OpFields DEF Init
  <2>2. ~w.reg /\ meta.st = "absent" /\ cp.st = "absent"
      BY <2>1 DEF NoWriter, NoMeta, NoCheckpoint
  <2>3. Buffers
      BY <2>1, PushPlain DEF Buffers, UpTo
  <2>4. Sessions
      BY <2>1, <2>2 DEF Sessions, Opening
  <2>5. OwnCheckpoint
      BY <2>1, <2>2 DEF OwnCheckpoint
  <2>6. SureLog /\ LogClears
      BY <2>2 DEF SureLog, LogClears
  <2>7. Clears
      BY <2>1, NoneCovered, ReplayedOne DEF Clears
  <2>8. Exact /\ Safe
      BY <2>1, <2>2 DEF Exact, Safe, Reopening, Unwiped
  <2> QED
      BY <2>3, <2>4, <2>5, <2>6, <2>7, <2>8 DEF AckInv
<1>2. TypeOK /\ TypeOK' /\ PairingIInv /\ OneInv /\ AckInv /\ [Next]_vars => AckInv'
  <2> SUFFICES ASSUME TypeOK, TypeOK', PairingIInv, OneInv, AckInv, [Next]_vars PROVE AckInv'
      OBVIOUS
  <2>1. CASE Next
      BY <2>1, BuffersKept, SessionsKept, OwnCheckpointKept, SureLogKept, ClearsKept, LogClearsKept,
         ExactKept, SafeKept DEF AckInv
  <2>2. CASE UNCHANGED vars
    <3>1. UNCHANGED <<meta, cp, log, dmeta, dcp, dlog, w, pc, op, ring, pend, enabled, out, inc, ids, wiped,
                      acked, anchored, orphaned>>
        BY <2>2 DEF vars, disk, durable, session, ghosts
    <3>2. MetaImages' = MetaImages
        BY <3>1 DEF MetaImages
    <3>3. Buffers' /\ Sessions' /\ OwnCheckpoint'
        BY <3>1, <3>2 DEF AckInv, Buffers, Sessions, OwnCheckpoint, Eligible
    <3>4. SureLog' /\ Clears' /\ LogClears'
        BY <3>1 DEF AckInv, SureLog, Clears, LogClears, LogImages
    <3>5. Exact' /\ Safe'
        BY <3>1 DEF AckInv, Exact, Safe, Reopening, TornLog, Unwiped
    <3> QED
        BY <3>3, <3>4, <3>5 DEF AckInv
  <2> QED
      BY <2>1, <2>2
<1> QED
    BY <1>1, <1>2, TypeCorrect, PairingIInvHolds, OneInvHolds, PTL DEF Spec

\* Whatever a crash leaves, what persists reported as written can be restored, but for
\* what clear_history took away since: unless the log was cut behind a Batch frame, or a
\* flush_all failed half-way and was ignored.
THEOREM AckedOutputRecoverable == Spec => []AckedRecoverable
<1>1. TypeOK /\ PairingIInv /\ OneInv /\ AckInv => AckedRecoverable
  <2> SUFFICES ASSUME TypeOK, PairingIInv, OneInv, AckInv, Eligible, ~TornLog, ~orphaned, NEW x \in Unwiped(acked)
               PROVE  x \in Restored
      BY DEF AckedRecoverable
  <2>1. x \in acked
      BY DEF Unwiped
  <2>2. cp.st = "ok" /\ meta.started <= cp.at
      BY <2>1 DEF AckInv, OwnCheckpoint, MetaImages, Eligible
  <2>3. Restored = Kept(cp, log)
      BY <2>2, RestoredIsKept DEF OneInv
  <2> QED
      BY <2>3 DEF AckInv, Safe
<1> QED
    BY <1>1, AckInvHolds, OneInvHolds, TypeCorrect, PairingIInvHolds, PTL

\* Between two persists a cold restore would return what persists reported as written and
\* nothing else: what clear_history removed stays away once its Clear is in the log.
THEOREM RestoreIsExact == Spec => []IdleRestoreExact
<1>1. TypeOK /\ PairingIInv /\ OneInv /\ AckInv => IdleRestoreExact
  <2> SUFFICES ASSUME TypeOK, PairingIInv, OneInv, AckInv, pc = "idle", w.reg, ~TornLog, ~orphaned
               PROVE  Restored = acked
      BY DEF IdleRestoreExact
  <2>1. Eligible /\ Kept(cp, log) = acked
      BY DEF AckInv, Sessions, Exact
  <2>2. acked # {} => meta.started <= cp.at
      BY <2>1 DEF AckInv, OwnCheckpoint, MetaImages, Eligible
  <2>3. CASE acked = {}
      BY <2>1, <2>3, RestoredIsKept DEF OneInv
  <2>4. CASE acked # {}
      BY <2>1, <2>2, <2>4, RestoredIsKept DEF OneInv
  <2> QED
      BY <2>3, <2>4
<1> QED
    BY <1>1, AckInvHolds, OneInvHolds, TypeCorrect, PairingIInvHolds, PTL

(***************************************************************************)
(* The order of the chunks                                                 *)
(***************************************************************************)
\* What the frames fs add to a scrollback when no Clear is replayed.
Vals(fs) == [i \in 1 .. Len(fs) |-> IF IsOutput(fs[i]) THEN fs[i].val ELSE NoBytes]

\* The chunks of s are linked and the last one, if there is one, is n or later.
Ends(s, n) ==
    /\ Linked(s)
    /\ \A i \in 1 .. Len(s) : s[i] # NoBytes /\ (\A k \in i + 1 .. Len(s) : s[k] = NoBytes) => n <= s[i]

\* They continue what ends at a, so that it ends at b.
Chain(s, a, b) ==
    /\ Ends(s, b)
    /\ \A i \in 1 .. Len(s) : s[i] # NoBytes /\ (\A k \in 1 .. i - 1 : s[k] = NoBytes) => s[i] <= a + 1
    /\ (\A i \in 1 .. Len(s) : s[i] = NoBytes) => b <= a

\* The files: a checkpoint with any log that continues it.
FilesLinked ==
    \A c \in CpImages :
       /\ Linked(c.ring)
       /\ \A l \in LogImages : c.st = "ok" /\ l.st = "ok" /\ l.base = c.id => Linked(c.ring \o Vals(l.frames))

\* Ring and pending output of the session end with the newest chunk.
SessionLinked == Ends(ring, out) /\ Chain(Vals(pend.recs), out, out)

\* The pending output continues the checkpoint about to be written.
CheckpointLinked ==
    pc \in {"rename", "reset"} =>
       \E b \in 0 .. out : Ends(op.ring, b) /\ (~pend.overflowed => Chain(Vals(pend.recs), b, out))

\* A writer that will append to its log, and has dropped nothing that belongs there.
WillAppend ==
    /\ w.reg /\ ~w.needsFull /\ ~orphaned
    /\ pc \in {"idle", "append"} \/ (pc \in {"snap", "rename"} /\ op.final)
\* What it appends continues the log.
LogLinked ==
    WillAppend =>
       \E b, d \in 0 .. out :
          /\ Ends(cp.ring \o Vals(log.frames), b) /\ Chain(Vals(op.recs), b, d)
          /\ ~pend.overflowed => Chain(Vals(pend.recs), d, out)

\* After an ignored failure the log is not the checkpoint's; an append is a tick's.
Estranged ==
    /\ w.reg /\ ~w.needsFull /\ orphaned /\ cp.st = "ok" /\ log.st = "ok" => log.base # cp.id
    /\ pc = "append" => ~op.final

HoleInv ==
    /\ Estranged
    /\ ~gapped => FilesLinked /\ SessionLinked /\ CheckpointLinked /\ LogLinked

\* What ends at b, followed by a chain from b to c, ends at c.
LEMMA EndsJoined ==
    ASSUME NEW s \in Seq(Nat), NEW t \in Seq(Nat), NEW b \in Nat, NEW c \in Nat,
           Ends(s, b), Chain(t, b, c)
    PROVE  Ends(s \o t, c)
<1> DEFINE u == s \o t
<1>1. PICK m \in Nat, n \in Nat : m = Len(s) /\ n = Len(t)
    OBVIOUS
<1>2. u \in Seq(Nat) /\ Len(u) = m + n
    BY <1>1
<1>3. \A i \in 1 .. m : u[i] = s[i] /\ s[i] \in Nat
    BY <1>1
<1>4. \A i \in 1 .. n : u[m + i] = t[i] /\ t[i] \in Nat
    BY <1>1
<1>5. \A i \in m + 1 .. m + n : i - m \in 1 .. n /\ m + (i - m) = i
    OBVIOUS
<1>6. \A i \in m + 1 .. m + n : u[i] = t[i - m] /\ u[i] \in Nat
    BY <1>4, <1>5
<1> HIDE DEF u
<1>7. ASSUME NEW i \in 1 .. m, s[i] # NoBytes, \A k \in i + 1 .. m : u[k] = NoBytes
      PROVE  b <= s[i]
  <2>1. \A k \in i + 1 .. m : s[k] = NoBytes
      BY <1>3, <1>7
  <2> QED
      BY <1>1, <1>7, <2>1 DEF Ends
<1>8. ASSUME NEW j \in m + 1 .. m + n, u[j] # NoBytes, \A k \in m + 1 .. j - 1 : u[k] = NoBytes
      PROVE  u[j] <= b + 1
  <2>1. PICK q \in 1 .. n : q = j - m /\ j = m + q
      BY <1>5
  <2>2. t[q] # NoBytes /\ u[j] = t[q]
      BY <1>4, <1>8, <2>1
  <2>3. ASSUME NEW k \in 1 .. q - 1 PROVE t[k] = NoBytes
    <3>1. m + k \in m + 1 .. j - 1 /\ k \in 1 .. n
        BY <2>1
    <3> QED
        BY <1>4, <1>8, <3>1
  <2> QED
      BY <1>1, <2>2, <2>3 DEF Chain
<1>9. Linked(u)
  <2> SUFFICES ASSUME NEW i \in 1 .. m + n, NEW j \in 1 .. m + n, i < j, u[i] # NoBytes, u[j] # NoBytes,
                      \A k \in i + 1 .. j - 1 : u[k] = NoBytes
               PROVE  u[j] <= u[i] + 1
      BY <1>2 DEF Linked
  <2>1. CASE j <= m
    <3>1. i \in 1 .. m /\ j \in 1 .. m /\ \A k \in i + 1 .. j - 1 : k \in 1 .. m
        BY <2>1
    <3>2. \A k \in i + 1 .. j - 1 : s[k] = NoBytes
        BY <1>3, <3>1
    <3>3. s[i] # NoBytes /\ s[j] # NoBytes /\ u[i] = s[i] /\ u[j] = s[j]
        BY <1>3, <3>1
    <3> QED
        BY <1>1, <3>1, <3>2, <3>3 DEF Ends, Linked
  <2>2. CASE i > m
    <3>1. PICK p \in 1 .. n, q \in 1 .. n : i = m + p /\ j = m + q /\ p < q
        BY <1>5, <2>2
    <3>2. t[p] # NoBytes /\ t[q] # NoBytes /\ u[i] = t[p] /\ u[j] = t[q]
        BY <1>4, <3>1
    <3>3. ASSUME NEW k \in p + 1 .. q - 1 PROVE t[k] = NoBytes
      <4>1. m + k \in i + 1 .. j - 1 /\ k \in 1 .. n
          BY <3>1
      <4> QED
          BY <1>4, <4>1
    <3> QED
        BY <1>1, <3>1, <3>2, <3>3 DEF Chain, Ends, Linked
  <2>3. CASE i <= m /\ j > m
    <3>1. i \in 1 .. m /\ j \in m + 1 .. m + n
        BY <2>3
    <3>2. (\A k \in i + 1 .. m : k \in i + 1 .. j - 1) /\ (\A k \in m + 1 .. j - 1 : k \in i + 1 .. j - 1)
        BY <2>3
    <3>3. b <= s[i]
      <4>1. u[i] = s[i]
          BY <1>3, <3>1
      <4> QED
          BY <1>3, <1>7, <3>1, <3>2, <4>1
    <3>4. u[j] <= b + 1
        BY <1>8, <3>1, <3>2
    <3>5. u[i] = s[i] /\ s[i] \in Nat /\ u[j] \in Nat
      <4>1. u[i] = s[i] /\ s[i] \in Nat
          BY <1>3, <3>1
      <4>2. u[j] \in Nat
          BY <1>6, <3>1
      <4> QED
          BY <4>1, <4>2
    <3> QED
        BY <3>3, <3>4, <3>5
  <2> QED
      BY <2>1, <2>2, <2>3
<1>10. ASSUME NEW i \in 1 .. m + n, u[i] # NoBytes, \A k \in i + 1 .. m + n : u[k] = NoBytes
       PROVE  c <= u[i]
  <2>1. CASE i > m
    <3>1. PICK p \in 1 .. n : i = m + p
        BY <1>5, <2>1
    <3>2. ASSUME NEW k \in p + 1 .. n PROVE t[k] = NoBytes
      <4>1. m + k \in i + 1 .. m + n /\ k \in 1 .. n
          BY <3>1
      <4> QED
          BY <1>4, <1>10, <4>1
    <3>3. t[p] # NoBytes /\ u[i] = t[p]
        BY <1>4, <1>10, <3>1
    <3> QED
        BY <1>1, <3>2, <3>3 DEF Chain, Ends
  <2>2. CASE i <= m
    <3>1. i \in 1 .. m /\ (\A k \in i + 1 .. m : k \in i + 1 .. m + n)
        BY <2>2
    <3>2. b <= s[i] /\ u[i] = s[i] /\ s[i] \in Nat
        BY <1>3, <1>7, <1>10, <3>1
    <3>3. ASSUME NEW k \in 1 .. n PROVE t[k] = NoBytes
      <4>1. m + k \in i + 1 .. m + n
          BY <2>2
      <4> QED
          BY <1>4, <1>10, <4>1
    <3>4. c <= b
        BY <1>1, <3>3 DEF Chain
    <3> QED
        BY <3>2, <3>4
  <2> QED
      BY <2>1, <2>2
<1>11. Ends(u, c)
    BY <1>2, <1>9, <1>10 DEF Ends
<1> QED
    BY <1>11 DEF u

\* Two chains in a row are a chain.
LEMMA ChainJoined ==
    ASSUME NEW s \in Seq(Nat), NEW t \in Seq(Nat), NEW a \in Nat, NEW b \in Nat, NEW c \in Nat,
           Chain(s, a, b), Chain(t, b, c)
    PROVE  Chain(s \o t, a, c)
<1> DEFINE u == s \o t
<1>1. PICK m \in Nat, n \in Nat : m = Len(s) /\ n = Len(t)
    OBVIOUS
<1>2. u \in Seq(Nat) /\ Len(u) = m + n
    BY <1>1
<1>3. \A i \in 1 .. m : u[i] = s[i] /\ s[i] \in Nat
    BY <1>1
<1>4. \A i \in 1 .. n : u[m + i] = t[i] /\ t[i] \in Nat
    BY <1>1
<1>5. Ends(u, c)
    BY EndsJoined DEF Chain
<1> HIDE DEF u
<1>6. ASSUME \A i \in 1 .. m : s[i] = NoBytes PROVE b <= a
    BY <1>1, <1>6 DEF Chain
<1>7. ASSUME NEW i \in 1 .. m + n, u[i] # NoBytes, \A k \in 1 .. i - 1 : u[k] = NoBytes
      PROVE  u[i] <= a + 1
  <2>1. CASE i <= m
    <3>1. i \in 1 .. m /\ \A k \in 1 .. i - 1 : k \in 1 .. m
        BY <2>1
    <3>2. s[i] # NoBytes /\ u[i] = s[i] /\ \A k \in 1 .. i - 1 : s[k] = NoBytes
        BY <1>3, <1>7, <3>1
    <3> QED
        BY <1>1, <3>1, <3>2 DEF Chain
  <2>2. CASE i > m
    <3>1. PICK p \in 1 .. n : i = m + p
      <4>1. i - m \in 1 .. n /\ i = m + (i - m)
          BY <2>2
      <4> QED
          BY <4>1
    <3>2. \A k \in 1 .. m : k \in 1 .. i - 1
        BY <2>2
    <3>3. b <= a
        BY <1>3, <1>6, <1>7, <3>2
    <3>4. ASSUME NEW k \in 1 .. p - 1 PROVE t[k] = NoBytes
      <4>1. m + k \in 1 .. i - 1 /\ k \in 1 .. n
          BY <3>1
      <4> QED
          BY <1>4, <1>7, <4>1
    <3>5. t[p] # NoBytes /\ u[i] = t[p] /\ t[p] \in Nat
        BY <1>4, <1>7, <3>1
    <3>6. t[p] <= b + 1
        BY <1>1, <3>4, <3>5 DEF Chain
    <3> QED
        BY <3>3, <3>5, <3>6
  <2> QED
      BY <2>1, <2>2
<1>8. ASSUME \A i \in 1 .. m + n : u[i] = NoBytes PROVE c <= a
  <2>1. (\A i \in 1 .. m : i \in 1 .. m + n) /\ (\A i \in 1 .. n : m + i \in 1 .. m + n)
      OBVIOUS
  <2>2. (\A i \in 1 .. m : s[i] = NoBytes) /\ (\A i \in 1 .. n : t[i] = NoBytes)
      BY <1>3, <1>4, <1>8, <2>1
  <2>3. b <= a
      BY <1>6, <2>2
  <2>4. c <= b
      BY <1>1, <2>2 DEF Chain
  <2> QED
      BY <2>3, <2>4
<1>9. Chain(u, a, c)
    BY <1>2, <1>5, <1>7, <1>8 DEF Chain
<1> QED
    BY <1>9 DEF u

\* What comes first of linked chunks is linked.
LEMMA PrefixLinked ==
    /\ \A s, t \in Seq(Nat) : Linked(s \o t) => Linked(s)
    /\ \A s \in Seq(Nat), k \in Nat : k <= Len(s) /\ Linked(s) => Linked(SubSeq(s, 1, k))
<1>1. ASSUME NEW s \in Seq(Nat), NEW t \in Seq(Nat), Linked(s \o t) PROVE Linked(s)
  <2> DEFINE u == s \o t
  <2>1. PICK m \in Nat : m = Len(s)
      OBVIOUS
  <2>2. Len(u) = m + Len(t) /\ Len(t) \in Nat
      BY <2>1
  <2>3. \A i \in 1 .. m : i \in 1 .. Len(u) /\ u[i] = s[i]
      BY <2>1
  <2>4. Linked(u)
      BY <1>1
  <2> HIDE DEF u
  <2> SUFFICES ASSUME NEW i \in 1 .. m, NEW j \in 1 .. m, i < j, s[i] # NoBytes, s[j] # NoBytes,
                      \A k \in i + 1 .. j - 1 : s[k] = NoBytes
               PROVE  s[j] <= s[i] + 1
      BY <2>1 DEF Linked
  <2>5. \A k \in i + 1 .. j - 1 : k \in 1 .. m
      OBVIOUS
  <2>6. \A k \in i + 1 .. j - 1 : u[k] = NoBytes
      BY <2>3, <2>5
  <2> QED
      BY <2>3, <2>4, <2>6 DEF Linked
<1>2. ASSUME NEW s \in Seq(Nat), NEW n \in Nat, n <= Len(s), Linked(s) PROVE Linked(SubSeq(s, 1, n))
  <2> DEFINE u == SubSeq(s, 1, n)
  <2>1. Len(u) = n
      BY <1>2
  <2>2. \A i \in 1 .. n : i \in 1 .. Len(s) /\ u[i] = s[i]
      BY <1>2
  <2> HIDE DEF u
  <2> SUFFICES ASSUME NEW i \in 1 .. n, NEW j \in 1 .. n, i < j, u[i] # NoBytes, u[j] # NoBytes,
                      \A k \in i + 1 .. j - 1 : u[k] = NoBytes
               PROVE  u[j] <= u[i] + 1
      BY <2>1 DEF Linked, u
  <2>3. \A k \in i + 1 .. j - 1 : k \in 1 .. n
      OBVIOUS
  <2>4. \A k \in i + 1 .. j - 1 : s[k] = NoBytes
      BY <2>2, <2>3
  <2> QED
      BY <1>2, <2>2, <2>4 DEF Linked
<1> QED
    BY <1>1, <1>2

\* The frames of one sequence behind another, and of a part.
LEMMA ValsJoined ==
    /\ \A fs \in Seq(Frames) : Vals(fs) \in Seq(Nat) /\ Len(Vals(fs)) = Len(fs)
    /\ \A fs, gs \in Seq(Frames) : Vals(fs \o gs) = Vals(fs) \o Vals(gs)
    /\ \A fs \in Seq(Frames), k \in Nat : k <= Len(fs) => Vals(SubSeq(fs, 1, k)) = SubSeq(Vals(fs), 1, k)
<1>1. ASSUME NEW fs \in Seq(Frames) PROVE Vals(fs) \in Seq(Nat) /\ Len(Vals(fs)) = Len(fs)
  <2>1. ASSUME NEW i \in 1 .. Len(fs) PROVE fs[i].val \in Nat
    <3>1. fs[i] \in Frames
        OBVIOUS
    <3> QED
        BY <3>1 DEF Frames
  <2>2. Vals(fs) \in [1 .. Len(fs) -> Nat]
      BY <2>1 DEF Vals, NoBytes
  <2>3. PICK n \in Nat : n = Len(fs)
      OBVIOUS
  <2> HIDE DEF Vals
  <2>4. PICK v : v = Vals(fs)
      OBVIOUS
  <2>5. v \in [1 .. n -> Nat]
      BY <2>2, <2>3, <2>4
  <2>6. v \in Seq(Nat) /\ Len(v) = n
      BY <2>5
  <2> QED
      BY <2>3, <2>4, <2>6
<1>2. ASSUME NEW fs \in Seq(Frames), NEW gs \in Seq(Frames) PROVE Vals(fs \o gs) = Vals(fs) \o Vals(gs)
  <2>1. PICK m \in Nat, n \in Nat : m = Len(fs) /\ n = Len(gs)
      OBVIOUS
  <2> DEFINE hs == fs \o gs
             v == Vals(hs)
             x == Vals(fs) \o Vals(gs)
  <2>2. hs \in Seq(Frames) /\ Len(hs) = m + n
      BY <2>1
  <2>3. v \in Seq(Nat) /\ Len(v) = m + n
      BY <1>1, <2>2
  <2>4. x \in Seq(Nat) /\ Len(x) = m + n
    <3>1. PICK y \in Seq(Nat), z \in Seq(Nat) : y = Vals(fs) /\ z = Vals(gs) /\ Len(y) = m /\ Len(z) = n
        BY <1>1, <2>1
    <3>2. y \o z \in Seq(Nat) /\ Len(y \o z) = Len(y) + Len(z)
        OBVIOUS
    <3> QED
        BY <3>1, <3>2
  <2>5. ASSUME NEW i \in 1 .. m + n PROVE v[i] = x[i]
    <3>1. v[i] = IF IsOutput(hs[i]) THEN hs[i].val ELSE NoBytes
        BY <2>2 DEF Vals
    <3>2. CASE i <= m
      <4>1. hs[i] = fs[i] /\ i \in 1 .. Len(fs)
          BY <2>1, <3>2
      <4>2. x[i] = Vals(fs)[i]
          BY <1>1, <2>1, <3>2
      <4> QED
          BY <3>1, <4>1, <4>2 DEF Vals
    <3>3. CASE i > m
      <4>1. PICK p \in 1 .. n : i = m + p
        <5>1. i - m \in 1 .. n /\ i = m + (i - m)
            BY <3>3
        <5> QED
            BY <5>1
      <4>2. hs[i] = gs[p] /\ p \in 1 .. Len(gs)
          BY <2>1, <4>1
      <4>3. x[i] = Vals(gs)[p]
          BY <1>1, <2>1, <4>1
      <4> QED
          BY <3>1, <4>2, <4>3 DEF Vals
    <3>4. i <= m \/ i > m
        OBVIOUS
    <3> HIDE DEF v, x
    <3> QED
        BY <3>2, <3>3, <3>4
  <2> HIDE DEF v, x
  <2>6. v = x
      BY <2>3, <2>4, <2>5
  <2> QED
      BY <2>6 DEF v, x, hs
<1>3. ASSUME NEW fs \in Seq(Frames), NEW n \in Nat, n <= Len(fs)
      PROVE  Vals(SubSeq(fs, 1, n)) = SubSeq(Vals(fs), 1, n)
  <2> DEFINE hs == SubSeq(fs, 1, n)
             v == Vals(hs)
             x == SubSeq(Vals(fs), 1, n)
  <2>1. hs \in Seq(Frames) /\ Len(hs) = n
      BY <1>3
  <2>2. v \in Seq(Nat) /\ Len(v) = n
      BY <1>1, <2>1
  <2>3. x \in Seq(Nat) /\ Len(x) = n
      BY <1>1, <1>3
  <2>4. ASSUME NEW i \in 1 .. n PROVE v[i] = x[i]
    <3>1. hs[i] = fs[i] /\ i \in 1 .. Len(fs) /\ i \in 1 .. Len(hs)
        BY <1>3, <2>1
    <3>2. x[i] = Vals(fs)[i]
        BY <1>1, <1>3
    <3> QED
        BY <3>1, <3>2 DEF Vals
  <2> HIDE DEF v, x
  <2>5. v = x
      BY <2>2, <2>3, <2>4
  <2> QED
      BY <2>5 DEF v, x, hs
<1> QED
    BY <1>1, <1>2, <1>3

\* What comes last is linked too.
LEMMA SuffixLinked ==
    ASSUME NEW s \in Seq(Nat), NEW t \in Seq(Nat), Linked(s \o t)
    PROVE  Linked(t)
<1> DEFINE u == s \o t
<1>1. PICK m \in Nat, n \in Nat : m = Len(s) /\ n = Len(t)
    OBVIOUS
<1>2. Len(u) = m + n /\ Linked(u)
    BY <1>1
<1>3. \A i \in 1 .. n : m + i \in 1 .. m + n /\ u[m + i] = t[i]
    BY <1>1
<1> HIDE DEF u
<1> SUFFICES ASSUME NEW i \in 1 .. n, NEW j \in 1 .. n, i < j, t[i] # NoBytes, t[j] # NoBytes,
                    \A k \in i + 1 .. j - 1 : t[k] = NoBytes
             PROVE  t[j] <= t[i] + 1
    BY <1>1 DEF Linked
<1>4. PICK p \in 1 .. m + n, q \in 1 .. m + n : p = m + i /\ q = m + j
    BY <1>3
<1>5. p < q /\ u[p] = t[i] /\ u[q] = t[j]
  <2>1. p < q
      BY <1>4
  <2>2. u[p] = t[i] /\ u[q] = t[j]
      BY <1>3, <1>4
  <2> QED
      BY <2>1, <2>2
<1>6. ASSUME NEW k \in p + 1 .. q - 1 PROVE u[k] = NoBytes
  <2>1. PICK r \in i + 1 .. j - 1 : k = m + r
    <3>1. k - m \in i + 1 .. j - 1 /\ k = m + (k - m)
        BY <1>4
    <3> QED
        BY <3>1
  <2>2. r \in 1 .. n
      OBVIOUS
  <2> QED
      BY <1>3, <2>1, <2>2
<1>7. u[q] <= u[p] + 1
    BY <1>2, <1>5, <1>6 DEF Linked
<1> QED
    BY <1>5, <1>7

\* A Clear takes away what comes before it: a replay is linked if the whole is.
LEMMA ReplayLinked ==
    ASSUME NEW base \in Seq(Nat), NEW fs \in Seq(Frames), Linked(base \o Vals(fs))
    PROVE  Linked(Replay(base, fs))
<1> DEFINE v == Vals(fs)
           t == [i \in 1 .. Len(fs) |->
                   IF IsOutput(fs[i]) /\ ~ClearedAfter(fs, i) THEN fs[i].val ELSE NoBytes]
<1>1. v \in Seq(Nat) /\ Len(fs) \in Nat
    BY ValsJoined
<1>2. \A i \in 1 .. Len(fs) : ClearedAfter(fs, i) => ClearedAfter(fs, 0)
    BY <1>1 DEF ClearedAfter
<1>3. Replay(base, fs) = (IF ClearedAfter(fs, 0) THEN <<>> ELSE base) \o t
    BY DEF Replay
<1>4. CASE ~ClearedAfter(fs, 0)
  <2>1. t = v
      BY <1>2, <1>4 DEF Vals
  <2> QED
      BY <1>3, <1>4, <2>1
<1>5. CASE ClearedAfter(fs, 0)
  <2>1. Linked(v)
      BY <1>1, SuffixLinked
  <2>2. Len(v) = Len(fs)
      BY ValsJoined
  <2>3. t \in Seq(Nat) /\ Len(t) = Len(fs)
    <3>1. ASSUME NEW i \in 1 .. Len(fs) PROVE fs[i].val \in Nat
      <4>1. fs[i] \in Frames
          OBVIOUS
      <4> QED
          BY <4>1 DEF Frames
    <3>2. PICK n \in Nat : n = Len(fs)
        BY <1>1
    <3>3. t \in [1 .. n -> Nat]
        BY <3>1, <3>2 DEF NoBytes
    <3> HIDE DEF t
    <3>4. t \in Seq(Nat) /\ Len(t) = n
        BY <3>3
    <3> QED
        BY <3>2, <3>4
  <2>4. ASSUME NEW i \in 1 .. Len(fs), t[i] # NoBytes, NEW k \in 1 .. Len(fs), i <= k
        PROVE  t[k] = v[k]
    <3>1. ~ClearedAfter(fs, i)
        BY <2>4
    <3>2. ~ClearedAfter(fs, k)
        BY <1>1, <2>4, <3>1 DEF ClearedAfter
    <3> QED
        BY <3>2 DEF Vals
  <2> HIDE DEF t, v
  <2>5. Linked(t)
    <3> SUFFICES ASSUME NEW i \in 1 .. Len(fs), NEW j \in 1 .. Len(fs), i < j, t[i] # NoBytes, t[j] # NoBytes,
                        \A k \in i + 1 .. j - 1 : t[k] = NoBytes
                 PROVE  t[j] <= t[i] + 1
        BY <2>3 DEF Linked
    <3>1. i <= i /\ i <= j /\ \A k \in i + 1 .. j - 1 : k \in 1 .. Len(fs) /\ i <= k
        BY <1>1
    <3>2. t[i] = v[i] /\ t[j] = v[j] /\ \A k \in i + 1 .. j - 1 : v[k] = NoBytes
        BY <2>4, <3>1
    <3> QED
        BY <2>1, <2>2, <3>2 DEF Linked
  <2>6. <<>> \o t = t
      BY <2>3
  <2> QED
      BY <1>3, <1>5, <2>5, <2>6 DEF t
<1> QED
    BY <1>4, <1>5

\* A part of what is behind linked chunks is linked to them.
LEMMA PartLinked ==
    ASSUME NEW s \in Seq(Nat), NEW v \in Seq(Nat), NEW k \in Nat, k <= Len(v), Linked(s \o v)
    PROVE  Linked(s \o SubSeq(v, 1, k))
<1> DEFINE p == SubSeq(v, 1, k)
           u == s \o v
           x == s \o p
<1>1. PICK m \in Nat, n \in Nat : m = Len(s) /\ n = Len(v)
    OBVIOUS
<1>2. k <= n
    BY <1>1
<1>3. p \in Seq(Nat) /\ Len(p) = k /\ \A i \in 1 .. k : p[i] = v[i]
    BY <1>1, <1>2
<1> HIDE DEF p
<1>4. /\ Len(u) = m + n /\ \A i \in 1 .. m : u[i] = s[i]
      /\ \A i \in 1 .. n : u[m + i] = v[i]
    BY <1>1
<1>5. /\ Len(x) = m + k /\ \A i \in 1 .. m : x[i] = s[i]
      /\ \A i \in 1 .. k : x[m + i] = p[i]
  <2>1. PICK q \in Seq(Nat) : q = p /\ k = Len(q)
      BY <1>3
  <2>2. /\ Len(s \o q) = m + k /\ \A i \in 1 .. m : (s \o q)[i] = s[i]
        /\ \A i \in 1 .. k : (s \o q)[m + i] = q[i]
      BY <1>1, <2>1
  <2> QED
      BY <2>1, <2>2
<1>6. Linked(u)
    OBVIOUS
<1> HIDE DEF u, x
<1>7. ASSUME NEW i \in 1 .. m + k PROVE i \in 1 .. Len(u) /\ x[i] = u[i]
  <2>1. i \in 1 .. m + n
      BY <1>2
  <2>2. CASE i <= m
    <3>1. i \in 1 .. m
        BY <2>2
    <3> QED
        BY <1>4, <1>5, <2>1, <3>1
  <2>3. CASE i > m
    <3>1. PICK j \in 1 .. k : i = m + j
      <4>1. i - m \in 1 .. k /\ i = m + (i - m)
          BY <2>3
      <4> QED
          BY <4>1
    <3>2. j \in 1 .. n
        BY <1>2
    <3> QED
        BY <1>3, <1>4, <1>5, <2>1, <3>1, <3>2
  <2> QED
      BY <2>2, <2>3
<1>8. ASSUME NEW i \in 1 .. m + k, NEW j \in 1 .. m + k, i < j, x[i] # NoBytes, x[j] # NoBytes,
             \A h \in i + 1 .. j - 1 : x[h] = NoBytes
      PROVE  x[j] <= x[i] + 1
  <2>1. \A h \in i + 1 .. j - 1 : h \in 1 .. m + k
      OBVIOUS
  <2>2. \A h \in i + 1 .. j - 1 : u[h] = NoBytes
      BY <1>7, <1>8, <2>1
  <2>3. u[i] = x[i] /\ u[j] = x[j] /\ i \in 1 .. Len(u) /\ j \in 1 .. Len(u)
      BY <1>7
  <2>4. u[j] <= u[i] + 1
      BY <1>6, <1>8, <2>2, <2>3 DEF Linked
  <2> QED
      BY <2>3, <2>4
<1>9. Linked(x)
    BY <1>5, <1>8 DEF Linked
<1> QED
    BY <1>9 DEF x, p

\* A log that is cut is linked as far as it goes.
LEMMA CutLinked ==
    ASSUME NEW s \in Seq(Nat), NEW fs \in Seq(Frames), NEW k \in Nat, k <= Len(fs), Linked(s \o Vals(fs))
    PROVE  Linked(s \o Vals(SubSeq(fs, 1, k)))
<1>1. Vals(fs) \in Seq(Nat) /\ Len(Vals(fs)) = Len(fs) /\ Vals(SubSeq(fs, 1, k)) = SubSeq(Vals(fs), 1, k)
    BY ValsJoined
<1> QED
    BY <1>1, PartLinked

\* Small chains.
LEMMA SmallChains ==
    /\ \A n : Ends(<<>>, n)
    /\ \A a, b \in Nat : Chain(<<>>, a, b) <=> b <= a
    /\ \A a \in Nat : Chain(<<NoBytes>>, a, a) /\ Chain(<<a + 1>>, a, a + 1)
    /\ \A s, b : \A a, c \in Nat : a <= c /\ s \in Seq(Nat) /\ Chain(s, a, b) /\ b \in Nat => Chain(s, c, b)
<1>1. \A n : Ends(<<>>, n)
    BY DEF Ends, Linked
<1>2. ASSUME NEW a \in Nat, NEW b \in Nat PROVE Chain(<<>>, a, b) <=> b <= a
    BY <1>1 DEF Chain
<1>3. ASSUME NEW x \in Nat PROVE Linked(<<x>>) /\ Ends(<<x>>, x)
  <2>1. Len(<<x>>) = 1 /\ <<x>>[1] = x /\ \A i \in 1 .. 1 : i = 1
      OBVIOUS
  <2>2. PICK s : s = <<x>> /\ Len(s) = 1 /\ s[1] = x
      BY <2>1
  <2>3. Linked(s)
      BY <2>1, <2>2 DEF Linked
  <2>4. Ends(s, x)
      BY <2>1, <2>2, <2>3 DEF Ends
  <2> QED
      BY <2>2, <2>3, <2>4
<1>4. ASSUME NEW a \in Nat PROVE Chain(<<NoBytes>>, a, a) /\ Chain(<<a + 1>>, a, a + 1)
  <2>1. (\A i \in 1 .. 1 : i = 1) /\ \A y : Len(<<y>>) = 1 /\ <<y>>[1] = y
      OBVIOUS
  <2>2. PICK s : s = <<NoBytes>> /\ Len(s) = 1 /\ s[1] = NoBytes
      BY <2>1
  <2>3. Linked(s)
      BY <1>3, <2>2 DEF NoBytes
  <2>4. \A i \in 1 .. Len(s) : s[i] = NoBytes
      BY <2>1, <2>2
  <2>5. Chain(s, a, a)
      BY <2>3, <2>4 DEF Chain, Ends
  <2>6. PICK t : t = <<a + 1>> /\ Len(t) = 1 /\ t[1] = a + 1
      BY <2>1
  <2>7. Ends(t, a + 1)
      BY <1>3, <2>6
  <2>8. \A i \in 1 .. Len(t) : t[i] = a + 1 /\ t[i] # NoBytes
      BY <2>1, <2>6 DEF NoBytes
  <2>9. 1 \in 1 .. Len(t)
      BY <2>6
  <2>10. Chain(t, a, a + 1)
      BY <2>7, <2>8, <2>9 DEF Chain
  <2> QED
      BY <2>2, <2>5, <2>6, <2>10
<1>5. ASSUME NEW s \in Seq(Nat), NEW a \in Nat, NEW b \in Nat, NEW c \in Nat, a <= c, Chain(s, a, b)
      PROVE  Chain(s, c, b)
  <2>1. Ends(s, b)
      BY <1>5 DEF Chain
  <2>2. ASSUME NEW i \in 1 .. Len(s), s[i] # NoBytes, \A k \in 1 .. i - 1 : s[k] = NoBytes
        PROVE  s[i] <= c + 1
    <3>1. s[i] <= a + 1
        BY <1>5, <2>2 DEF Chain
    <3>2. s[i] \in Nat
        OBVIOUS
    <3> QED
        BY <1>5, <3>1, <3>2
  <2>3. (\A i \in 1 .. Len(s) : s[i] = NoBytes) => b <= c
    <3>1. (\A i \in 1 .. Len(s) : s[i] = NoBytes) => b <= a
        BY <1>5 DEF Chain
    <3> QED
        BY <1>5, <3>1
  <2> QED
      BY <2>1, <2>2, <2>3 DEF Chain
<1> QED
    BY <1>1, <1>2, <1>4, <1>5

\* One record more: the next chunk goes on with the chain, a Clear leaves it.
LEMMA PushChain ==
    ASSUME NEW fs \in Seq(Frames), NEW f \in Frames, NEW a \in Nat, NEW n \in Nat, Chain(Vals(fs), a, n)
    PROVE  /\ f.kind = "output" /\ f.val = n + 1 => Chain(Vals(Append(fs, f)), a, n + 1)
           /\ f.kind # "output" => Chain(Vals(Append(fs, f)), a, n)
<1>1. <<f>> \in Seq(Frames) /\ Append(fs, f) = fs \o <<f>>
    OBVIOUS
<1>2. Vals(fs) \in Seq(Nat) /\ Vals(Append(fs, f)) = Vals(fs) \o Vals(<<f>>)
    BY <1>1, ValsJoined
<1>3. PICK x \in Nat : x = (IF IsOutput(f) THEN f.val ELSE NoBytes)
    BY DEF Frames, NoBytes
<1>4. Vals(<<f>>) = <<x>>
  <2>1. Len(<<f>>) = 1 /\ <<f>>[1] = f /\ \A i \in 1 .. 1 : i = 1
      OBVIOUS
  <2>2. PICK g : g = <<f>> /\ Len(g) = 1 /\ g[1] = f
      BY <2>1
  <2>3. Vals(g) = [i \in 1 .. 1 |-> x]
      BY <1>3, <2>1, <2>2 DEF Vals
  <2>4. [i \in 1 .. 1 |-> x] = <<x>>
      OBVIOUS
  <2> QED
      BY <2>2, <2>3, <2>4
<1>5. ASSUME f.kind = "output", f.val = n + 1 PROVE Chain(Vals(Append(fs, f)), a, n + 1)
  <2>1. Chain(<<x>>, n, n + 1) /\ <<x>> \in Seq(Nat) /\ n + 1 \in Nat
      BY <1>3, <1>5, SmallChains DEF IsOutput
  <2> QED
      BY <1>2, <1>4, <2>1, ChainJoined
<1>6. ASSUME f.kind # "output" PROVE Chain(Vals(Append(fs, f)), a, n)
  <2>1. x = NoBytes
      BY <1>3, <1>6 DEF IsOutput
  <2>2. Chain(<<x>>, n, n)
      BY <2>1, SmallChains
  <2>3. <<x>> \in Seq(Nat)
      OBVIOUS
  <2> QED
      BY <1>2, <1>4, <2>2, <2>3, ChainJoined
<1> QED
    BY <1>5, <1>6

\* The ring ends with the newest chunk.
LEMMA RingEnds ==
    ASSUME NEW s \in Seq(Nat), NEW n \in Nat, Ends(s, n)
    PROVE  Ends(AppendCapped(s, n + 1), n + 1)
<1> DEFINE t == Append(s, n + 1)
<1>1. t \in Seq(Nat) /\ Len(s) \in Nat /\ Len(t) = Len(s) + 1 /\ t = s \o <<n + 1>>
  <2>1. PICK c \in Nat : c = n + 1
      OBVIOUS
  <2>2. Append(s, c) \in Seq(Nat) /\ Len(s) \in Nat /\ Len(Append(s, c)) = Len(s) + 1
      BY <2>1
  <2>3. Append(s, c) = s \o <<c>>
      BY <2>1
  <2> QED
      BY <2>1, <2>2, <2>3
<1>2. Ends(t, n + 1)
  <2>1. Chain(<<n + 1>>, n, n + 1) /\ <<n + 1>> \in Seq(Nat) /\ n + 1 \in Nat
      BY SmallChains
  <2> QED
      BY <1>1, <2>1, EndsJoined
<1>3. AppendCapped(s, n + 1) \in {t, Tail(t)}
    BY DEF AppendCapped
<1> HIDE DEF t
<1>4. PICK m \in Nat : m = Len(s)
    BY <1>1
<1> DEFINE u == Tail(t)
<1>5. Len(u) = m /\ \A i \in 1 .. m : u[i] = t[i + 1] /\ i + 1 \in 1 .. Len(t)
  <2>1. t # <<>>
      BY <1>1
  <2> QED
      BY <1>1, <1>4, <2>1
<1> HIDE DEF u
<1>6. Linked(u)
  <2> SUFFICES ASSUME NEW i \in 1 .. m, NEW j \in 1 .. m, i < j, u[i] # NoBytes, u[j] # NoBytes,
                      \A k \in i + 1 .. j - 1 : u[k] = NoBytes
               PROVE  u[j] <= u[i] + 1
      BY <1>5 DEF Linked
  <2>1. PICK p \in 1 .. Len(t), q \in 1 .. Len(t) : p = i + 1 /\ q = j + 1
      BY <1>5
  <2>2. p < q
      BY <2>1
  <2>3. u[i] = t[p] /\ u[j] = t[q]
      BY <1>5, <2>1
  <2>4. ASSUME NEW k \in p + 1 .. q - 1 PROVE t[k] = NoBytes
    <3>1. PICK r \in i + 1 .. j - 1 : k = r + 1
      <4>1. k - 1 \in i + 1 .. j - 1 /\ k = (k - 1) + 1
          BY <2>1
      <4> QED
          BY <4>1
    <3>2. r \in 1 .. m
        OBVIOUS
    <3> QED
        BY <1>5, <3>1, <3>2
  <2>5. t[q] <= t[p] + 1
      BY <1>2, <2>2, <2>3, <2>4 DEF Ends, Linked
  <2> QED
      BY <2>3, <2>5
<1>7. ASSUME NEW i \in 1 .. m, u[i] # NoBytes, \A k \in i + 1 .. m : u[k] = NoBytes
      PROVE  n + 1 <= u[i]
  <2>1. PICK p \in 1 .. Len(t) : p = i + 1
      BY <1>5
  <2>2. u[i] = t[p]
      BY <1>5, <2>1
  <2>3. ASSUME NEW k \in p + 1 .. Len(t) PROVE t[k] = NoBytes
    <3>1. PICK r \in i + 1 .. m : k = r + 1
      <4>1. k - 1 \in i + 1 .. m /\ k = (k - 1) + 1
          BY <1>1, <1>4, <2>1
      <4> QED
          BY <4>1
    <3>2. r \in 1 .. m
        OBVIOUS
    <3> QED
        BY <1>5, <1>7, <3>1, <3>2
  <2>4. n + 1 <= t[p]
      BY <1>2, <1>7, <2>2, <2>3 DEF Ends
  <2> QED
      BY <2>2, <2>4
<1>8. Ends(u, n + 1)
    BY <1>5, <1>6, <1>7 DEF Ends
<1> QED
    BY <1>2, <1>3, <1>8 DEF u

\* A batch goes on as its records do.
LEMMA BatchChain ==
    ASSUME NEW b, NEW r, NEW fs, IsBatch(b, r, fs), NEW m \in Nat, NEW n \in Nat, Chain(Vals(r), m, n)
    PROVE  Chain(Vals(fs), m, n)
<1>1. b \in Frames /\ b.kind = "batch" /\ r \in Seq(Frames) /\ fs = <<b>> \o r /\ <<b>> \in Seq(Frames)
    BY DEF IsBatch
<1>2. Vals(r) \in Seq(Nat) /\ Vals(fs) = Vals(<<b>>) \o Vals(r)
    BY <1>1, ValsJoined
<1>3. Vals(<<b>>) = <<NoBytes>>
  <2>1. Len(<<b>>) = 1 /\ <<b>>[1] = b /\ \A i \in 1 .. 1 : i = 1
      OBVIOUS
  <2>2. PICK g : g = <<b>> /\ Len(g) = 1 /\ g[1] = b
      BY <2>1
  <2>3. Vals(g) = [i \in 1 .. 1 |-> NoBytes]
      BY <1>1, <2>1, <2>2 DEF Vals, IsOutput
  <2>4. [i \in 1 .. 1 |-> NoBytes] = <<NoBytes>>
      OBVIOUS
  <2> QED
      BY <2>2, <2>3, <2>4
<1>4. Chain(<<NoBytes>>, m, m)
    BY SmallChains
<1>5. <<NoBytes>> \in Seq(Nat)
    BY DEF NoBytes
<1> QED
    BY <1>2, <1>3, <1>4, <1>5, ChainJoined

\* A tick's operation is not final, and a persist stays what it is.
LEMMA FinalOp ==
    ASSUME TypeOK
    PROVE  /\ BeginTick => ~op'.final
           /\ BuildCheckpoint \/ NeedsCheckpoint => op'.final = op.final
<1>1. \A fs : ~[NoOp EXCEPT !.recs = fs].final
    BY DEF NoOp
<1>2. ASSUME BeginTick PROVE ~op'.final
  <2>1. op' = NoOp \/ \E fs : op' = [NoOp EXCEPT !.recs = fs]
      BY <1>2 DEF BeginTick
  <2> QED
      BY <1>1, <2>1, OpFieldsMore
<1>3. ASSUME BuildCheckpoint \/ NeedsCheckpoint PROVE op'.final = op.final
    BY <1>3 DEF BuildCheckpoint, NeedsCheckpoint, TypeOK
<1> QED
    BY <1>2, <1>3

\* A push adds the record, or the overflow has been flagged.
LEMMA PushCases ==
    ASSUME NEW p \in [recs : Seq(Frames), overflowed : BOOLEAN], NEW f \in Frames,
           NEW q \in {PushOutput(p, f), PushRecord(p, f)}
    PROVE  q.overflowed \/ (~p.overflowed /\ q.recs = Append(p.recs, f))
<1> DEFINE g == Append(p.recs, f)
           o == [recs |-> <<>>, overflowed |-> TRUE]
           r == [p EXCEPT !.recs = g]
<1>1. /\ PushOutput(p, f) \in IF p.overflowed THEN {p} ELSE {o, r}
      /\ PushRecord(p, f) = IF p.overflowed THEN p ELSE r
    BY DEF PushOutput, PushRecord
<1>2. o.overflowed /\ r.recs = g
  <2> HIDE DEF g
  <2> QED
      OBVIOUS
<1> HIDE DEF g, o, r
<1>3. q.overflowed \/ (~p.overflowed /\ q.recs = g)
    BY <1>1, <1>2
<1> QED
    BY <1>3 DEF g

\* What arrives goes on with the pending output.
LEMMA PendingGrows ==
    ASSUME TypeOK, TypeOK', Tee \/ ClearHistory, enabled \/ ClearHistory, NEW a \in Nat,
           ~pend.overflowed => Chain(Vals(pend.recs), a, out), ~pend'.overflowed
    PROVE  Chain(Vals(pend'.recs), a, out')
<1>1. pend \in [recs : Seq(Frames), overflowed : BOOLEAN] /\ pend.recs \in Seq(Frames) /\ out \in Nat
    BY DEF TypeOK
<1>2. CASE ClearHistory /\ ~enabled
  <2>1. pend' = pend /\ out' = out
      BY <1>2 DEF ClearHistory
  <2> QED
      BY <2>1
<1>3. CASE ClearHistory /\ enabled
  <2>1. pend' = PushRecord(pend, Clear) /\ out' = out
      BY <1>3 DEF ClearHistory
  <2>2. Clear \in Frames /\ Clear.kind # "output"
      BY DEF Clear, Frames
  <2>3. ~pend.overflowed /\ pend'.recs = Append(pend.recs, Clear)
      BY <1>1, <2>1, <2>2, PushCases
  <2>4. Chain(Vals(Append(pend.recs, Clear)), a, out)
      BY <1>1, <2>2, <2>3, PushChain
  <2> QED
      BY <2>1, <2>3, <2>4
<1>4. CASE Tee /\ enabled
  <2> DEFINE f == Output(out + 1)
  <2>1. pend' = PushOutput(pend, f) /\ out' = out + 1
      BY <1>4 DEF Tee
  <2>2. f \in Frames /\ f.kind = "output" /\ f.val = out + 1
      BY <1>1 DEF Output, Frames
  <2> HIDE DEF f
  <2>3. ~pend.overflowed /\ pend'.recs = Append(pend.recs, f)
      BY <1>1, <2>1, <2>2, PushCases
  <2>4. Chain(Vals(Append(pend.recs, f)), a, out + 1)
      BY <1>1, <2>2, <2>3, PushChain
  <2> QED
      BY <2>1, <2>3, <2>4
<1> QED
    BY <1>2, <1>3, <1>4

\* No frames add nothing.
LEMMA NoVals ==
    /\ Vals(<<>>) = <<>>
    /\ \A s \in Seq(Nat) : s \o Vals(<<>>) = s
<1>1. Vals(<<>>) = <<>>
    BY DEF Vals
<1>2. \A s \in Seq(Nat) : s \o <<>> = s
    OBVIOUS
<1> QED
    BY <1>1, <1>2

\* Steps without a writer that could append.
LEMMA NoAppender ==
    ASSUME TypeOK, PairingIInv,
           \/ StartIncarnation \/ UnlinkCheckpoint \/ UnlinkLog \/ TruncateMeta \/ WriteMeta
           \/ CloseSession \/ RemoveFile \/ Crash \/ PowerLoss \/ AppendFails
    PROVE  (w'.reg => w'.needsFull) /\ pc' \notin {"append", "rename", "reset"}
<1>1. ~NoWriter.reg /\ NoWriter.needsFull
    BY DEF NoWriter
<1>2. CASE StartIncarnation \/ UnlinkCheckpoint \/ UnlinkLog \/ TruncateMeta \/ RemoveFile
  <2>1. w' = w /\ pc \in Gone
      BY <1>2 DEF StartIncarnation, UnlinkCheckpoint, UnlinkLog, TruncateMeta, RemoveFile, Gone
  <2>2. pc' \notin {"append", "rename", "reset"}
      BY <1>2 DEF StartIncarnation, UnlinkCheckpoint, UnlinkLog, TruncateMeta, RemoveFile
  <2> QED
      BY <2>1, <2>2 DEF Gone, PairingIInv, Progress
<1>3. CASE WriteMeta
  <2>1. w'.needsFull
      BY <1>3 DEF WriteMeta, WriterAfter, NoWriter
  <2> QED
      BY <1>3, <2>1 DEF WriteMeta
<1>4. CASE CloseSession \/ Crash \/ PowerLoss
    BY <1>1, <1>4 DEF CloseSession, Crash, PowerLoss, Die
<1>5. CASE AppendFails
    BY <1>5, WriterSteps DEF AppendFails
<1> QED
    BY <1>2, <1>3, <1>4, <1>5

\* Ring and pending output end with the newest chunk after every step.
LEMMA SessionLinkedKept ==
    ASSUME TypeOK, TypeOK', PairingIInv, OneInv, AckInv, SessionLinked, Next
    PROVE  SessionLinked'
<1>1. out \in Nat /\ out' \in Nat /\ ring \in Seq(Nat) /\ Buffers'
    BY BuffersKept DEF TypeOK
<1>2. ASSUME ring' = <<>> \/ UNCHANGED <<ring, out>> PROVE Ends(ring, out)'
    BY <1>2, SmallChains DEF SessionLinked
<1>3. Chain(Vals(<<>>), out', out')
    BY <1>1, NoVals, SmallChains
<1>4. ASSUME pend'.recs = <<>> \/ UNCHANGED <<pend, out>> PROVE Chain(Vals(pend.recs), out, out)'
    BY <1>3, <1>4 DEF SessionLinked
<1>5. CASE Tee \/ ClearHistory
  <2>1. Ends(ring, out)'
    <3>1. CASE Tee
      <4>1. ring' = AppendCapped(ring, out + 1) /\ out' = out + 1
          BY <3>1 DEF Tee
      <4> QED
          BY <1>1, <4>1, RingEnds DEF SessionLinked
    <3>2. CASE ClearHistory
        BY <1>2, <3>2 DEF ClearHistory
    <3> QED
        BY <1>5, <3>1, <3>2
  <2>2. Chain(Vals(pend.recs), out, out)'
    <3>1. CASE pend'.overflowed \/ ~enabled'
        BY <1>1, <1>4, <3>1 DEF Buffers
    <3>2. CASE ~pend'.overflowed /\ enabled'
      <4>1. enabled' = enabled /\ out <= out'
          BY <1>1, <1>5 DEF Tee, ClearHistory
      <4>2. Chain(Vals(pend'.recs), out, out')
          BY <1>1, <1>5, <3>2, <4>1, PendingGrows DEF SessionLinked
      <4>3. Vals(pend'.recs) \in Seq(Nat)
        <5>1. pend'.recs \in Seq(Frames)
            BY DEF TypeOK
        <5> QED
            BY <5>1, ValsJoined
      <4> QED
          BY <1>1, <4>1, <4>2, <4>3, SmallChains
    <3> QED
        BY <3>1, <3>2
  <2> QED
      BY <2>1, <2>2 DEF SessionLinked
<1>6. CASE BeginTick
  <2>1. UNCHANGED <<ring, out>> /\ pend' \in {pend, NoPending}
      BY <1>6 DEF BeginTick
  <2>2. pend'.recs = <<>> \/ UNCHANGED <<pend, out>>
      BY <2>1, OpFields
  <2> QED
      BY <1>2, <1>4, <2>1, <2>2 DEF SessionLinked
<1>7. CASE CloseSession \/ Crash \/ PowerLoss
  <2>1. ring' = <<>> /\ pend' = NoPending
      BY <1>7 DEF CloseSession, Crash, PowerLoss, Die
  <2> QED
      BY <1>2, <1>4, <2>1, OpFields DEF SessionLinked
<1>8. CASE \/ StartIncarnation \/ UnlinkCheckpoint \/ UnlinkLog \/ TruncateMeta \/ WriteMeta \/ EnableHistory
           \/ BeginFlush \/ BuildCheckpoint \/ RenameCheckpoint \/ ResetLog \/ RenameFails \/ ResetLogFails
           \/ NeedsCheckpoint \/ AppendIncrements \/ AppendFails \/ RemoveFile \/ WriteBack
  <2>1. UNCHANGED <<ring, pend, out>>
      BY <1>8 DEF StartIncarnation, UnlinkCheckpoint, UnlinkLog, TruncateMeta, WriteMeta, EnableHistory,
                  BeginFlush, BuildCheckpoint, RenameCheckpoint, ResetLog, RenameFails, ResetLogFails,
                  NeedsCheckpoint, AppendIncrements, AppendFails, RemoveFile, WriteBack, session
  <2> QED
      BY <1>2, <1>4, <2>1 DEF SessionLinked
<1> QED
    BY <1>5, <1>6, <1>7, <1>8 DEF Next

\* The pending output continues a checkpoint being written after every step.
LEMMA CheckpointLinkedKept ==
    ASSUME TypeOK, TypeOK', PairingIInv, SessionLinked, CheckpointLinked, Next, ~gapped'
    PROVE  CheckpointLinked'
<1>1. out \in Nat /\ out' \in Nat
    BY DEF TypeOK
<1>2. CASE Tee \/ ClearHistory
  <2>1. UNCHANGED <<pc, op, w>> /\ out <= out'
      BY <1>1, <1>2 DEF Tee, ClearHistory
  <2> SUFFICES ASSUME pc \in {"rename", "reset"}
               PROVE  \E b \in 0 .. out' : Ends(op.ring, b) /\ (~pend'.overflowed => Chain(Vals(pend'.recs), b, out'))
      BY <2>1 DEF CheckpointLinked
  <2>2. enabled \/ ClearHistory
      BY <1>2 DEF Tee, Unteed, PairingIInv, Progress
  <2>3. PICK b \in 0 .. out : Ends(op.ring, b) /\ (~pend.overflowed => Chain(Vals(pend.recs), b, out))
      BY DEF CheckpointLinked
  <2>4. b \in Nat /\ b \in 0 .. out'
      BY <1>1, <2>1
  <2>5. ~pend'.overflowed => Chain(Vals(pend'.recs), b, out')
      BY <1>2, <2>2, <2>3, <2>4, PendingGrows
  <2> QED
      BY <2>3, <2>4, <2>5
<1>3. CASE BuildCheckpoint
  <2>1. op'.ring = ring /\ UNCHANGED <<pend, out>>
      BY <1>3, PersistOp DEF BuildCheckpoint, session
  <2>2. out' \in 0 .. out'
      BY <1>1
  <2> QED
      BY <2>1, <2>2 DEF CheckpointLinked, SessionLinked
<1>4. CASE RenameCheckpoint \/ EnableHistory \/ WriteBack
  <2>1. UNCHANGED <<op, pend, out>> /\ (pc' \in {"rename", "reset"} => pc \in {"rename", "reset"})
      BY <1>4 DEF RenameCheckpoint, EnableHistory, WriteBack, session
  <2> QED
      BY <2>1 DEF CheckpointLinked
<1>5. CASE \/ StartIncarnation \/ UnlinkCheckpoint \/ UnlinkLog \/ TruncateMeta \/ WriteMeta
           \/ CloseSession \/ RemoveFile \/ Crash \/ PowerLoss \/ AppendFails
    BY <1>5, NoAppender DEF CheckpointLinked
<1>6. CASE BeginTick \/ BeginFlush \/ ResetLog \/ RenameFails \/ ResetLogFails \/ NeedsCheckpoint \/ AppendIncrements
  <2>1. pc' \notin {"rename", "reset"}
      BY <1>6 DEF BeginTick, BeginFlush, ResetLog, RenameFails, ResetLogFails, NeedsCheckpoint,
                  AppendIncrements, AfterFailedCheckpoint
  <2> QED
      BY <2>1 DEF CheckpointLinked
<1> QED
    BY <1>2, <1>3, <1>4, <1>5, <1>6 DEF Next

\* Estranged is kept by every step.
LEMMA EstrangedKept ==
    ASSUME TypeOK, TypeOK', PairingIInv, OneInv, AckInv, Estranged, Next
    PROVE  Estranged'
<1>1. ASSUME pc' = "append" PROVE ~op'.final
  <2>1. CASE BeginTick
      BY <2>1, FinalOp
  <2>2. CASE ~BeginTick
    <3>1. pc = "append" /\ op' = op
        BY <1>1, <2>2, NoAppender
           DEF Next, EnableHistory, Tee, ClearHistory, BeginFlush, BuildCheckpoint,
               RenameCheckpoint, ResetLog, RenameFails, ResetLogFails, AfterFailedCheckpoint,
               NeedsCheckpoint, AppendIncrements, WriteBack
    <3> QED
        BY <3>1 DEF Estranged
  <2> QED
      BY <2>1, <2>2
<1>2. ids \in Nat /\ log.base \in Nat
    BY DEF TypeOK, Logs
<1>3. CASE \/ StartIncarnation \/ UnlinkCheckpoint \/ UnlinkLog \/ TruncateMeta \/ WriteMeta
           \/ CloseSession \/ RemoveFile \/ Crash \/ PowerLoss \/ AppendFails
    BY <1>1, <1>3, NoAppender DEF Estranged
<1>4. CASE \/ EnableHistory \/ Tee \/ ClearHistory \/ BeginTick \/ BeginFlush \/ BuildCheckpoint
           \/ NeedsCheckpoint \/ WriteBack
  <2>1. UNCHANGED <<w, orphaned, cp, log>>
      BY <1>4 DEF EnableHistory, Tee, ClearHistory, BeginTick, BeginFlush, BuildCheckpoint, NeedsCheckpoint,
                  WriteBack, disk, ghosts
  <2> QED
      BY <1>1, <2>1 DEF Estranged
<1>5. CASE RenameCheckpoint
  <2>1. log' = log /\ cp'.id = ids /\ pc = "rename"
      BY <1>5 DEF RenameCheckpoint
  <2>2. log.base < ids
      BY <2>1 DEF OneInv, Ages, LogImages
  <2> QED
      BY <1>1, <1>2, <2>1, <2>2 DEF Estranged
<1>6. CASE ResetLog
    BY <1>1, <1>6 DEF ResetLog, Estranged
<1>7. CASE RenameFails
  <2>1. UNCHANGED <<orphaned, cp, log>>
      BY <1>7 DEF RenameFails, disk, ghosts
  <2>2. w'.reg /\ ~w'.needsFull => w.reg /\ ~w.needsFull
    <3>1. ~ResetLog
        BY <1>7 DEF RenameFails, ResetLog
    <3> QED
        BY <1>7, <3>1, WriterSteps
  <2> QED
      BY <1>1, <2>1, <2>2 DEF Estranged
<1>8. CASE ResetLogFails
  <2>1. log' \in {log, BadLog} /\ cp' = cp /\ pc = "reset"
      BY <1>8 DEF ResetLogFails
  <2>2. log.base < ids /\ cp.id = ids
      BY <2>1 DEF AckInv, OwnCheckpoint, PairingIInv, Progress
  <2>3. BadLog.st = "bad"
      BY DEF BadLog, NoLog
  <2> QED
      BY <1>1, <1>2, <2>1, <2>2, <2>3 DEF Estranged
<1>9. CASE AppendIncrements
  <2>1. log' = WithFrames(HeaderedLog, Batch) /\ UNCHANGED <<cp, orphaned>> /\ pc = "append"
      BY <1>9 DEF AppendIncrements
  <2>2. HeaderedLog = log
      BY <2>1, AppendsBatch DEF AckInv
  <2>3. log'.st = log.st /\ log'.base = log.base
    <3>1. log \in Logs /\ Batch \in Seq(Frames)
        BY BatchType DEF TypeOK
    <3> QED
        BY <2>1, <2>2, <3>1, WithFramesType
  <2>4. w.reg /\ ~w.needsFull
      BY <2>1 DEF PairingIInv, Progress
  <2> QED
      BY <1>1, <2>1, <2>3, <2>4 DEF Estranged
<1> QED
    BY <1>3, <1>4, <1>5, <1>6, <1>7, <1>8, <1>9 DEF Next

\* Three sequences in a row.
LEMMA ThreeJoined ==
    ASSUME NEW r \in Seq(Nat), NEW s \in Seq(Nat), NEW t \in Seq(Nat)
    PROVE  (r \o s) \o t = r \o (s \o t)
BY ConcatAssociative, SMTT(60)

\* An append that succeeds, or that is cut short, goes on with what the checkpoint and
\* the log hold.
LEMMA AppendLinked ==
    ASSUME TypeOK, PairingIInv, AckInv, pc = "append", log.st = "ok", NEW m \in Nat, NEW n \in Nat,
           Ends(cp.ring \o Vals(log.frames), m), Chain(Vals(op.recs), m, n)
    PROVE  /\ Ends(cp.ring \o Vals(WithFrames(HeaderedLog, Batch).frames), n)
           /\ \A t \in TornAppends(HeaderedLog) : Linked(cp.ring \o Vals(t.frames))
<1>1. HeaderedLog = log
    BY AppendsBatch DEF AckInv
<1>2. PICK b : IsBatch(b, op.recs, Batch)
    BY AppendsBatch DEF AckInv
<1>3. Batch \in Seq(Frames) /\ log \in Logs /\ log.frames \in Seq(Frames) /\ cp.ring \in Seq(Nat)
    BY BatchType DEF TypeOK, Logs, Checkpoints
<1>4. PICK r \in Seq(Nat), x \in Seq(Nat), y \in Seq(Nat) :
         r = cp.ring /\ x = Vals(log.frames) /\ y = Vals(Batch) /\ Len(y) = Len(Batch)
    BY <1>3, ValsJoined
<1>5. r \o x \in Seq(Nat)
    OBVIOUS
<1>6. Chain(y, m, n)
    BY <1>2, <1>4, BatchChain
<1>7. Ends((r \o x) \o y, n)
    BY <1>4, <1>5, <1>6, EndsJoined
<1>8. \A u, v \in Seq(Nat) : (r \o u) \o v = r \o (u \o v)
    BY ThreeJoined
<1>9. ASSUME NEW fs \in Seq(Frames) PROVE WithFrames(log, fs).frames = log.frames \o fs
  <2> DEFINE f == log.frames \o fs
  <2>1. WithFrames(log, fs) = [log EXCEPT !.frames = f]
      BY DEF WithFrames
  <2> HIDE DEF f
  <2>2. WithFrames(log, fs).frames = f
      BY <1>3, <2>1 DEF Logs
  <2> QED
      BY <2>2 DEF f
<1>10. Ends(cp.ring \o Vals(WithFrames(HeaderedLog, Batch).frames), n)
  <2>1. Vals(WithFrames(log, Batch).frames) = x \o y
      BY <1>3, <1>4, <1>9, ValsJoined
  <2>2. (r \o x) \o y = r \o (x \o y)
      BY <1>8
  <2> QED
      BY <1>1, <1>4, <1>7, <2>1, <2>2
<1>11. ASSUME NEW t \in TornAppends(HeaderedLog) PROVE Linked(cp.ring \o Vals(t.frames))
  <2>1. PICK k \in 0 .. Len(Batch) - 1 : t = WithFrames(log, SubSeq(Batch, 1, k))
      BY <1>1 DEF TornAppends
  <2>2. k \in Nat /\ k <= Len(Batch) /\ SubSeq(Batch, 1, k) \in Seq(Frames)
    <3>1. Len(Batch) \in Nat
        BY <1>3
    <3> QED
        BY <1>3, <2>1, <3>1
  <2>3. Vals(SubSeq(Batch, 1, k)) = SubSeq(y, 1, k) /\ Vals(SubSeq(Batch, 1, k)) \in Seq(Nat)
      BY <1>3, <1>4, <2>2, ValsJoined
  <2>4. Vals(t.frames) = x \o SubSeq(y, 1, k)
      BY <1>3, <1>4, <1>9, <2>1, <2>2, <2>3, ValsJoined
  <2>5. Linked((r \o x) \o SubSeq(y, 1, k))
      BY <1>4, <1>5, <1>7, <2>2, PartLinked DEF Ends
  <2>6. (r \o x) \o SubSeq(y, 1, k) = r \o (x \o SubSeq(y, 1, k))
      BY <1>8, <2>3
  <2> QED
      BY <1>4, <2>4, <2>5, <2>6
<1> QED
    BY <1>10, <1>11

\* So a log that continues a checkpoint stays linked to it, whatever comes of an append.
LEMMA AppendedFile ==
    ASSUME TypeOK, PairingIInv, OneInv, AckInv, Estranged, LogLinked, pc = "append",
           NEW t \in TornAppends(HeaderedLog) \cup {WithFrames(HeaderedLog, Batch)},
           NEW c \in CpImages, c.st = "ok", t.st = "ok", t.base = c.id
    PROVE  Linked(c.ring \o Vals(t.frames))
<1>1. w.reg /\ ~w.needsFull /\ HeaderedLog = log
    BY AppendsBatch DEF PairingIInv, Progress, AckInv
<1>2. c = cp
    BY <1>1 DEF AckInv, OwnCheckpoint, CpImages
<1>3. t.st = log.st /\ t.base = log.base
  <2>1. log \in Logs /\ Batch \in Seq(Frames)
      BY BatchType DEF TypeOK
  <2> QED
      BY <1>1, <2>1, TornType, WithFramesType
<1>4. ~orphaned
    BY <1>1, <1>2, <1>3 DEF Estranged
<1>5. PICK m \in 0 .. out, n \in 0 .. out : Ends(cp.ring \o Vals(log.frames), m) /\ Chain(Vals(op.recs), m, n)
    BY <1>1, <1>4 DEF LogLinked, WillAppend
<1>6. m \in Nat /\ n \in Nat
    BY DEF TypeOK
<1> QED
    BY <1>2, <1>3, <1>5, <1>6, AppendLinked DEF Ends

\* The files stay linked.
LEMMA FilesLinkedKept ==
    ASSUME TypeOK, TypeOK', PairingIInv, OneInv, AckInv, Estranged, FilesLinked, CheckpointLinked, LogLinked, Next
    PROVE  FilesLinked'
<1>1. NoLog.st = "absent" /\ BadLog.st = "bad" /\ NoCheckpoint.st = "absent" /\ Linked(NoCheckpoint.ring)
    BY SmallChains DEF NoLog, BadLog, NoCheckpoint, Ends
<1>2. \A c \in CpImages : c.ring \in Seq(Nat)
    BY DEF TypeOK, CpImages, Checkpoints
<1>3. ASSUME NEW t, CpImages' \subseteq CpImages \cup {NoCheckpoint}, LogImages' \subseteq LogImages \cup {t},
             \A c \in CpImages : c.st = "ok" /\ t.st = "ok" /\ t.base = c.id => Linked(c.ring \o Vals(t.frames))
      PROVE  FilesLinked'
    BY <1>1, <1>3 DEF FilesLinked
<1>4. ASSUME CpImages' \subseteq CpImages \cup {NoCheckpoint}, LogImages' \subseteq LogImages \cup {NoLog, BadLog}
      PROVE  FilesLinked'
    BY <1>1, <1>4 DEF FilesLinked
<1>5. \A g, i : \A c \in CpImages : Linked(c.ring \o Vals(FreshLog(g, i).frames))
  <2>1. \A g, i : FreshLog(g, i).frames = <<>>
      BY FreshLogDecodes
  <2> QED
      BY <1>2, <2>1, NoVals DEF FilesLinked
<1>6. CASE \/ StartIncarnation \/ UnlinkCheckpoint \/ UnlinkLog \/ TruncateMeta \/ WriteMeta \/ RemoveFile
           \/ EnableHistory \/ Tee \/ ClearHistory \/ BeginTick \/ BeginFlush \/ BuildCheckpoint
           \/ RenameFails \/ ResetLogFails \/ NeedsCheckpoint \/ CloseSession \/ WriteBack
  <2>1. /\ cp' \in {cp, NoCheckpoint} /\ log' \in {log, NoLog, BadLog}
        /\ dcp' \in {cp, dcp} /\ dlog' \in {log, dlog}
      BY <1>6 DEF StartIncarnation, UnlinkCheckpoint, UnlinkLog, TruncateMeta, WriteMeta, RemoveFile,
                  EnableHistory, Tee, ClearHistory, BeginTick, BeginFlush, BuildCheckpoint,
                  RenameFails, ResetLogFails, NeedsCheckpoint, CloseSession, WriteBack, disk, durable
  <2> QED
      BY <1>4, <2>1 DEF CpImages, LogImages
<1>7. CASE RenameCheckpoint
  <2>1. /\ log' = log /\ dlog' \in {NoLog, dlog} /\ cp'.id = ids /\ cp'.ring = op.ring /\ dcp' = cp'
        /\ pc = "rename"
      BY <1>7 DEF RenameCheckpoint, SyncedDirectory, SyncedFile
  <2>2. log.base # ids /\ dlog.base # ids
    <3>1. log.base < ids /\ dlog.base < ids
        BY <2>1 DEF OneInv, Ages, LogImages
    <3>2. log.base \in Nat /\ dlog.base \in Nat /\ ids \in Nat
        BY DEF TypeOK, Logs
    <3> QED
        BY <3>1, <3>2
  <2>3. Linked(op.ring)
      BY <2>1 DEF CheckpointLinked, Ends
  <2> QED
      BY <1>1, <2>1, <2>2, <2>3 DEF FilesLinked, CpImages, LogImages
<1>8. CASE ResetLog
  <2>1. log' = FreshLog(w.gen + 1, ids) /\ UNCHANGED <<cp, dcp, dlog>>
      BY <1>8 DEF ResetLog, durable
  <2> QED
      BY <1>3, <1>5, <2>1 DEF CpImages, LogImages
<1>9. CASE AppendIncrements \/ AppendFails
  <2>1. /\ pc = "append" /\ UNCHANGED <<cp, dcp, dlog>>
        /\ log' \in TornAppends(HeaderedLog) \cup {WithFrames(HeaderedLog, Batch)}
      BY <1>9 DEF AppendIncrements, AppendFails, durable
  <2>2. \A c \in CpImages : c.st = "ok" /\ log'.st = "ok" /\ log'.base = c.id => Linked(c.ring \o Vals(log'.frames))
      BY <2>1, AppendedFile
  <2> QED
      BY <1>3, <2>1, <2>2 DEF CpImages, LogImages
<1>10. CASE Crash
  <2>1. cp' = cp /\ dcp' = cp /\ log' \in CrashedLogs /\ dlog' = log'
      BY <1>10 DEF Crash
  <2>2. CASE pc = "append" /\ log' # log
    <3>1. log' \in TornAppends(HeaderedLog) \cup {WithFrames(HeaderedLog, Batch)}
        BY <2>1, <2>2 DEF CrashedLogs
    <3>2. \A c \in CpImages : c.st = "ok" /\ log'.st = "ok" /\ log'.base = c.id => Linked(c.ring \o Vals(log'.frames))
        BY <2>2, <3>1, AppendedFile
    <3> QED
        BY <1>3, <2>1, <3>2 DEF CpImages, LogImages
  <2>3. CASE log' = FreshLog(w.gen + 1, ids)
      BY <1>3, <1>5, <2>1, <2>3 DEF CpImages, LogImages
  <2>4. CASE log' \in {log, BadLog}
      BY <1>4, <2>1, <2>4 DEF CpImages, LogImages
  <2>5. log' \in {log, BadLog, FreshLog(w.gen + 1, ids)} \/ pc = "append"
      BY <2>1 DEF CrashedLogs
  <2> QED
      BY <2>2, <2>3, <2>4, <2>5
<1>11. CASE PowerLoss
  <2>1. /\ cp' \in {cp, dcp} /\ dcp' = cp' /\ dlog' = log'
        /\ log' \in {log, dlog, BadLog} \/ log' \in CutLogs(log)
      BY <1>11 DEF PowerLoss
  <2>2. CASE log' \in {log, dlog, BadLog}
      BY <1>4, <2>1, <2>2 DEF CpImages, LogImages
  <2>3. CASE log' \in CutLogs(log)
    <3>1. PICK k \in 0 .. Len(log.frames) : log' = [log EXCEPT !.frames = SubSeq(@, 1, k)]
        BY <2>3 DEF CutLogs
    <3>2. log \in Logs /\ log.frames \in Seq(Frames)
        BY DEF TypeOK, Logs
    <3>3. log'.frames = SubSeq(log.frames, 1, k) /\ log'.st = log.st /\ log'.base = log.base
      <4> DEFINE f == SubSeq(log.frames, 1, k)
      <4>1. log' = [log EXCEPT !.frames = f]
          BY <3>1
      <4> HIDE DEF f
      <4>2. log'.frames = f /\ log'.st = log.st /\ log'.base = log.base
          BY <3>2, <4>1 DEF Logs
      <4> QED
          BY <4>2 DEF f
    <3>4. k \in Nat /\ k <= Len(log.frames)
      <4>1. Len(log.frames) \in Nat
          BY <3>2
      <4> QED
          BY <3>1, <4>1
    <3>5. \A c \in CpImages : c.st = "ok" /\ log'.st = "ok" /\ log'.base = c.id => Linked(c.ring \o Vals(log'.frames))
        BY <1>2, <3>2, <3>3, <3>4, CutLinked DEF FilesLinked, LogImages
    <3> QED
        BY <1>3, <2>1, <3>5 DEF CpImages, LogImages
  <2> QED
      BY <2>1, <2>2, <2>3
<1> QED
    BY <1>6, <1>7, <1>8, <1>9, <1>10, <1>11 DEF Next

\* What a writer will append continues its log after every step.
LEMMA LogLinkedKept ==
    ASSUME TypeOK, TypeOK', PairingIInv, OneInv, AckInv, Estranged, CheckpointLinked, LogLinked, Next, ~gapped'
    PROVE  LogLinked'
<1>1. out \in Nat /\ out' \in Nat
    BY DEF TypeOK
<1>2. Buffers /\ Buffers'
    BY BuffersKept DEF AckInv
<1>3. ASSUME NEW b \in 0 .. out', NEW d \in 0 .. out', Ends(cp'.ring \o Vals(log'.frames), b),
             Chain(Vals(op'.recs), b, d), ~pend'.overflowed => Chain(Vals(pend'.recs), d, out')
      PROVE  LogLinked'
    BY <1>3 DEF LogLinked
<1>4. \A n \in Nat : Chain(Vals(<<>>), n, n)
    BY NoVals, SmallChains
<1>5. ASSUME WillAppend, UNCHANGED <<cp, log, pend, out>>, op'.recs = op.recs PROVE LogLinked'
    BY <1>5 DEF LogLinked
<1>6. ASSUME ~WillAppend' PROVE LogLinked'
    BY <1>6 DEF LogLinked
<1>7. CASE \/ StartIncarnation \/ UnlinkCheckpoint \/ UnlinkLog \/ TruncateMeta \/ WriteMeta
           \/ CloseSession \/ RemoveFile \/ Crash \/ PowerLoss \/ AppendFails
    BY <1>7, NoAppender DEF LogLinked, WillAppend
<1>8. CASE EnableHistory \/ WriteBack
  <2>1. UNCHANGED <<cp, log, pend, out, op, w, pc, orphaned>>
      BY <1>8 DEF EnableHistory, WriteBack, disk, session, ghosts
  <2> QED
      BY <1>5, <1>6, <2>1 DEF WillAppend
<1>9. CASE Tee \/ ClearHistory
  <2>1. UNCHANGED <<cp, log, op, w, pc, orphaned>> /\ out <= out'
      BY <1>1, <1>9 DEF Tee, ClearHistory, disk
  <2>2. CASE ~WillAppend
      BY <1>6, <2>1, <2>2 DEF WillAppend
  <2>3. CASE WillAppend
    <3>1. enabled \/ ClearHistory
        BY <1>9, <2>3 DEF Tee, Unteed, WillAppend
    <3>2. PICK b \in 0 .. out, d \in 0 .. out :
             /\ Ends(cp.ring \o Vals(log.frames), b) /\ Chain(Vals(op.recs), b, d)
             /\ ~pend.overflowed => Chain(Vals(pend.recs), d, out)
        BY <2>3 DEF LogLinked
    <3>3. d \in Nat /\ b \in 0 .. out' /\ d \in 0 .. out'
        BY <1>1, <2>1
    <3>4. ~pend'.overflowed => Chain(Vals(pend'.recs), d, out')
        BY <1>9, <3>1, <3>2, <3>3, PendingGrows
    <3> QED
        BY <1>3, <2>1, <3>2, <3>3, <3>4
  <2> QED
      BY <2>2, <2>3
<1>10. CASE BeginTick
  <2>1. UNCHANGED <<cp, log, out, w, orphaned>> /\ pc = "idle" /\ w.reg
      BY <1>10 DEF BeginTick, disk, ghosts
  <2>2. CASE w.needsFull \/ orphaned
      BY <1>6, <2>1, <2>2 DEF WillAppend
  <2>3. CASE ~w.needsFull /\ ~orphaned /\ pend.overflowed
    <3>1. pc' = "snap" /\ ~op'.final
        BY <1>10, <2>3, FinalOp DEF BeginTick
    <3> QED
        BY <1>6, <3>1 DEF WillAppend
  <2>4. CASE ~w.needsFull /\ ~orphaned /\ ~pend.overflowed
    <3>1. op'.recs = pend.recs /\ pend' = NoPending /\ op.recs = <<>>
        BY <1>2, <1>10, <2>1, <2>4, PersistOp DEF Buffers
    <3>2. WillAppend
        BY <2>1, <2>4 DEF WillAppend
    <3>3. PICK b \in 0 .. out, d \in 0 .. out :
             /\ Ends(cp.ring \o Vals(log.frames), b) /\ Chain(Vals(op.recs), b, d)
             /\ Chain(Vals(pend.recs), d, out)
        BY <2>4, <3>2 DEF LogLinked
    <3>4. b \in Nat /\ d \in Nat
        BY <1>1
    <3>5. d <= b
      <4>1. Chain(<<>>, b, d)
          BY <3>1, <3>3, NoVals
      <4> QED
          BY <3>4, <4>1, SmallChains
    <3>6. Chain(Vals(pend.recs), b, out)
      <4>1. pend.recs \in Seq(Frames)
          BY DEF TypeOK
      <4>2. Vals(pend.recs) \in Seq(Nat)
          BY <4>1, ValsJoined
      <4> QED
          BY <1>1, <3>3, <3>4, <3>5, <4>2, SmallChains
    <3>7. pend'.recs = <<>> /\ Chain(Vals(<<>>), out, out) /\ out \in 0 .. out
        BY <1>1, <1>4, <3>1, OpFields
    <3> QED
        BY <1>3, <2>1, <3>1, <3>3, <3>6, <3>7
  <2> QED
      BY <2>2, <2>3, <2>4
<1>11. CASE BeginFlush \/ BuildCheckpoint
  <2>1. UNCHANGED <<cp, log, pend, out, w, orphaned>> /\ pc \in {"idle", "snap"} /\ pc' \in {"snap", "rename"}
      BY <1>11 DEF BeginFlush, BuildCheckpoint, disk, session, ghosts
  <2>2. op'.recs = op.recs
    <3>1. op.recs = <<>>
        BY <1>2, <2>1 DEF Buffers
    <3> QED
        BY <1>11, <3>1, PersistOp
  <2>3. WillAppend' => WillAppend
    <3>1. CASE BeginFlush
        BY <2>1, <3>1 DEF WillAppend, BeginFlush
    <3>2. CASE BuildCheckpoint
        BY <2>1, <3>2, FinalOp DEF WillAppend, BuildCheckpoint
    <3> QED
        BY <1>11, <3>1, <3>2
  <2> QED
      BY <1>5, <1>6, <2>1, <2>2, <2>3
<1>12. CASE RenameCheckpoint
    BY <1>6, <1>12 DEF RenameCheckpoint, WillAppend
<1>13. CASE ResetLog
  <2>1. /\ cp' = cp /\ UNCHANGED <<pend, out>> /\ pc = "reset" /\ op' = NoOp
        /\ log' = FreshLog(w.gen + 1, ids)
      BY <1>13 DEF ResetLog, session
  <2>2. cp.ring = op.ring
      BY <2>1 DEF AckInv, OwnCheckpoint
  <2>3. PICK b \in 0 .. out : Ends(op.ring, b) /\ (~pend.overflowed => Chain(Vals(pend.recs), b, out))
      BY <2>1 DEF CheckpointLinked
  <2>4. cp.ring \o Vals(log'.frames) = cp.ring
    <3>1. cp.ring \in Seq(Nat)
        BY DEF TypeOK, Checkpoints
    <3>2. log'.frames = <<>>
        BY <2>1 DEF FreshLog
    <3> QED
        BY <3>1, <3>2, NoVals
  <2>5. Chain(Vals(op'.recs), b, b)
      BY <1>1, <1>4, <2>1, OpFields
  <2> QED
      BY <1>3, <2>1, <2>2, <2>3, <2>4, <2>5
<1>14. CASE RenameFails
  <2>1. UNCHANGED <<cp, log, pend, out, orphaned>> /\ pc = "rename" /\ op' = NoOp
      BY <1>14 DEF RenameFails, AfterFailedCheckpoint, disk, session, ghosts
  <2>2. op'.recs = op.recs
      BY <1>2, <2>1, OpFields DEF Buffers
  <2>3. WillAppend' => WillAppend
    <3>1. ~NoWriter.reg
        BY DEF NoWriter
    <3>2. w'.reg => op.final /\ w' = ResolveLogState
        BY <1>14, <3>1 DEF RenameFails
    <3> QED
        BY <2>1, <3>2, ResolveKeeps DEF WillAppend
  <2> QED
      BY <1>5, <1>6, <2>1, <2>2, <2>3
<1>15. CASE ResetLogFails
  <2>1. ~w'.reg \/ orphaned'
    <3>1. ~NoWriter.reg
        BY DEF NoWriter
    <3> QED
        BY <1>15, <3>1 DEF ResetLogFails
  <2> QED
      BY <1>6, <2>1 DEF WillAppend
<1>16. CASE NeedsCheckpoint
  <2>1. pc' = "snap" /\ ~op'.final
      BY <1>16, FinalOp DEF NeedsCheckpoint, Estranged
  <2> QED
      BY <1>6, <2>1 DEF WillAppend
<1>17. CASE AppendIncrements
  <2>1. /\ pc = "append" /\ UNCHANGED <<cp, pend, out, orphaned>> /\ op' = NoOp
        /\ log' = WithFrames(HeaderedLog, Batch)
      BY <1>17 DEF AppendIncrements, session
  <2>2. CASE orphaned
      BY <1>6, <2>1, <2>2 DEF WillAppend
  <2>3. CASE ~orphaned
    <3>1. w.reg /\ ~w.needsFull
        BY <2>1 DEF PairingIInv, Progress
    <3>2. PICK b \in 0 .. out, d \in 0 .. out :
             /\ Ends(cp.ring \o Vals(log.frames), b) /\ Chain(Vals(op.recs), b, d)
             /\ ~pend.overflowed => Chain(Vals(pend.recs), d, out)
        BY <2>1, <2>3, <3>1 DEF LogLinked, WillAppend
    <3>3. b \in Nat /\ d \in Nat
        BY <1>1
    <3>4. log.st = "ok"
        BY <2>1, <2>3, <3>1 DEF AckInv, SureLog
    <3>5. Ends(cp.ring \o Vals(log'.frames), d)
        BY <2>1, <3>2, <3>3, <3>4, AppendLinked
    <3>6. Chain(Vals(op'.recs), d, d)
        BY <1>4, <2>1, <3>3, OpFields
    <3> QED
        BY <1>3, <2>1, <3>2, <3>5, <3>6
  <2> QED
      BY <2>2, <2>3
<1> QED
    BY <1>7, <1>8, <1>9, <1>10, <1>11, <1>12, <1>13, <1>14, <1>15, <1>16, <1>17 DEF Next

\* The invariant holds in every state.
LEMMA HoleInvHolds == Spec => []HoleInv
<1>1. Init => HoleInv
  <2> SUFFICES ASSUME Init PROVE HoleInv
      OBVIOUS
  <2>1. /\ pend.recs = <<>> /\ pc = "down" /\ w = NoWriter /\ out = 0 /\ ring = <<>>
        /\ cp = NoCheckpoint /\ dcp = NoCheckpoint
      BY OpFields DEF Init
  <2>2. ~w.reg /\ cp.st = "absent" /\ cp.ring = <<>>
      BY <2>1 DEF NoWriter, NoCheckpoint
  <2>3. Estranged /\ CheckpointLinked /\ LogLinked
      BY <2>1, <2>2 DEF Estranged, CheckpointLinked, LogLinked, WillAppend
  <2>4. SessionLinked
      BY <2>1, NoVals, SmallChains DEF SessionLinked
  <2>5. FilesLinked
      BY <2>1, <2>2, SmallChains DEF FilesLinked, CpImages, Ends
  <2> QED
      BY <2>3, <2>4, <2>5 DEF HoleInv
<1>2. TypeOK /\ TypeOK' /\ PairingIInv /\ OneInv /\ AckInv /\ HoleInv /\ [Next]_vars => HoleInv'
  <2> SUFFICES ASSUME TypeOK, TypeOK', PairingIInv, OneInv, AckInv, HoleInv, [Next]_vars PROVE HoleInv'
      OBVIOUS
  <2>1. CASE Next
    <3>1. Estranged'
        BY <2>1, EstrangedKept DEF HoleInv
    <3>2. ASSUME ~gapped' PROVE (FilesLinked /\ SessionLinked /\ CheckpointLinked /\ LogLinked)'
      <4>1. ~gapped
        <5>1. gapped' = (gapped \/ Unteed) \/ gapped' = gapped
            BY <2>1 DEF Next, StartIncarnation, UnlinkCheckpoint, UnlinkLog, TruncateMeta, WriteMeta, EnableHistory,
                   Tee, ClearHistory, BeginTick, BeginFlush, BuildCheckpoint, RenameCheckpoint, ResetLog,
                   RenameFails, ResetLogFails, NeedsCheckpoint, AppendIncrements, AppendFails, CloseSession,
                   RemoveFile, Crash, WriteBack, PowerLoss, ghosts
        <5> QED
            BY <3>2, <5>1
      <4>2. Estranged /\ FilesLinked /\ SessionLinked /\ CheckpointLinked /\ LogLinked
          BY <4>1 DEF HoleInv
      <4> QED
          BY <2>1, <3>2, <4>2, FilesLinkedKept, SessionLinkedKept, CheckpointLinkedKept, LogLinkedKept
    <3> QED
        BY <3>1, <3>2 DEF HoleInv
  <2>2. CASE UNCHANGED vars
    <3>1. UNCHANGED <<cp, log, dcp, dlog, w, pc, op, ring, pend, out, orphaned, gapped>>
        BY <2>2 DEF vars, disk, durable, session, ghosts
    <3>2. Estranged' = Estranged /\ SessionLinked' = SessionLinked /\ CheckpointLinked' = CheckpointLinked
        BY <3>1 DEF Estranged, SessionLinked, CheckpointLinked
    <3>3. FilesLinked' = FilesLinked /\ LogLinked' = LogLinked
        BY <3>1 DEF FilesLinked, LogLinked, WillAppend, CpImages, LogImages
    <3> QED
        BY <3>1, <3>2, <3>3 DEF HoleInv
  <2> QED
      BY <2>1, <2>2
<1> QED
    BY <1>1, <1>2, TypeCorrect, PairingIInvHolds, OneInvHolds, AckInvHolds, PTL DEF Spec

\* No persisted range is missing from the middle of a restore, whatever overflowed, was
\* capped, failed or crashed before it: unless output came between the first checkpoint
\* and enable_history.
THEOREM NoHoleInRestore == Spec => []NoHole
<1>1. TypeOK /\ PairingIInv /\ OneInv /\ HoleInv => NoHole
  <2> SUFFICES ASSUME TypeOK, PairingIInv, OneInv, HoleInv, ~gapped PROVE Linked(Restore.scroll)
      BY DEF NoHole
  <2>1. FilesLinked /\ cp \in CpImages /\ log \in LogImages
      BY DEF HoleInv, CpImages, LogImages
  <2>2. cp.ring \in Seq(Nat) /\ log.frames \in Seq(Frames)
      BY DEF TypeOK, Checkpoints, Logs
  <2>3. CASE Restore = NothingToRestore
      BY <2>3, SmallChains DEF NothingToRestore, Ends
  <2>4. CASE Restore = RestoreFromCheckpoint(cp)
      BY <2>1, <2>4 DEF RestoreFromCheckpoint, Finish, FilesLinked
  <2>5. CASE LogUsable(cp, log) /\ Restore = RestoreFromLog(cp, log)
    <3>1. log.st = "ok" /\ cp.st # "torn" /\ (cp.st = "ok" => log.gen = cp.gen) /\ (cp.st = "absent" => log.gen = 0)
        BY <2>1, <2>5 DEF LogUsable, DecodesLog, OneInv, Ages
    <3>2. cp.st = "ok"
      <4>1. log.gen > 0 /\ log.gen \in Nat
          BY <2>1, <3>1 DEF OneInv, Ages, TypeOK, Logs
      <4>2. cp.st \in {"absent", "torn", "ok"}
          BY DEF TypeOK, Checkpoints
      <4> QED
          BY <3>1, <4>1, <4>2
    <3>3. log.base = cp.id
        BY <3>1, <3>2 DEF PairingIInv, AllPaired, Paired
    <3>4. Linked(cp.ring \o Vals(log.frames))
        BY <2>1, <3>1, <3>2, <3>3 DEF FilesLinked
    <3>5. Restore.scroll = Replay(cp.ring, log.frames)
        BY <2>5, <3>2 DEF RestoreFromLog, Finish
    <3> QED
        BY <2>2, <3>4, <3>5, ReplayLinked
  <2>6. \/ Restore = NothingToRestore \/ Restore = RestoreFromCheckpoint(cp)
        \/ LogUsable(cp, log) /\ Restore = RestoreFromLog(cp, log)
      BY DEF Restore, ColdRestore
  <2> QED
      BY <2>3, <2>4, <2>5, <2>6
<1> QED
    BY <1>1, HoleInvHolds, TypeCorrect, PairingIInvHolds, OneInvHolds, PTL
====
