------------------------------ MODULE HistoryStore ------------------------------
(***************************************************************************)
(* The on-disk history of one grove-daemon session: the HistoryWriter and  *)
(* HistoryReader of history.rs, driven the way Checkpointer::persist       *)
(* drives them, with a crash possible between any two disk operations.     *)
(*                                                                         *)
(* A session directory holds meta.json, checkpoint.json and output.log.    *)
(* Terminal output is a stream of chunks numbered 1, 2, 3 ... in the order *)
(* the reader thread ingests them, over every incarnation of the session.  *)
(* The raw ring, the log records and the scrollback a cold restore replays *)
(* are sequences of chunk numbers.                                         *)
(*                                                                         *)
(* What a process crash leaves is exactly meta, cp and log, so a property  *)
(* of Restore in every state is a property of every crash.                 *)
(***************************************************************************)
EXTENDS Naturals, Sequences, FiniteSets

CONSTANTS
    RingCap,      \* capacity of the raw ring, in chunks
    PendingMax,   \* pending-output capacity, in chunks (PENDING_OUTPUT_MAX_BYTES)
    LogMax,       \* log cap, in frames (DEFAULT_LOG_MAX_BYTES)
    MaxOut,       \* bound: chunks produced over all incarnations
    MaxClears,    \* bound: calls of clear_history
    MaxCheckpoints,  \* bound: full checkpoints built
    MaxInc,       \* bound: incarnations of the session
    MaxFails,     \* bound: failing disk operations
    MaxLosses,    \* bound: power losses
    MaxFaults     \* bound: both together

ASSUME CapsAssumption ==
    /\ RingCap \in Nat \ {0} /\ PendingMax \in Nat \ {0} /\ LogMax \in Nat
    /\ MaxOut \in Nat /\ MaxClears \in Nat /\ MaxCheckpoints \in Nat
    /\ MaxInc \in Nat /\ {MaxFails, MaxLosses, MaxFaults} \subseteq Nat

VARIABLES
    meta,      \* meta.json
    cp,        \* checkpoint.json
    log,       \* output.log
    dmeta, dcp, dlog,  \* what of the three has certainly reached the platter
    w,         \* HistoryWriter, and whether the checkpointer has it registered
    pc,        \* where the one disk operation in progress stands
    op,        \* its arguments
    ring,      \* Session.ring
    pend,      \* Session.pending
    enabled,   \* Session.history_enabled
    out,       \* chunks ingested so far
    clears,    \* calls of clear_history so far
    inc,       \* incarnations started so far; stands for the wall clock
    fails,     \* failed disk operations so far
    losses,    \* power losses so far
    ids,       \* ghost: checkpoints built so far, the source of cp.id
    wiped,     \* ghost: chunks ingested when clear_history last ran
    epoch,     \* ghost: chunks ingested before this incarnation
    acked,     \* ghost: the content that persists reported Ok left on disk
    anchored,  \* ghost: the content of the last durable full checkpoint
    orphaned,  \* ghost: a flush_all failed half-way and was ignored
    gapped     \* ghost: output arrived after the anchor, before history was enabled

disk    == <<meta, cp, log>>
durable == <<dmeta, dcp, dlog>>
session == <<ring, pend, enabled, out, clears>>
ghosts  == <<ids, wiped, epoch, acked, anchored, orphaned, gapped>>
vars    == <<disk, durable, w, pc, op, session, inc, fails, losses, ghosts>>

(***************************************************************************)
(* Values                                                                  *)
(***************************************************************************)
\* A HistoryRecord, or the Batch frame that precedes the records of one append.
\* val is the chunk of an Output, the seq of a Batch; n is a ghost, the number of
\* records the Batch announces.
Frames == [kind : {"batch", "output", "clear"}, val : Nat, n : Nat]
Output(c) == [kind |-> "output", val |-> c, n |-> 0]
Clear == [kind |-> "clear", val |-> 0, n |-> 0]

\* SessionMeta.  started is started_at_ms, ended says ended_at_ms is set; floor is
\* a ghost, the chunks ingested before the session was opened.
Metas == [st : {"absent", "torn", "ok"}, ended : BOOLEAN, started : Nat, floor : Nat]
\* Checkpoint.  at is checkpointed_at_ms, id a ghost that names the write.
Checkpoints == [st : {"absent", "torn", "ok"}, gen : Nat, id : Nat,
                ring : Seq(Nat), at : Nat]
\* output.log.  It is "bad" when its header does not decode; base is a ghost, the
\* id of the checkpoint the log continues.  Its length in frames stands for its
\* size; a frame cut short is not there, as it is not for the reader.
Logs == [st : {"absent", "bad", "ok"}, gen : Nat, base : Nat, frames : Seq(Frames)]
\* HistoryWriter.  resolved is log_generation.is_some(); bytes counts the frames
\* and 1 for the header.
Writers == [reg : BOOLEAN, resolved : BOOLEAN, gen : Nat, bytes : Nat,
            appended : Nat, needsFull : BOOLEAN]

NoMeta == [st |-> "absent", ended |-> FALSE, started |-> 0, floor |-> 0]
NoCheckpoint == [st |-> "absent", gen |-> 0, id |-> 0, ring |-> <<>>, at |-> 0]
NoLog == [st |-> "absent", gen |-> 0, base |-> 0, frames |-> <<>>]
BadLog == [NoLog EXCEPT !.st = "bad"]
NoWriter == [reg |-> FALSE, resolved |-> FALSE, gen |-> 0, bytes |-> 0,
             appended |-> 0, needsFull |-> TRUE]
NoOp == [final |-> FALSE, recs |-> <<>>, ring |-> <<>>, meta |-> NoMeta, then |-> "idle"]
NoPending == [recs |-> <<>>, overflowed |-> FALSE]

IsOutput(f) == f.kind = "output"
\* HistoryRecord::output_bytes, summed.
OutputBytes(fs) == Cardinality({i \in 1 .. Len(fs) : fs[i].kind = "output"})
ChunksOf(chunks) == {chunks[i] : i \in 1 .. Len(chunks)}
\* encode_log_header: a log that holds a header and nothing else.
FreshLog(gen, base) == [st |-> "ok", gen |-> gen, base |-> base, frames |-> <<>>]

(***************************************************************************)
(* HistoryReader: what a cold restore composes from the three files        *)
(***************************************************************************)
\* The frames of the batch that starts at i end where the next one starts.
EndsBatch(fs, i, e) ==
    /\ e = Len(fs) \/ fs[e + 1].kind = "batch"
    /\ \A k \in i + 1 .. e : fs[k].kind # "batch"

\* Mutant: a batch's own bytes are left out of the running count.
DecodesLogStaleCount(l) ==
    /\ l.st = "ok"
    /\ \A i \in 1 .. Len(l.frames) :
          l.frames[i].kind = "batch" => l.frames[i].val = OutputBytes(SubSeq(l.frames, 1, i))
\* decode_log: a batch whose seq is not the running byte count drops the whole log,
\* be it the last one, cut behind its Batch frame.
DecodesLog(l) ==
    /\ l.st = "ok"
    /\ \A i \in 1 .. Len(l.frames) : l.frames[i].kind = "batch" =>
          \A e \in i .. Len(l.frames) :
             EndsBatch(l.frames, i, e) => l.frames[i].val = OutputBytes(SubSeq(l.frames, 1, e))

\* A Clear comes after the first i frames.
ClearedAfter(fs, i) == \E j \in i + 1 .. Len(fs) : fs[j].kind = "clear"

\* What a frame without output adds to a scrollback.
NoBytes == 0

\* Mutant: Clear frames are skipped on replay.
ReplayKeepsCleared(base, fs) ==
    base \o [i \in 1 .. Len(fs) |-> IF IsOutput(fs[i]) THEN fs[i].val ELSE NoBytes]

\* The replay of restore_from_log: Output frames extend the scrollback, a Clear
\* empties it, so of the base and the frames before it nothing remains.
Replay(base, fs) ==
    (IF ClearedAfter(fs, 0) THEN <<>> ELSE base)
    \o [i \in 1 .. Len(fs) |->
          IF IsOutput(fs[i]) /\ ~ClearedAfter(fs, i) THEN fs[i].val ELSE NoBytes]

\* restore_from_log: the generation pairing.
LogUsable(c, l) ==
    /\ DecodesLog(l) /\ l.frames # <<>>
    /\ CASE c.st = "ok"     -> l.gen = c.gen
         [] c.st = "absent" -> l.gen = 0
         [] c.st = "torn"   -> TRUE

NothingToRestore == [some |-> FALSE, scroll |-> <<>>, degraded |-> FALSE]
Finish(scroll, degraded) == [some |-> TRUE, scroll |-> scroll, degraded |-> degraded]

\* restore_from_log: the tail alone, degraded, when the checkpoint is torn.
RestoreFromLog(c, l) == Finish(Replay(IF c.st = "ok" THEN c.ring ELSE <<>>, l.frames), c.st = "torn")
RestoreFromCheckpoint(c) == Finish(c.ring, FALSE)

\* Mutant: no check that the checkpoint is not older than the session.
ColdRestoreOfAnyAge(m, c, l) ==
    IF m.st # "ok" \/ m.ended THEN NothingToRestore
    ELSE IF LogUsable(c, l) THEN RestoreFromLog(c, l)
    ELSE IF c.st = "ok" THEN RestoreFromCheckpoint(c)
    ELSE NothingToRestore

\* has_restorable_history, then detect_cold_restore(ignore_clean_end = true).
ColdRestore(m, c, l) ==
    IF m.st # "ok" \/ m.ended \/ (c.st = "ok" /\ c.at < m.started) THEN NothingToRestore
    ELSE IF LogUsable(c, l) THEN RestoreFromLog(c, l)
    ELSE IF c.st = "ok" THEN RestoreFromCheckpoint(c)
    ELSE NothingToRestore

Restore == ColdRestore(meta, cp, log)
Restored == ChunksOf(Restore.scroll) \ {NoBytes}

(***************************************************************************)
(* Opening a session: the spawn path of createOrAttach                     *)
(***************************************************************************)
\* The cold probe decides between reopen_session and open_session.
StartIncarnation ==
    /\ pc = "down" /\ inc < MaxInc
    /\ inc' = inc + 1
    /\ epoch' = out
    /\ IF Restore.some
         THEN /\ pc' = "truncMeta"
              /\ op' = [NoOp EXCEPT !.meta = [meta EXCEPT !.ended = FALSE],
                                    !.then = "reopened"]
              /\ acked' = Restored /\ UNCHANGED <<anchored, orphaned>>
         ELSE /\ pc' = "unlinkCp"
              /\ op' = [NoOp EXCEPT !.meta = [NoMeta EXCEPT !.st = "ok", !.started = inc + 1, !.floor = out],
                                    !.then = "opened"]
              /\ acked' = {} /\ anchored' = {} /\ orphaned' = FALSE
    /\ UNCHANGED <<disk, durable, w, ring, pend, enabled, out, clears, fails, losses, ids, wiped, gapped>>

\* HistoryWriter::open_session unlinks the previous incarnation's files first.
UnlinkCheckpoint ==
    /\ pc = "unlinkCp"
    /\ cp' = NoCheckpoint /\ pc' = "unlinkLog"
    /\ UNCHANGED <<meta, log, durable, w, op, session, inc, fails, losses, ghosts>>

UnlinkLog ==
    /\ pc = "unlinkLog"
    /\ log' = NoLog /\ pc' = "truncMeta"
    /\ UNCHANGED <<meta, cp, durable, w, op, session, inc, fails, losses, ghosts>>

\* SessionMeta::write is fs::write: truncate the file, then write it.
TruncateMeta ==
    /\ pc = "truncMeta"
    /\ meta' = [meta EXCEPT !.st = "torn"] /\ pc' = "writeMeta"
    /\ UNCHANGED <<cp, log, durable, w, op, session, inc, fails, losses, ghosts>>

\* The fresh writer of open_session knows its log is empty; the one of
\* register_writer resolves the log it finds on its first use.
WriterAfter(then) ==
    IF then = "opened" THEN [NoWriter EXCEPT !.reg = TRUE, !.resolved = TRUE]
    ELSE IF then = "reopened" THEN [NoWriter EXCEPT !.reg = TRUE]
    ELSE NoWriter

WriteMeta ==
    /\ pc = "writeMeta"
    /\ meta' = op.meta
    /\ w' = WriterAfter(op.then)
    /\ pc' = IF op.then = "ended" THEN "rmdir" ELSE "idle"
    /\ op' = NoOp
    /\ UNCHANGED <<cp, log, durable, session, inc, fails, losses, ghosts>>

\* register_history enables the tee only after the checkpointer registered the
\* session, so a tick may run in between.
EnableHistory ==
    /\ w.reg /\ ~enabled
    /\ enabled' = TRUE
    /\ UNCHANGED <<disk, durable, w, pc, op, ring, pend, out, clears, inc, fails, losses, ghosts>>

(***************************************************************************)
(* The session: the reader thread's tee and clear_history                  *)
(***************************************************************************)
\* append_scrollback_capped keeps the newest bytes.
AppendCapped(s, c) ==
    LET t == Append(s, c) IN IF Len(t) > RingCap THEN Tail(t) ELSE t

\* Mutant: the overflow is not flagged.
PushOutputDropsSilently(p, c) ==
    IF Len(p.recs) + 1 > PendingMax THEN NoPending ELSE [p EXCEPT !.recs = Append(@, c)]
\* PendingOutput::push_output and push_record: past the cap everything pending is
\* dropped and the overflow is flagged; a record that is not output is not capped.
PushOutput(p, c) ==
    IF p.overflowed THEN p
    ELSE IF Len(p.recs) + 1 > PendingMax THEN [recs |-> <<>>, overflowed |-> TRUE]
    ELSE [p EXCEPT !.recs = Append(@, c)]
PushRecord(p, r) == IF p.overflowed THEN p ELSE [p EXCEPT !.recs = Append(@, r)]

Running == inc > 0 /\ pc \in {"idle", "snap", "rename", "reset", "append"}

\* The first anchor has been built and the tee is still inert.
Unteed == w.reg /\ ~enabled /\ (pc \in {"rename", "reset"} \/ ~w.needsFull)

\* Session::tee.
Tee ==
    /\ Running /\ out < MaxOut
    /\ out' = out + 1
    /\ ring' = AppendCapped(ring, out + 1)
    /\ pend' = IF enabled THEN PushOutput(pend, Output(out + 1)) ELSE pend
    /\ gapped' = (gapped \/ Unteed)
    /\ UNCHANGED <<disk, durable, w, pc, op, enabled, clears, inc, fails, losses,
                   ids, wiped, epoch, acked, anchored, orphaned>>

\* Session::clear_history.
ClearHistory ==
    /\ Running /\ clears < MaxClears
    /\ clears' = clears + 1
    /\ ring' = <<>>
    /\ pend' = IF enabled THEN PushRecord(pend, Clear) ELSE pend
    /\ wiped' = out
    /\ UNCHANGED <<disk, durable, w, pc, op, enabled, out, inc, fails, losses,
                   ids, epoch, acked, anchored, orphaned, gapped>>

(***************************************************************************)
(* Checkpointer::persist, called by a tick or by flush_all (final)         *)
(***************************************************************************)
\* Incremental path: drain pending; an overflow forces the full path.
BeginTick ==
    /\ pc = "idle" /\ w.reg
    /\ IF w.needsFull
         THEN pc' = "snap" /\ op' = NoOp /\ pend' = pend
         ELSE /\ pend' = NoPending
              /\ op' = [NoOp EXCEPT !.recs = pend.recs]
              /\ pc' = IF pend.overflowed THEN "snap"
                       ELSE IF pend.recs = <<>> THEN "idle" ELSE "append"
    /\ UNCHANGED <<disk, durable, w, ring, enabled, out, clears, inc, fails, losses, ghosts>>

BeginFlush ==
    /\ pc = "idle" /\ w.reg
    /\ pc' = "snap" /\ op' = [NoOp EXCEPT !.final = TRUE]
    /\ UNCHANGED <<disk, durable, w, session, inc, fails, losses, ghosts>>

\* build_checkpoint: the raw ring as it is now.
BuildCheckpoint ==
    /\ pc = "snap" /\ ids < MaxCheckpoints
    /\ op' = [op EXCEPT !.ring = ring] /\ pc' = "rename"
    /\ ids' = ids + 1
    /\ UNCHANGED <<disk, durable, w, session, inc, fails, losses, wiped, epoch, acked, anchored, orphaned, gapped>>

\* resolve_log_state: a log whose header decodes gives the generation, its size
\* and its last seq; otherwise the checkpoint gives the generation.
ResolveLogState ==
    IF w.resolved THEN w
    ELSE IF log.st = "ok"
      THEN [w EXCEPT !.resolved = TRUE, !.gen = log.gen,
                     !.bytes = 1 + Len(log.frames),
                     !.appended = IF DecodesLog(log) THEN OutputBytes(log.frames) ELSE 0]
      ELSE [w EXCEPT !.resolved = TRUE, !.bytes = 0, !.appended = 0,
                     !.gen = IF cp.st = "ok" THEN cp.gen ELSE 0]

\* Mutant: the generation is not advanced.
SameGeneration(r) == r.gen

NextGeneration(r) == r.gen + 1
\* write_durable: the data is fsynced before the rename, and the directory after it,
\* so an earlier unlink of the log is durable too.
SyncedFile(new, old) == new
SyncedDirectory(dl) == IF log.st = "absent" THEN NoLog ELSE dl

\* HistoryWriter::checkpoint, first half: write_durable renames the checkpoint
\* over the old one.
RenameCheckpoint ==
    /\ pc = "rename"
    /\ LET r == ResolveLogState IN
         /\ w' = r
         /\ cp' = [st |-> "ok", gen |-> NextGeneration(r), id |-> ids, ring |-> op.ring, at |-> inc]
    /\ dcp' = SyncedFile(cp', dcp)
    /\ dlog' = SyncedDirectory(dlog)
    /\ pc' = "reset"
    /\ acked' = acked \cap ChunksOf(ring) /\ anchored' = ChunksOf(op.ring)
    /\ UNCHANGED <<meta, log, dmeta, op, session, inc, fails, losses, ids, wiped, epoch, orphaned, gapped>>

WriterAfterReset(r) ==
    [r EXCEPT !.gen = @ + 1, !.bytes = 1, !.appended = 0, !.needsFull = FALSE]

\* HistoryWriter::checkpoint, second half: the log restarts at the new generation.
ResetLog ==
    /\ pc = "reset"
    /\ log' = FreshLog(w.gen + 1, ids)
    /\ w' = WriterAfterReset(w)
    /\ pc' = "idle" /\ op' = NoOp
    /\ acked' = ChunksOf(op.ring)
    /\ orphaned' = FALSE
    /\ UNCHANGED <<meta, cp, durable, session, inc, fails, losses, ids, wiped, epoch, anchored, gapped>>

\* A failed full checkpoint disables history when a tick asked for it; flush_all
\* ignores the outcome and keeps the writer.
AfterFailedCheckpoint ==
    /\ pc' = "idle" /\ op' = NoOp
    /\ fails < MaxFails /\ fails + losses < MaxFaults /\ fails' = fails + 1

RenameFails ==
    /\ pc = "rename" /\ AfterFailedCheckpoint
    /\ w' = IF op.final THEN ResolveLogState ELSE NoWriter
    /\ UNCHANGED <<disk, durable, session, inc, losses, ghosts>>

\* The truncating write of the log header fails before or after the truncation.
ResetLogFails ==
    /\ pc = "reset" /\ AfterFailedCheckpoint
    /\ w' = IF op.final THEN w ELSE NoWriter
    /\ log' \in {log, BadLog}
    /\ orphaned' = (orphaned \/ op.final)
    /\ acked' = ChunksOf(op.ring)
    /\ UNCHANGED <<meta, cp, durable, session, inc, losses, ids, wiped, epoch, anchored, gapped>>

(***************************************************************************)
(* HistoryWriter::append_increments                                        *)
(***************************************************************************)
BatchSeq == w.appended + OutputBytes(op.recs)
\* encode_log_batch: a Batch frame, then one frame per record.
Batch == <<[kind |-> "batch", val |-> BatchSeq, n |-> Len(op.recs)]>> \o op.recs
OverCap == (IF w.bytes = 0 THEN 1 ELSE w.bytes) + Len(Batch) > LogMax

\* The log after the lazy header, if the writer believes the file is empty.
HeaderedLog == IF w.bytes = 0 THEN FreshLog(w.gen, cp.id) ELSE log
WithFrames(l, fs) == IF l.st = "ok" THEN [l EXCEPT !.frames = @ \o fs] ELSE l
\* A write cut short: only the first k frames reach the file.
TornAppends(l) == {WithFrames(l, SubSeq(Batch, 1, k)) : k \in 0 .. Len(Batch) - 1}

NeedsCheckpoint ==
    /\ pc = "append" /\ OverCap
    /\ pc' = "snap" /\ op' = [op EXCEPT !.recs = <<>>]
    /\ UNCHANGED <<disk, durable, w, session, inc, fails, losses, ghosts>>

\* What the acknowledged content becomes: a Clear drops all that precedes it.
AckedAfter ==
    (IF ClearedAfter(op.recs, 0) THEN {} ELSE acked)
    \cup {op.recs[i].val : i \in {j \in 1 .. Len(op.recs) :
                                     IsOutput(op.recs[j]) /\ ~ClearedAfter(op.recs, j)}}

AppendIncrements ==
    /\ pc = "append" /\ ~OverCap
    /\ log' = WithFrames(HeaderedLog, Batch)
    /\ w' = [w EXCEPT !.bytes = (IF @ = 0 THEN 1 ELSE @) + Len(Batch),
                      !.appended = BatchSeq]
    /\ pc' = "idle" /\ op' = NoOp
    /\ acked' = AckedAfter
    /\ UNCHANGED <<meta, cp, durable, session, inc, fails, losses, ids, wiped, epoch, anchored, orphaned, gapped>>

ForceFullAnchor(r) == [r EXCEPT !.needsFull = TRUE]

\* on_append_failure: keep the session, force a full anchor.
AppendFails ==
    /\ pc = "append" /\ ~OverCap
    /\ fails < MaxFails /\ fails + losses < MaxFaults /\ fails' = fails + 1
    /\ log' \in TornAppends(HeaderedLog)
    /\ w' = ForceFullAnchor(w)
    /\ pc' = "idle" /\ op' = NoOp
    /\ UNCHANGED <<meta, cp, durable, session, inc, losses, ghosts>>

(***************************************************************************)
(* Clean end: Checkpointer::close_session                                  *)
(***************************************************************************)
\* stamp_ended rewrites a readable meta; then the directory is removed.
CloseSession ==
    /\ pc = "idle" /\ inc > 0
    /\ IF w.reg /\ meta.st = "ok"
         THEN pc' = "truncMeta" /\ op' = [NoOp EXCEPT !.meta = [meta EXCEPT !.ended = TRUE],
                                                      !.then = "ended"]
         ELSE pc' = "rmdir" /\ op' = NoOp
    /\ w' = NoWriter
    /\ ring' = <<>> /\ pend' = NoPending /\ enabled' = FALSE
    /\ acked' = {} /\ anchored' = {}
    /\ UNCHANGED <<disk, durable, out, clears, inc, fails, losses, ids, wiped, epoch, orphaned, gapped>>

\* remove_dir_all unlinks the entries one by one, in any order.
RemoveFile ==
    /\ pc = "rmdir"
    /\ \/ meta.st # "absent" /\ meta' = NoMeta /\ UNCHANGED <<cp, log, pc>>
       \/ cp.st # "absent" /\ cp' = NoCheckpoint /\ UNCHANGED <<meta, log, pc>>
       \/ log.st # "absent" /\ log' = NoLog /\ UNCHANGED <<meta, cp, pc>>
       \/ /\ meta.st = "absent" /\ cp.st = "absent" /\ log.st = "absent"
          /\ pc' = "down" /\ UNCHANGED disk
    /\ UNCHANGED <<durable, w, op, session, inc, fails, losses, ghosts>>

(***************************************************************************)
(* Crashes                                                                 *)
(***************************************************************************)
\* A write the crash interrupts may have done nothing, part of it or all of it.
CrashedLogs ==
    CASE pc = "append" /\ ~OverCap -> TornAppends(HeaderedLog) \cup {log, WithFrames(HeaderedLog, Batch)}
      [] pc = "reset" -> {log, BadLog, FreshLog(w.gen + 1, ids)}
      [] OTHER -> {log}

\* The process is gone, and with it the session and the writer.
Die == /\ pc' = "down" /\ w' = NoWriter /\ op' = NoOp
       /\ ring' = <<>> /\ pend' = NoPending /\ enabled' = FALSE
       /\ UNCHANGED <<out, clears, inc, fails>>

\* The daemon is killed; the kernel still writes back what it was given.
Crash ==
    /\ pc # "down" /\ Die
    /\ log' \in CrashedLogs
    /\ dmeta' = meta /\ dcp' = cp /\ dlog' = log'
    /\ UNCHANGED <<meta, cp, losses, ghosts>>

\* The kernel writes dirty pages back on its own schedule.
WriteBack ==
    /\ losses < MaxLosses /\ fails + losses < MaxFaults
    /\ dmeta' = meta /\ dcp' = cp /\ dlog' = log
    /\ UNCHANGED <<disk, w, pc, op, session, inc, fails, losses, ghosts>>

\* A log that lost its unwritten end.
CutLogs(l) == {[l EXCEPT !.frames = SubSeq(@, 1, k)] : k \in 0 .. Len(l.frames)}

\* Power loss: each file is what the daemon wrote, what had reached the platter,
\* or, where the two differ and nothing was fsynced, something in between.
PowerLoss ==
    /\ pc # "down" /\ Die
    /\ losses < MaxLosses /\ fails + losses < MaxFaults /\ losses' = losses + 1
    /\ meta' \in {meta, dmeta} \cup (IF meta = dmeta THEN {} ELSE {[meta EXCEPT !.st = "torn"]})
    /\ cp' \in {cp, dcp}
    /\ log' \in {log, dlog} \cup (IF log = dlog THEN {} ELSE {BadLog})
                \cup (IF log.st = "ok" /\ log # dlog THEN CutLogs(log) ELSE {})
    /\ dmeta' = meta' /\ dcp' = cp' /\ dlog' = log'
    /\ acked' = IF log' = log THEN acked ELSE anchored
    /\ UNCHANGED <<ids, wiped, epoch, anchored, orphaned, gapped>>

(***************************************************************************)
(* The specification                                                       *)
(***************************************************************************)
Init ==
    /\ meta = NoMeta /\ cp = NoCheckpoint /\ log = NoLog
    /\ dmeta = NoMeta /\ dcp = NoCheckpoint /\ dlog = NoLog
    /\ w = NoWriter /\ pc = "down" /\ op = NoOp
    /\ ring = <<>> /\ pend = NoPending /\ enabled = FALSE
    /\ out = 0 /\ clears = 0 /\ inc = 0 /\ fails = 0 /\ losses = 0
    /\ ids = 0 /\ wiped = 0 /\ epoch = 0 /\ acked = {} /\ anchored = {} /\ orphaned = FALSE /\ gapped = FALSE

Next ==
    \/ StartIncarnation \/ UnlinkCheckpoint \/ UnlinkLog \/ TruncateMeta \/ WriteMeta
    \/ EnableHistory \/ Tee \/ ClearHistory
    \/ BeginTick \/ BeginFlush \/ BuildCheckpoint \/ RenameCheckpoint \/ ResetLog
    \/ RenameFails \/ ResetLogFails
    \/ NeedsCheckpoint \/ AppendIncrements \/ AppendFails
    \/ CloseSession \/ RemoveFile
    \/ Crash \/ WriteBack \/ PowerLoss

Spec == Init /\ [][Next]_vars

(***************************************************************************)
(* Properties                                                              *)
(***************************************************************************)
\* Types of the files and their durable images, the writer, the operation in progress
\* and the session's buffers.
TypeOK ==
    /\ meta \in Metas /\ cp \in Checkpoints /\ log \in Logs
    /\ dmeta \in Metas /\ dcp \in Checkpoints /\ dlog \in Logs
    /\ w \in Writers
    /\ pc \in {"down", "unlinkCp", "unlinkLog", "truncMeta", "writeMeta", "idle", "snap",
               "rename", "reset", "append", "rmdir"}
    /\ op \in [final : BOOLEAN, recs : Seq(Frames), ring : Seq(Nat), meta : Metas,
               then : {"idle", "opened", "reopened", "ended"}]
    /\ ring \in Seq(Nat) /\ pend \in [recs : Seq(Frames), overflowed : BOOLEAN]
    /\ enabled \in BOOLEAN
    /\ out \in Nat /\ clears \in Nat /\ inc \in Nat /\ fails \in Nat /\ losses \in Nat
    /\ ids \in Nat /\ wiped \in Nat /\ epoch \in Nat
    /\ orphaned \in BOOLEAN /\ gapped \in BOOLEAN

\* The generation pairing of HistoryWriter::checkpoint and restore_from_log: a
\* log that carries the checkpoint's generation continues that very checkpoint,
\* never another one that was given the same number, whatever crashed.
PairingInv ==
    cp.st = "ok" /\ log.st = "ok" /\ log.gen = cp.gen => log.base = cp.id

\* A reused id never replays a previous session (HistoryWriter::open_session,
\* detect_cold_restore): what a restore returns comes from one incarnation, and
\* not from one that ended before the session of meta.json was opened.
OneIncarnation ==
    /\ \A c \in Restored : c > meta.floor
    /\ (\A c \in Restored : c <= epoch) \/ (\A c \in Restored : c > epoch)

TornLog ==
    \E i \in 1 .. Len(log.frames) :
       log.frames[i].kind = "batch" /\ i + log.frames[i].n > Len(log.frames)
Unwiped(S) == {c \in S : c > wiped}
Eligible == meta.st = "ok" /\ ~meta.ended
\* What persist reported as written can be restored after a crash at any point,
\* and after a power loss at least the last full checkpoint can. Excepted are a
\* log cut right behind a Batch frame, and a flush_all whose failure was ignored.
AckedRecoverable ==
    Eligible /\ ~TornLog /\ ~orphaned => Unwiped(acked) \subseteq Restored

\* Between two persists a restore returns exactly what was acknowledged: nothing
\* that clear_history removed comes back once the Clear is on disk.
IdleRestoreExact ==
    pc = "idle" /\ w.reg /\ ~TornLog /\ ~orphaned => Restored = acked

\* Of two chunks with none between them, the later is at most the earlier's successor.
Linked(s) ==
    \A i, j \in 1 .. Len(s) :
       i < j /\ s[i] # NoBytes /\ s[j] # NoBytes /\ (\A k \in i + 1 .. j - 1 : s[k] = NoBytes)
          => s[j] <= s[i] + 1
\* No persisted range is missing from the middle of a restore: overflow, log
\* cap and failed append all lead to a full checkpoint before the next append.
\* Excepted is output that came between the first checkpoint and enable_history.
NoHole == ~gapped => Linked(Restore.scroll)

(***************************************************************************)
(* What comments and documents of the repository say, and the code does    *)
(* not keep: TLC finds a counterexample, and no run checks it              *)
(***************************************************************************)
IsChunk(c) == c # NoBytes
Text == SelectSeq(Restore.scroll, IsChunk)
\* ColdRestore.scrollback_for_replay is byte-exact: every chunk once, in order.
ByteExactReplay ==
    LET s == Text IN \A i \in 1 .. Len(s) - 1 : s[i + 1] # s[i] /\ s[i + 1] > s[i]

\* flush_all leaves the session as recoverable as a tick does.
FlushFailureKeepsAcks ==
    Eligible /\ ~TornLog => Unwiped(acked) \subseteq Restored
================================================================================
