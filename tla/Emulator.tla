------------------------------ MODULE Emulator ------------------------------
(***************************************************************************)
(* The daemon's terminal (emulator.rs): process scans a chunk, then feeds  *)
(* it to vt100 in pieces, stopping before a switch to the alternate screen *)
(* to freeze the primary one and behind a save of the cursor to read what  *)
(* vt100 hides.  The reader cuts a session's output into chunks anywhere.  *)
(*                                                                         *)
(* vt100 is external: it is taken to cut the stream into sequences as      *)
(* ModeState does, but reads each byte once and has no cap on a sequence.  *)
(* Of its grids the primary one is kept, as the number of characters drawn *)
(* on it, modulo Ink; the cursor moves with them.                          *)
(***************************************************************************)
EXTENDS ModeState

CONSTANTS Alphabets, Ink

ASSUME EmulatorAssumption == Ink \in Nat \ {0}

VARIABLES
  alphabet,   \* the bytes of this session's output
  modes,      \* ModeState
  parked,     \* its scan_tail
  vt,         \* vt100's parser and primary grid, the modes a terminal that saw every
              \* byte once would have, and the cursor it saved last
  frozen,     \* primary_frozen, <<>> for None
  saved       \* saved_cursor, <<>> for None

emulatorVars == <<alphabet, modes, parked, vt, frozen, saved>>

FreshVt == [st |-> "ground", body |-> <<>>, pending |-> <<>>, m |-> NoModes, ink |-> 0, saved |-> <<>>]

EmulatorInit ==
  /\ alphabet \in Alphabets
  /\ modes = NoModes /\ parked = <<>> /\ vt = FreshVt /\ frozen = <<>> /\ saved = <<>>

\* vt100 takes one byte.
VtStep(v, b, next) ==
  [st |-> next,
   body |-> IF next \notin {"csi", "osc", "osc esc"} \/ FollowsEsc(v.st, b) THEN <<>>
            ELSE IF next = "osc esc" THEN v.body ELSE Append(v.body, b),
   pending |-> CASE next = "ground" -> <<>>
                 [] b = "esc" /\ next = "esc" -> <<b>>
                 [] v.st \in {"osc esc", "str esc"} -> <<"esc", b>>
                 [] OTHER -> Append(v.pending, b),
   m |-> Applied(v.m, v.st, v.body, b),
   ink |-> CASE FollowsEsc(v.st, b) /\ b = "c" -> 0
             [] v.st = "ground" /\ b \notin {"esc", "can", "bel"} /\ ~v.m.alt -> (v.ink + 1) % Ink
             [] OTHER -> v.ink,
   saved |-> IF SavesCursor(v.st, v.body, b) THEN <<v.ink>> ELSE v.saved]

Fed(v, bytes) ==
  LET fed[i \in 0..Len(bytes)] ==
        IF i = 0 THEN v
        ELSE Only({VtStep(w, bytes[i], StateAfter(w.st, bytes[i])) : w \in {fed[i - 1]}})
  IN fed[Len(bytes)]

\* A sequence too long to park: the scanner has dropped it and starts over from ground,
\* while vt100 goes on reading it.
Abandoned == Len(vt.pending) > MaxTail

\* reconcile_alt.
ReconcileAlt(v, f) == IF v.m.alt THEN f ELSE <<>>

\* What is captured at the split points of one kind: the last one counts.
Captured(splits, kind, old, chunk, before) ==
  LET here == {i \in DOMAIN splits : splits[i][2] = kind}
      then == {Fed(old, SubSeq(chunk, 1, splits[i][1])) : i \in {j \in here : \A k \in here : k <= j}}
  IN IF \E v \in then : kind = "save" \/ ~v.m.alt THEN <<Only(then).ink>> ELSE before

\* process, then take_bells; the session polls the bells of every chunk.
Process(chunk) ==
  \E old \in {[vt EXCEPT !.m.bells = 0]}, scan \in {Scan([modes EXCEPT !.bells = 0], parked, chunk)} :
  \E new \in {Fed(old, chunk)} :
    /\ modes' = scan.m /\ parked' = scan.tail
    /\ vt' = new
    /\ frozen' = ReconcileAlt(new, Captured(scan.splits, "primary", old, chunk, frozen))
    /\ saved' = Captured(scan.splits, "save", old, chunk, saved)
    /\ UNCHANGED alphabet

\* Tracking is abandoned behind an overlong sequence by design, and so is this session.
EmulatorNext == ~Abandoned /\ \E n \in 1..2 : \E chunk \in [1..n -> alphabet] : Process(chunk)

\* What snapshot puts on the wire: the normal screen, the preamble's modes in alt or not,
\* and the parked bytes, written last; title and kitty flags travel beside them.  The
\* saved cursor is not sent (absolute_cursor_tail is off).
Snapshot == [normal |-> IF vt.m.alt THEN frozen ELSE <<vt.ink>>, alt |-> vt.m.alt, focus |-> modes.focus,
             region |-> modes.region, tail |-> parked, title |-> modes.title, flags |-> KittyFlags(modes)]

\* A fresh terminal that is given the payload and then the parked bytes.
Rebuilt(s) ==
  Fed([FreshVt EXCEPT !.m.alt = s.alt, !.m.focus = s.focus, !.m.region = s.region, !.ink = s.normal[1]], s.tail)

-----------------------------------------------------------------------------
(* Properties                                                              *)

\* However a session's output is cut into chunks, until a sequence is too long to park:
\* the modes, kitty stack, title and bells are those of a terminal that read every byte
\* once, the mirrored cursor is the one of its last save, and a fresh terminal that is given the
\* snapshot shows the normal screen that vt100 hides while it is in the alternate one, has
\* the modes of the preamble and is in the middle of the same sequence.
SnapshotRestores ==
  ~Abandoned =>
    /\ modes = vt.m /\ saved = vt.saved
    /\ Snapshot.normal # <<>> /\ Snapshot.title = vt.m.title /\ Snapshot.flags = KittyFlags(vt.m)
    /\ LET fresh == Rebuilt(Snapshot) IN
       /\ <<fresh.st, fresh.body, fresh.pending, fresh.ink>> = <<vt.st, vt.body, vt.pending, vt.ink>>
       /\ <<fresh.m.alt, fresh.m.focus, fresh.m.region>> = <<vt.m.alt, vt.m.focus, vt.m.region>>

-----------------------------------------------------------------------------
(* Not kept by the code: TLC finds a counterexample, and no run checks it. *)

\* The preamble re-arms no scroll region in front of an alternate screen's body (the comment
\* in rehydrate_preamble: "It is never emitted in alt").
RegionNotInAlt == Snapshot.alt => Snapshot.region = <<>>
=============================================================================
