----------------------------- MODULE ModeState -----------------------------
(***************************************************************************)
(* The daemon's scanner of a session's output (mode_state.rs): walk runs   *)
(* one automaton over the tail parked by the last chunk followed by the    *)
(* new chunk, applies what completes, and parks what does not.             *)
(*                                                                         *)
(* Bytes are classes of bytes: "esc", "can" (CAN, SUB), "bel", "\\" (the   *)
(* final of ST), the openers "[", "]" and "P", " " (an intermediate), "c"  *)
(* (RIS), "7" (DECSC, or a digit), the markers "?", ">", "<" and "=", the  *)
(* finals "h", "l", "u", "r" and "s", and "x" for other text.  Three       *)
(* stand for several bytes: "A" for 1049; (the alternate screen), "F" for  *)
(* 1004; (focus) and "o" for 0;.  Kitty's set-bits and clear-bits forms    *)
(* are left out; focus stands for the SGR-pixels mode too, and the title   *)
(* for the cwd.                                                            *)
(***************************************************************************)
EXTENDS Integers, Sequences, SequencesExt

CONSTANTS MaxTail,   \* MAX_PARTIAL_ESCAPE_TAIL
          KittyCap   \* KITTY_STACK_CAP

ASSUME ModeAssumption == MaxTail \in Nat /\ KittyCap \in Nat

Only(S) == CHOOSE x \in S : TRUE

NoModes == [focus |-> FALSE, alt |-> FALSE, kitty |-> <<>>, region |-> <<>>, title |-> <<>>, bells |-> 0]

Markers == {"?", "<", ">", "="}
Finals == {"\\", "[", "]", "P", "c", "h", "l", "u", "r", "s", "x"}

-----------------------------------------------------------------------------
(* The automaton                                                           *)

\* esc_follower, also behind an ESC that cut a string short.
EscFollower(b) ==
  CASE b \in {"esc", "bel"} -> "esc"
    [] b = "[" -> "csi"
    [] b = "]" -> "osc"
    [] b = "P" -> "str"
    [] b = " " -> "intermediate"
    [] OTHER -> "ground"

StateAfter(st, b) ==
  CASE st = "ground" -> IF b = "esc" THEN "esc" ELSE "ground"
    [] st = "esc" -> EscFollower(b)
    [] st = "intermediate" -> IF b = "esc" THEN "esc" ELSE IF b \in {" ", "bel"} THEN st ELSE "ground"
    [] st = "csi" -> IF b = "esc" THEN "esc" ELSE IF b \in Finals \cup {"can"} THEN "ground" ELSE st
    [] st = "osc" -> IF b = "esc" THEN "osc esc" ELSE IF b \in {"bel", "can"} THEN "ground" ELSE st
    [] st = "str" -> IF b = "esc" THEN "str esc" ELSE IF b = "can" THEN "ground" ELSE st
    [] st \in {"osc esc", "str esc"} -> IF b = "\\" THEN "ground" ELSE EscFollower(b)

\* The byte b is taken as the follower of an ESC.
FollowsEsc(st, b) == st = "esc" \/ (st \in {"osc esc", "str esc"} /\ b # "\\")

-----------------------------------------------------------------------------
(* What a sequence does                                                    *)

DigitsOf == [b \in {"7", "A", "F", "o"} |->
               CASE b = "7" -> <<10, 7>> [] b = "A" -> <<10000, 1049>> [] b = "F" -> <<10000, 1004>>
                 [] b = "o" -> <<10, 0>>]

\* split_params: what parses as a number, in order; sum is the number that is being read.
Digit(w, b, d) ==
  IF b = "7" THEN [w EXCEPT !.sum = @ * d[1] + d[2]]
  ELSE [got |-> IF w.bad THEN w.got ELSE Append(w.got, w.sum * d[1] + d[2]), sum |-> 0, bad |-> FALSE]

NumberRead(w) == IF w.bad \/ w.sum = 0 THEN w.got ELSE Append(w.got, w.sum)

SplitParams(ps) ==
  LET read[i \in 0..Len(ps)] ==
        IF i = 0 THEN [got |-> <<>>, sum |-> 0, bad |-> FALSE]
        ELSE IF ps[i] \in DOMAIN DigitsOf THEN Digit(read[i - 1], ps[i], DigitsOf[ps[i]])
        ELSE [read[i - 1] EXCEPT !.bad = TRUE]
  IN NumberRead(read[Len(ps)])

Marker(body) == IF body # <<>> /\ body[1] \in Markers THEN body[1] ELSE "none"
Params(body) == IF Marker(body) = "none" THEN body ELSE Tail(body)

\* CSI ? ... h or l, parameter by parameter.
SetModes(m, ps, on) ==
  [m EXCEPT !.focus = IF 1004 \in ToSet(ps) THEN on ELSE @,
            !.alt = IF 1049 \in ToSet(ps) THEN on ELSE @,
            !.region = IF 1049 \in ToSet(ps) THEN <<>> ELSE @]

ScrollRegion(ps) ==
  IF Len(ps) >= 2 /\ 1 <= ps[1] /\ ps[1] < ps[2] THEN <<ps[1], ps[2]>> ELSE <<>>

\* The kitty stack: pushes beyond the cap are ignored, a pop takes one or as many as it
\* says, and a set replaces the top or makes one.
Flags(ps) == IF ps = <<>> THEN 0 ELSE ps[1]
Pushed(k, flags) == IF Len(k) < KittyCap THEN Append(k, flags) ELSE k
Popped(k, n) == SubSeq(k, 1, Len(k) - (IF n = 0 THEN 1 ELSE n))
TopSet(k, flags) == IF k = <<>> THEN <<flags>> ELSE [k EXCEPT ![Len(k)] = flags]
KittyFlags(m) == IF m.kitty = <<>> THEN 0 ELSE Last(m.kitty)

CsiApplied(m, marker, ps, final) ==
  CASE marker = "?" /\ final \in {"h", "l"} -> SetModes(m, ps, final = "h")
    [] marker = ">" /\ final = "u" -> [m EXCEPT !.kitty = Pushed(@, Flags(ps))]
    [] marker = "<" /\ final = "u" -> [m EXCEPT !.kitty = Popped(@, Flags(ps))]
    [] marker = "=" /\ final = "u" -> [m EXCEPT !.kitty = TopSet(@, Flags(ps))]
    [] marker = "none" /\ final = "r" -> [m EXCEPT !.region = ScrollRegion(ps)]
    [] OTHER -> m

ApplyCsi(m, body, final) == CsiApplied(m, Marker(body), SplitParams(Params(body)), final)

ApplyOsc(m, body) == IF body # <<>> /\ body[1] = "o" THEN [m EXCEPT !.title = <<Tail(body)>>] ELSE m

\* RIS; the title stays.
Reset(m) == [NoModes EXCEPT !.title = m.title, !.bells = m.bells]

\* The modes after byte b in state st with the CSI or OSC body read so far.
Applied(m, st, body, b) ==
  CASE st = "ground" -> IF b = "bel" THEN [m EXCEPT !.bells = @ + 1] ELSE m
    [] st = "csi" -> IF b \in Finals THEN ApplyCsi(m, body, b) ELSE m
    [] st = "osc" -> IF b \in {"bel", "can"} THEN ApplyOsc(m, body) ELSE m
    [] st = "osc esc" -> IF b = "c" THEN Reset(ApplyOsc(m, body)) ELSE ApplyOsc(m, body)
    [] OTHER -> IF FollowsEsc(st, b) /\ b = "c" THEN Reset(m) ELSE m

\* The byte enters the alternate screen: some parameter switches it on before any ...
EntersAlt(m, st, body, b) ==
  st = "csi" /\ b = "h" /\ Marker(body) = "?" /\ ~m.alt /\ 1049 \in ToSet(SplitParams(Params(body)))

\* ... or saves the cursor (DECSC, SCOSC).
SavesCursor(st, body, b) == \/ FollowsEsc(st, b) /\ b = "7"
                            \/ st = "csi" /\ b = "s" /\ body = <<>>

-----------------------------------------------------------------------------
(* scan                                                                    *)

\* Mutant: offsets count the parked tail too.
OffsetCombined(i, old, len) == IF i > len THEN len ELSE i

\* ChunkMap::offset: a place in tail and chunk as one in the chunk, 0 if it is in the tail.
Offset(i, old, len) == LET k == IF i > old THEN i - old ELSE 0 IN IF k > len THEN len ELSE k

\* seq_start: the ESC that opened the pending sequence.
SeqStart(w, b, i) ==
  IF b = "esc" /\ w.st \notin {"osc", "str"} THEN i
  ELSE IF w.st \in {"osc esc", "str esc"} /\ b # "\\" THEN i - 1 ELSE w.start

SplitPoints(w, b, body, before, behind) ==
  IF EntersAlt(w.m, w.st, body, b) THEN <<<<before, "primary">>>>
  ELSE IF SavesCursor(w.st, body, b) THEN <<<<behind, "save">>>> ELSE <<>>

\* The CSI or OSC body in front of index i.
BodyAt(bytes, w, i) == SubSeq(bytes, w.body, IF w.st = "osc esc" THEN i - 2 ELSE i - 1)

\* One turn of walk's loop, at index i, on byte b.
WalkStep(w, b, i, body, old, len) ==
  [st |-> StateAfter(w.st, b), start |-> SeqStart(w, b, i),
   body |-> IF FollowsEsc(w.st, b) /\ b \in {"[", "]"} THEN i + 1 ELSE w.body,
   m |-> Applied(w.m, w.st, body, b),
   splits |-> w.splits \o SplitPoints(w, b, body, Offset(w.start - 1, old, len), Offset(i, old, len))]

Walk(m, bytes, old) ==
  LET walk[i \in 0..Len(bytes)] ==
        IF i = 0 THEN [st |-> "ground", start |-> 1, body |-> 1, m |-> m, splits |-> <<>>]
        ELSE Only({WalkStep(w, bytes[i], i, BodyAt(bytes, w, i), old, Len(bytes) - old) : w \in {walk[i - 1]}})
  IN walk[Len(bytes)]

Pending(w, bytes) == IF w.st = "ground" THEN <<>> ELSE SubSeq(bytes, w.start, Len(bytes))

\* scan: the modes, the parked tail (none when it is too long) and the split points.
Scan(m, tail, chunk) ==
  Only({[m |-> w.m, splits |-> w.splits,
         tail |-> IF Len(Pending(w, tail \o chunk)) > MaxTail THEN <<>> ELSE Pending(w, tail \o chunk)]
         : w \in {Walk(m, tail \o chunk, Len(tail))}})
=============================================================================
