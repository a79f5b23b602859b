---------------------------- MODULE StreamFrames ----------------------------
(***************************************************************************)
(* The binary frames of the stream socket (framing.rs): a session encodes  *)
(* its output and its end, the socket delivers the bytes in pieces of any  *)
(* size, and the client's reader feeds them to a decoder and takes the     *)
(* frames out.  A frame is cut into cells: one for each of the header's    *)
(* five fields (magic, kind, length of the session id, sequence, length of *)
(* the payload) and one for each byte of id and payload.  Cells are        *)
(* numbers, so that a payload may look like a header.                      *)
(***************************************************************************)
EXTENDS Integers, Sequences, SequencesExt

CONSTANTS Ids, Payloads, MaxId, MaxPayload, MaxFrames

ASSUME FrameAssumption == MaxId \in Nat /\ MaxPayload \in Nat /\ MaxFrames \in Nat

VARIABLES
  framed,  \* the frames put on the wire
  seq,     \* the session's output sequence
  wire,    \* cells under way
  buf,     \* StreamDecoder::buf
  got,     \* the frames next_frame has returned
  decoder  \* "read", "decode" while the reader takes frames out, "ended" after an error

frameVars == <<framed, seq, wire, buf, got, decoder>>

Magic == 71
KindData == 2
KindResize == 3    \* accepted, and sent by nobody
KindExit == 16
HeaderCells == 5

FrameInit ==
  /\ framed = <<>> /\ seq = 0 /\ wire = <<>> /\ buf = <<>> /\ got = <<>> /\ decoder = "read"

Cells(f) == <<Magic, f.kind, Len(f.id), f.seq, Len(f.payload)>> \o f.id \o f.payload

\* encode refuses what the other side would not decode; the session then sends nothing.
Encodes(f) == Len(f.id) <= MaxId /\ Len(f.payload) <= MaxPayload

\* A chunk of output carries the sequence behind it, the exit frame the current one.
SendFrame(kind, id, payload) ==
  LET f == [kind |-> kind, id |-> id, seq |-> seq + (IF kind = KindData THEN Len(payload) ELSE 0),
            payload |-> payload]
  IN /\ Len(framed) < MaxFrames
     /\ seq' = f.seq
     /\ IF Encodes(f) THEN framed' = Append(framed, f) /\ wire' = wire \o Cells(f) ELSE UNCHANGED <<framed, wire>>
     /\ seq' < MaxFrames * (MaxPayload + 1)
     /\ UNCHANGED <<buf, got, decoder>>

\* read and feed.
Feed(n) ==
  /\ decoder = "read"
  /\ buf' = buf \o SubSeq(wire, 1, n)
  /\ wire' = SubSeq(wire, n + 1, Len(wire))
  /\ decoder' = "decode"
  /\ UNCHANGED <<framed, seq, got>>

Bad(b) == b[1] # Magic \/ b[2] \notin {KindData, KindResize, KindExit} \/ b[3] > MaxId \/ b[5] > MaxPayload

\* Mutant: the length of the session id is forgotten.
PayloadEndShort(b) == HeaderCells + b[5]

\* Where the frame in front of the buffer ends.
PayloadEnd(b) == HeaderCells + b[3] + b[5]

\* next_frame, until it has no frame to return or meets what cannot be one.
NextFrame ==
  /\ decoder = "decode"
  /\ IF Len(buf) < HeaderCells THEN decoder' = "read" /\ UNCHANGED <<buf, got>>
     ELSE IF Bad(buf) THEN decoder' = "ended" /\ UNCHANGED <<buf, got>>
     ELSE IF Len(buf) < PayloadEnd(buf) THEN decoder' = "read" /\ UNCHANGED <<buf, got>>
     ELSE LET sidEnd == HeaderCells + buf[3]
          IN /\ got' = Append(got, [kind |-> buf[2], id |-> SubSeq(buf, HeaderCells + 1, sidEnd),
                                    seq |-> buf[4], payload |-> SubSeq(buf, sidEnd + 1, PayloadEnd(buf))])
             /\ buf' = SubSeq(buf, PayloadEnd(buf) + 1, Len(buf))
             /\ UNCHANGED decoder
  /\ UNCHANGED <<framed, seq, wire>>

FrameNext ==
  \/ \E id \in Ids : \/ \E p \in Payloads : SendFrame(KindData, id, p)
                     \/ SendFrame(KindExit, id, <<>>)
  \/ \E n \in 1..Len(wire) : Feed(n)
  \/ NextFrame

-----------------------------------------------------------------------------
(* Properties                                                              *)

\* Whatever pieces the bytes arrive in, and whatever they look like, the client gets the
\* frames that were sent, whole, in order and each once; nothing is left behind once
\* everything has arrived, and the decoder never loses its place.
FramesArrive ==
  /\ decoder # "ended" /\ IsPrefix(got, framed)
  /\ wire = <<>> /\ decoder = "read" => got = framed /\ buf = <<>>
=============================================================================
