---------------------------- MODULE InputChannel ----------------------------
(***************************************************************************)
(* What the input path of a terminal promises: every write is answered     *)
(* once, with ok only if its bytes reached the terminal, and what a caller *)
(* wrote arrives in the order the caller wrote it, with gaps where a write *)
(* failed.                                                                 *)
(***************************************************************************)
EXTENDS Integers, Sequences

CONSTANTS Writers,   \* the threads that write
          MaxWrites  \* writes of each of them

VARIABLES asked,     \* asked[w]: the writes w has begun
          arrived,   \* the writes that reached the terminal, <<w, n>> in order
          answer     \* answer[w]: the outcomes of w's finished writes

Began(w) == asked' = [asked EXCEPT ![w] = @ + 1] /\ UNCHANGED <<arrived, answer>>

\* The terminal takes a write: one that was begun and is newer than everything of
\* the same writer it took before.
Arrives(w, n) ==
  /\ n \in 1..asked[w]
  /\ \A i \in 1..Len(arrived) : arrived[i][1] = w => arrived[i][2] < n
  /\ arrived' = Append(arrived, <<w, n>>)
  /\ UNCHANGED <<asked, answer>>

\* The oldest unanswered write is answered; after ok the bytes are there.
Answers(w, ok) ==
  /\ Len(answer[w]) < asked[w]
  /\ ok => \E i \in 1..Len(arrived) : arrived[i] = <<w, Len(answer[w]) + 1>>
  /\ answer' = [answer EXCEPT ![w] = Append(@, ok)]
  /\ UNCHANGED <<asked, arrived>>

ChannelInit ==
  /\ asked = [w \in Writers |-> 0] /\ arrived = <<>> /\ answer = [w \in Writers |-> <<>>]

ChannelNext ==
  \E w \in Writers :
    \/ asked[w] = Len(answer[w]) /\ Began(w)
    \/ \E n \in 1..MaxWrites : Arrives(w, n)
    \/ \E ok \in BOOLEAN : Answers(w, ok)

Channel == ChannelInit /\ [][ChannelNext]_<<asked, arrived, answer>>
=============================================================================
