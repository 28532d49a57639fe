----------------------------- MODULE MCHidLink -----------------------------
(***************************************************************************)
(* Small instances of HidLink: one or two channels, four byte values, one  *)
(* payload byte in an initialization packet and three in a continuation    *)
(* packet, so that the longest payload is 7 bytes in 3 packets.            *)
(***************************************************************************)
EXTENDS HidLink

\* A payload of n bytes; the tag and the position tell its bytes apart.
Payload(n, tag) == [i \in 1 .. n |-> (i + tag) % Base]

\* No byte, one packet exactly, two packets, three packets, two commands.
MCMessages ==
  { [cmd |-> SeqLimit,     payload |-> Payload(0, 0)],
    [cmd |-> SeqLimit + 1, payload |-> Payload(InitData, 1)],
    [cmd |-> SeqLimit,     payload |-> Payload(InitData + 1, 0)],
    [cmd |-> SeqLimit + 1, payload |-> Payload(MaxPayload - 1, 2)],
    [cmd |-> SeqLimit,     payload |-> Payload(MaxPayload, 3)] }

\* Also one byte more than the sequence numbers can carry, and as many as make
\* seq wrap around.
LossyMessages ==
  MCMessages \cup
  { [cmd |-> SeqLimit + 1, payload |-> Payload(n, 0)] :
      n \in {MaxPayload + 1, InitData + Base * ContData + 1} }

=============================================================================
