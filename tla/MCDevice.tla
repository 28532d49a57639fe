------------------------------ MODULE MCDevice ------------------------------
(***************************************************************************)
(* Small instances of Device: eight byte values, two payload bytes in an   *)
(* initialization packet and four in a continuation packet.  INIT and its  *)
(* answer fit one packet, as their 8 and 17 bytes do in the code.          *)
(***************************************************************************)
EXTENDS Device

\* Bytes that tell payloads apart.
CONSTANTS byteA, byteB

\* What GET_INFO returns does not fit one packet.
MCInfo == <<byteA, byteB, byteA>>

Ping(payload)  == [cmd |-> PingCommand, payload |-> payload]
Cbor(payload)  == [cmd |-> CborCommand, payload |-> payload]

\* An echo of two packets, a long answer, a prompt, and messages that are
\* ignored.
PatientRequests ==
  {Ping(<<byteA, byteB, byteA>>), Cbor(<<GetInfo>>), Cbor(<<Selection>>), Cbor(<<>>),
   [cmd |-> InitCommand, payload |-> <<>>]}

\* Two echoes whose packets can be mistaken for one another's.  No prompt is
\* needed: the loop may be as slow without one.
CrowdedRequests ==
  {Ping(<<byteA, byteB, byteA>>), Ping(<<byteB, byteB, byteB, byteA>>)}

\* An answer at once, a long one and a prompt.
LiveRequests == {Ping(<<byteA, byteB, byteA>>), Cbor(<<GetInfo>>), Cbor(<<Selection>>)}

OneEach == [h \in Hosts |-> 1]

\* Host 1 sends two requests after its INIT, the others one.
TwoFromFirst == [h \in Hosts |-> IF h = 1 THEN 2 ELSE 1]

=============================================================================
