------------------------------ MODULE HidLink ------------------------------
(***************************************************************************)
(* Hosts that send messages to the authenticator through the reassembler.  *)
(*                                                                         *)
(* A host owns one channel.  It cuts a message into packets, and each      *)
(* packet is serialized, crosses the link, is parsed and handed to         *)
(* handle_packet, as in the loop of UhidAuthenticator::run.  Packets of    *)
(* different channels interleave in every way; those of one channel keep   *)
(* their order.  The kernel's event queue drops reports when it is full,   *)
(* which is what happens while a prompt blocks the loop, and a host may    *)
(* stop in the middle of a message and begin another.                      *)
(***************************************************************************)
EXTENDS Reassembler

CONSTANTS
  Messages,     \* the messages hosts send
  Losable,      \* the kinds of packets the link may drop
  MaxMessages   \* how many messages a host begins (bounds the model)

ASSUME HostAssumption ==
  /\ Messages \subseteq Message
  /\ Losable \subseteq {"init", "cont"}
  /\ MaxMessages \in Nat

VARIABLES
  sending,   \* the cut of each busy host, and whether all its packets arrived
  begun,     \* history: the messages begun, per channel
  whole      \* history: those whose every packet arrived

hostVars == <<sending, begun, whole>>
vars == <<channels, delivered, sending, begun, whole>>

Cut ==
  [msg : Messages, first : BOOLEAN, offset : Nat, seq : Byte]

\* Types, and the bound that keeps the slices of to_packets in range: the
\* offset of its loop never passes the end of the payload.
TypeOK ==
  /\ ReassemblerTypeOK
  /\ DOMAIN sending \subseteq Cids
  /\ \A c \in DOMAIN sending :
       /\ sending[c] \in [cut : Cut, intact : BOOLEAN]
       /\ sending[c].cut.offset <= Len(sending[c].cut.msg.payload)
  /\ begun \in [Cids -> Seq(Messages)]
  /\ whole \in [Cids -> Seq(Messages)]

Init ==
  /\ ReassemblerInit
  /\ sending = EmptyMap
  /\ begun = [c \in Cids |-> <<>>]
  /\ whole = [c \in Cids |-> <<>>]

-----------------------------------------------------------------------------

Begin(c, m) ==
  /\ c \notin DOMAIN sending
  /\ Len(begun[c]) < MaxMessages
  /\ sending' = Put(sending, c, [cut |-> StartCut(m), intact |-> TRUE])
  /\ begun' = [begun EXCEPT ![c] = Append(@, m)]
  /\ UNCHANGED <<channels, delivered, whole>>

\* The host goes on to its next packet, or is done with the message.
Advance(c, arrived) ==
  LET cut  == CutNext(sending[c].cut)
      good == sending[c].intact /\ arrived
  IN  /\ \/ /\ ~CutDone(cut)
            /\ sending' = Put(sending, c, [cut |-> cut, intact |-> good])
            /\ UNCHANGED whole
         \/ /\ CutDone(cut)
            /\ sending' = Remove(sending, c)
            /\ whole' = IF good THEN [whole EXCEPT ![c] = Append(@, cut.msg)]
                                ELSE whole
      /\ UNCHANGED begun

\* The packet the authenticator reads when the next one of channel c arrives.
Incoming(c) == Parse(Serialize(CutPacket(sending[c].cut, c)))

\* The next packet of channel c crosses the link and is handled.
Arrive(c) ==
  /\ c \in DOMAIN sending
  /\ HandlePacket(Incoming(c))
  /\ Advance(c, TRUE)

\* The next packet of channel c is dropped.
Lose(c) ==
  /\ c \in DOMAIN sending
  /\ CutPacket(sending[c].cut, c).kind \in Losable
  /\ Advance(c, FALSE)
  /\ UNCHANGED reassemblerVars

\* The host gives up on its message: it timed out or was cancelled.
Abandon(c) ==
  /\ c \in DOMAIN sending
  /\ sending' = Remove(sending, c)
  /\ UNCHANGED <<channels, delivered, begun, whole>>

Next ==
  \E c \in Cids :
    \/ \E m \in Messages : Begin(c, m)
    \/ Arrive(c)
    \/ Lose(c)
    \/ Abandon(c)

Spec == Init /\ [][Next]_vars

-----------------------------------------------------------------------------
(***************************************************************************)
(* Properties.                                                             *)
(***************************************************************************)

\* Whatever is lost, a delivered message has the command and the length of a
\* message its channel began, as long as those kept to the limit of to_packets:
\* an incomplete message that is resumed by the packets of a later one still
\* ends where its own header said.
DeclaredLength ==
  \A c \in Cids :
    (\A j \in DOMAIN begun[c] : Len(begun[c][j].payload) <= MaxPayload) =>
      \A i \in DOMAIN delivered[c] :
        \E j \in DOMAIN begun[c] :
          /\ delivered[c][i].cmd = begun[c][j].cmd
          /\ Len(delivered[c][i].payload) = Len(begun[c][j].payload)

\* A channel delivers exactly the messages whose every packet arrived, in
\* order and unchanged, whatever the other channels do: no message with a
\* missing packet is delivered, none is delivered twice, none is a mixture of
\* two, and none that arrived whole is held back by an abandoned one.
ExactDelivery == delivered = whole

\* The same promise as a refinement: the packets, their losses and their
\* interleavings implement a link that moves messages in one step.
AtomicDelivery == INSTANCE AtomicLink
  WITH current <- [c \in DOMAIN sending |-> sending[c].cut.msg]

ImplementsAtomicLink == AtomicDelivery!Spec

\* What the comment on CtapHidContPacket::seq says of every continuation
\* packet: "Sequence number (0x00 to 0x7f)".
SequenceInRange ==
  \A c \in DOMAIN sending :
    ~sending[c].cut.first => sending[c].cut.seq \in 0 .. SeqLimit - 1

=============================================================================
