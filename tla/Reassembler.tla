---------------------------- MODULE Reassembler ----------------------------
(***************************************************************************)
(* CtapHidReassembler of src/ctap_hid.rs: the table of incomplete messages *)
(* and what handle_packet does with each packet it is given.  The messages *)
(* it returns go to handle_message; here they are kept per channel, in the *)
(* order in which they were returned.                                      *)
(***************************************************************************)
EXTENDS CtapHid, HashMap

CONSTANT Cids   \* channel identifiers

VARIABLES
  channels,     \* the incomplete message of each channel that has one
  delivered     \* the messages returned so far, per channel

reassemblerVars == <<channels, delivered>>

IncompleteMessage ==
  [cmd : Byte, bcnt : 0 .. Base * Base - 1, payload : Seq(Byte), next_seq : Byte]

ReassemblerTypeOK ==
  /\ DOMAIN channels \subseteq Cids
  /\ \A c \in DOMAIN channels : channels[c] \in IncompleteMessage
  /\ delivered \in [Cids -> Seq([cmd : Byte, payload : Seq(Byte)])]

ReassemblerInit ==
  /\ channels = EmptyMap
  /\ delivered = [c \in Cids |-> <<>>]

Return(cid, cmd, payload) ==
  delivered' = [delivered EXCEPT
                  ![cid] = Append(@, [cmd |-> cmd, payload |-> payload])]

-----------------------------------------------------------------------------
(***************************************************************************)
(* Seeded faults: forms of the definitions below with one mistake each.    *)
(* The runs substitute them to show that a property notices the mistake.   *)
(***************************************************************************)

\* `<` where the code has `<=`.
FitsStrictly(p) == p.bcnt < InitData

\* The sequence number is not compared.
AnySequence(p) == TRUE

\* `remaining` is not applied: the zero padding is taken as payload.
ExtendedUntrimmed(msg, p) == msg.payload \o p.data

\* entry().or_insert instead of insert: an abandoned message stays.
FirstPacketIfVacant(p) ==
  /\ p.kind = "init"
  /\ ~(p.bcnt <= InitData)
  /\ channels' = IF p.cid \in DOMAIN channels
                 THEN channels
                 ELSE Put(channels, p.cid, [cmd |-> p.cmd, bcnt |-> p.bcnt,
                                            payload |-> p.data, next_seq |-> 0])
  /\ UNCHANGED delivered

-----------------------------------------------------------------------------
(***************************************************************************)
(* An initialization packet.                                               *)
(***************************************************************************)

FitsInOnePacket(p) == p.bcnt <= InitData

\* The message fits: it is returned, and an incomplete message of the same
\* channel stays in the table.
SinglePacket(p) ==
  /\ p.kind = "init"
  /\ FitsInOnePacket(p)
  /\ Return(p.cid, p.cmd, SubSeq(p.data, 1, p.bcnt))
  /\ UNCHANGED channels

\* The message continues: it replaces what the table has for the channel.
FirstPacket(p) ==
  /\ p.kind = "init"
  /\ ~FitsInOnePacket(p)
  /\ channels' = Put(channels, p.cid,
                     [cmd |-> p.cmd, bcnt |-> p.bcnt, payload |-> p.data,
                      next_seq |-> 0])
  /\ UNCHANGED delivered

(***************************************************************************)
(* A continuation packet.                                                  *)
(***************************************************************************)

InSequence(p) == p.seq = channels[p.cid].next_seq

\* Nothing is being reassembled on the channel: the packet is ignored.
StrayPacket(p) ==
  /\ p.kind = "cont"
  /\ p.cid \notin DOMAIN channels
  /\ UNCHANGED reassemblerVars

\* Not the expected sequence number: the incomplete message is discarded.
OutOfOrder(p) ==
  /\ p.kind = "cont"
  /\ p.cid \in DOMAIN channels
  /\ ~InSequence(p)
  /\ channels' = Remove(channels, p.cid)
  /\ UNCHANGED delivered

\* The payload of an incomplete message with the packet's bytes added.
Extended(msg, p) ==
  msg.payload \o
    SubSeq(p.data, 1, MinOf(msg.bcnt - Len(msg.payload), ContData))

\* The expected packet, and more are to come.
MiddlePacket(p) ==
  /\ p.kind = "cont"
  /\ p.cid \in DOMAIN channels
  /\ InSequence(p)
  /\ LET msg == channels[p.cid]
     IN  /\ Len(Extended(msg, p)) < msg.bcnt
         /\ channels' = Put(channels, p.cid,
                            [msg EXCEPT !.payload = Extended(msg, p),
                                        !.next_seq = (@ + 1) % Base])
  /\ UNCHANGED delivered

\* The expected packet completes the message.
LastPacket(p) ==
  /\ p.kind = "cont"
  /\ p.cid \in DOMAIN channels
  /\ InSequence(p)
  /\ LET msg == channels[p.cid]
     IN  /\ Len(Extended(msg, p)) >= msg.bcnt
         /\ Return(p.cid, msg.cmd, Extended(msg, p))
  /\ channels' = Remove(channels, p.cid)

HandlePacket(p) ==
  \/ SinglePacket(p)
  \/ FirstPacket(p)
  \/ StrayPacket(p)
  \/ OutOfOrder(p)
  \/ MiddlePacket(p)
  \/ LastPacket(p)

-----------------------------------------------------------------------------
(***************************************************************************)
(* Properties, whatever packets it is given.                               *)
(***************************************************************************)

\* The payload collected so far is what next_seq packets carry and is short
\* of the announced length.  So `msg.bcnt - msg.payload.len()` never wraps,
\* and next_seq, a u8, stays at or below 128 however long the announced
\* message is: one that needs more packets can never complete.
ReassemblyBounded ==
  \A c \in DOMAIN channels :
    LET msg == channels[c]
    IN  /\ Len(msg.payload) = InitData + msg.next_seq * ContData
        /\ Len(msg.payload) < msg.bcnt
        /\ msg.next_seq <= SeqLimit

\* Whatever is lost, a message that reaches handle_message can be sent back:
\* the echo that PING makes of it fits the sequence numbers of to_packets,
\* which checks nothing.
EchoFits ==
  \A c \in Cids : \A i \in DOMAIN delivered[c] :
    Len(delivered[c][i].payload) <= MaxPayload

=============================================================================
