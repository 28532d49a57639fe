------------------------------ MODULE CtapHid ------------------------------
(***************************************************************************)
(* The CTAPHID frame format of src/ctap_hid.rs: how a message is cut into  *)
(* packets (CtapHidMessage::to_packets), how a packet becomes a report     *)
(* (CtapHidPacket::serialize) and how a report is read back                *)
(* (CtapHidPacket::parse).                                                 *)
(*                                                                         *)
(* The sizes are parameters so that small instances keep every relation    *)
(* of the real ones: a report is one flag byte followed by ContData bytes, *)
(* an initialization packet spends two of those on the length, and the     *)
(* upper half of the byte values marks an initialization packet.  The code *)
(* has SeqLimit = 128 and InitData = 57.  The last assumption says that    *)
(* every length the sequence numbers can reach also fits the u16 length.   *)
(***************************************************************************)
EXTENDS Integers, Sequences

CONSTANTS
  SeqLimit,   \* 0x80: the smallest byte with bit 7 set
  InitData    \* payload bytes of an initialization packet

ASSUME FramingAssumption ==
  /\ SeqLimit \in Nat \ {0}
  /\ InitData \in Nat \ {0}
  /\ InitData + SeqLimit * (InitData + 2) < 4 * SeqLimit * SeqLimit

Base     == 2 * SeqLimit                      \* the number of byte values
Byte     == 0 .. Base - 1
ContData == InitData + 2                      \* bytes of a continuation packet

\* The longest payload whose continuation packets all have bit 7 clear.
MaxPayload == InitData + SeqLimit * ContData

MinOf(a, b) == IF a <= b THEN a ELSE b

-----------------------------------------------------------------------------

\* What a message carries besides its channel.  A command has bit 7 set.
Message == [cmd : SeqLimit .. Base - 1, payload : Seq(Byte)]

\* Seq(Byte) restricted to one length: the fixed-size arrays of the packets.
Bytes(n) == [1 .. n -> Byte]

InitPacket(Cid) ==
  [kind : {"init"}, cid : Cid, cmd : Byte, bcnt : 0 .. Base * Base - 1,
   data : Bytes(InitData)]

ContPacket(Cid) ==
  [kind : {"cont"}, cid : Cid, seq : Byte, data : Bytes(ContData)]

Packet(Cid) == InitPacket(Cid) \cup ContPacket(Cid)

\* `size` bytes of the payload after `offset`, in an array that was zeroed.
Chunk(payload, offset, size) ==
  [i \in 1 .. size |-> IF offset + i <= Len(payload) THEN payload[offset + i]
                                                     ELSE 0]

(***************************************************************************)
(* to_packets, one packet at a time: a cut is the state of its loop.       *)
(***************************************************************************)
StartCut(msg) == [msg |-> msg, first |-> TRUE, offset |-> 0, seq |-> 0]

\* The loop is over: `while offset < payload.len()` is false.
CutDone(cut) == ~cut.first /\ cut.offset >= Len(cut.msg.payload)

\* The packet the loop pushes next.  The length is cast to u16.
CutPacket(cut, cid) ==
  IF cut.first
  THEN [kind |-> "init", cid |-> cid, cmd |-> cut.msg.cmd,
        bcnt |-> Len(cut.msg.payload) % (Base * Base),
        data |-> Chunk(cut.msg.payload, 0, InitData)]
  ELSE [kind |-> "cont", cid |-> cid, seq |-> cut.seq,
        data |-> Chunk(cut.msg.payload, cut.offset, ContData)]

\* Seeded fault: seq is wider than a byte.
CutNextUnwrapped(cut) ==
  LET left == Len(cut.msg.payload) - cut.offset
  IN  IF cut.first
      THEN [cut EXCEPT !.first = FALSE, !.offset = MinOf(left, InitData)]
      ELSE [cut EXCEPT !.offset = @ + MinOf(left, ContData), !.seq = @ + 1]

\* offset and seq after that packet; seq is a u8.
CutNext(cut) ==
  LET left == Len(cut.msg.payload) - cut.offset
  IN  IF cut.first
      THEN [cut EXCEPT !.first = FALSE, !.offset = MinOf(left, InitData)]
      ELSE [cut EXCEPT !.offset = @ + MinOf(left, ContData),
                       !.seq = (@ + 1) % Base]

(***************************************************************************)
(* serialize and parse.  A report keeps the channel identifier apart from  *)
(* the ContData + 1 bytes that follow it.  Reports are always complete:    *)
(* run() hands parse 65 bytes of the kernel's event whatever the size of   *)
(* the report the host wrote, so the branches for shorter buffers are dead *)
(* in the program and the report identifier is always dropped.             *)
(***************************************************************************)
Serialize(p) ==
  [cid   |-> p.cid,
   bytes |-> IF p.kind = "init"
             THEN <<p.cmd, p.bcnt \div Base, p.bcnt % Base>> \o p.data
             ELSE <<p.seq>> \o p.data]

Parse(report) ==
  LET b == report.bytes
  IN  IF b[1] >= SeqLimit
      THEN [kind |-> "init", cid |-> report.cid, cmd |-> b[1],
            bcnt |-> b[2] * Base + b[3],
            data |-> [i \in 1 .. InitData |-> b[i + 3]]]
      ELSE [kind |-> "cont", cid |-> report.cid, seq |-> b[1],
            data |-> [i \in 1 .. ContData |-> b[i + 1]]]

=============================================================================
