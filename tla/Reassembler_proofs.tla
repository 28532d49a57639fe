------------------------- MODULE Reassembler_proofs -------------------------
(***************************************************************************)
(* Proofs about src/ctap_hid.rs: the frame format, for every number of     *)
(* byte values and every packet size that FramingAssumption allows, and    *)
(* the reassembler, for every set of channels and whatever it is given.    *)
(***************************************************************************)
EXTENDS Reassembler, SequenceTheorems, TLAPS

\* The sizes are positive, and bit 7 halves the byte values.
LEMMA Sizes ==
  /\ SeqLimit \in Nat /\ SeqLimit > 0
  /\ InitData \in Nat /\ InitData > 0
  /\ Base = 2 * SeqLimit /\ Base \in Nat /\ Base > SeqLimit
  /\ ContData = InitData + 2 /\ ContData \in Nat
  /\ MaxPayload = InitData + SeqLimit * ContData /\ MaxPayload \in Nat
  /\ Byte = 0 .. Base - 1
  BY FramingAssumption DEF Base, ContData, MaxPayload, Byte

\* The longest payload fits the length field.
LEMMA LengthFits == MaxPayload < Base * Base
<1>1. Base * Base = 4 * SeqLimit * SeqLimit
  BY Sizes
<1> QED
  BY <1>1, Sizes, FramingAssumption

\* An array of bytes is a sequence of bytes.
LEMMA BytesSeq ==
  ASSUME NEW n \in Nat, NEW d \in Bytes(n)
  PROVE  d \in Seq(Byte) /\ Len(d) = n
  BY DEF Bytes

\* What to_packets copies into an array.
LEMMA ChunkType ==
  ASSUME NEW payload \in Seq(Byte), NEW offset \in Nat, NEW size \in Nat
  PROVE  Chunk(payload, offset, size) \in Bytes(size)
<1>1. 0 \in Byte
  BY Sizes
<1> QED
  BY <1>1 DEF Chunk, Bytes

\* The quotient and the remainder of a length are what gives it back.
LEMMA LengthBytes ==
  \A n \in Nat : /\ n \div Base \in Nat /\ n % Base \in Nat
                  /\ (n \div Base) * Base + (n % Base) = n
<1>1. Base \in Nat /\ Base > 0
  BY Sizes
<1>2. ASSUME NEW b \in Nat, b > 0, NEW n \in Nat
      PROVE  n \div b \in Nat /\ n % b \in Nat /\ (n \div b) * b + (n % b) = n
  BY <1>2
<1> QED
  BY <1>1, <1>2

\* Two bytes read as a length stay below the square of the base.
LEMMA TwoBytes ==
  ASSUME NEW hi \in Byte, NEW lo \in Byte
  PROVE  hi * Base + lo \in 0 .. Base * Base - 1
<1>1. ASSUME NEW b \in Nat, NEW x \in 0 .. b - 1, NEW y \in 0 .. b - 1
      PROVE  x * b + y \in 0 .. b * b - 1
  <2>1. x * b <= (b - 1) * b
    OBVIOUS
  <2>2. (b - 1) * b = b * b - b
    OBVIOUS
  <2>3. x * b \in Nat /\ b * b \in Nat
    OBVIOUS
  <2> QED
    BY <2>1, <2>2, <2>3
<1> QED
  BY <1>1, Sizes

\* The bytes of a continuation report after the channel identifier.
LEMMA ContBytes ==
  \A a \in Nat : \A d \in Bytes(ContData) :
    /\ (<<a>> \o d)[1] = a
    /\ \A i \in 1 .. ContData : (<<a>> \o d)[i + 1] = d[i]
<1> SUFFICES ASSUME NEW a \in Nat, NEW d \in Bytes(ContData)
             PROVE  /\ (<<a>> \o d)[1] = a
                    /\ \A i \in 1 .. ContData : (<<a>> \o d)[i + 1] = d[i]
  OBVIOUS
<1>1. d \in Seq(Nat) /\ Len(d) = ContData
  BY Sizes DEF Bytes
<1>2. <<a>> \in Seq(Nat) /\ Len(<<a>>) = 1
  OBVIOUS
<1> QED
  BY <1>1, <1>2, Sizes

\* parse reads an initialization packet back as serialize wrote it: the length
\* survives its two bytes, and bit 7 of the command tells the kind.
THEOREM InitRoundTrip ==
  ASSUME NEW cid, NEW cmd \in Byte, cmd >= SeqLimit,
         NEW bcnt \in 0 .. Base * Base - 1, NEW data \in Bytes(InitData),
         NEW p, p = [kind |-> "init", cid |-> cid, cmd |-> cmd, bcnt |-> bcnt,
                     data |-> data]
  PROVE  Parse(Serialize(p)) = p
<1>1. bcnt \in Nat /\ cmd \in Nat
  BY Sizes
<1>2. /\ bcnt \div Base \in Nat /\ bcnt % Base \in Nat
      /\ (bcnt \div Base) * Base + (bcnt % Base) = bcnt
  BY <1>1, LengthBytes, Zenon
<1>3. PICK hi, lo : hi = bcnt \div Base /\ lo = bcnt % Base
  BY Zenon
<1>4. hi \in Nat /\ lo \in Nat /\ hi * Base + lo = bcnt
  BY <1>2, <1>3, Zenon
<1>5. PICK s : s = <<cmd, hi, lo>> \o data
  BY Zenon
<1>6. /\ s[1] = cmd /\ s[2] = hi /\ s[3] = lo
      /\ \A i \in 1 .. InitData : s[i + 3] = data[i]
  <2>1. /\ (<<cmd, hi, lo>> \o data)[1] = cmd
        /\ (<<cmd, hi, lo>> \o data)[2] = hi
        /\ (<<cmd, hi, lo>> \o data)[3] = lo
        /\ \A i \in 1 .. InitData : (<<cmd, hi, lo>> \o data)[i + 3] = data[i]
    <3>1. data \in Seq(Nat) /\ Len(data) = InitData
      BY Sizes DEF Bytes
    <3> QED
      BY <3>1, <1>1, <1>4, Sizes
  <2> QED
    BY <2>1, <1>5, Zenon
<1>7. Serialize(p) = [cid |-> cid, bytes |-> s]
  BY <1>3, <1>5 DEF Serialize
<1>8. [i \in 1 .. InitData |-> s[i + 3]] = data
  BY <1>6 DEF Bytes
<1>9. Parse([cid |-> cid, bytes |-> s]) =
        [kind |-> "init", cid |-> cid, cmd |-> s[1],
         bcnt |-> s[2] * Base + s[3],
         data |-> [i \in 1 .. InitData |-> s[i + 3]]]
  BY <1>6 DEF Parse
<1> QED
  BY <1>4, <1>6, <1>7, <1>8, <1>9, Zenon

\* The same of a continuation packet whose sequence number is in its range.
THEOREM ContRoundTrip ==
  ASSUME NEW cid, NEW seq \in Byte, seq < SeqLimit, NEW data \in Bytes(ContData),
         NEW p, p = [kind |-> "cont", cid |-> cid, seq |-> seq, data |-> data]
  PROVE  Parse(Serialize(p)) = p
<1>1. seq \in Nat
  BY Sizes
<1>2. PICK s : s = <<seq>> \o data
  OBVIOUS
<1>3. s[1] = seq /\ \A i \in 1 .. ContData : s[i + 1] = data[i]
  BY <1>1, <1>2, ContBytes
<1>4. Serialize(p) = [cid |-> cid, bytes |-> s]
  BY <1>2 DEF Serialize
<1>5. [i \in 1 .. ContData |-> s[i + 1]] = data
  BY <1>3 DEF Bytes
<1>6. ~(s[1] >= SeqLimit)
  BY <1>1, <1>3, Sizes
<1>7. Parse([cid |-> cid, bytes |-> s]) =
        [kind |-> "cont", cid |-> cid, seq |-> s[1],
         data |-> [i \in 1 .. ContData |-> s[i + 1]]]
  BY <1>6 DEF Parse
<1> QED
  BY <1>3, <1>4, <1>5, <1>7, Zenon

\* A continuation packet whose sequence number has run into bit 7 is taken for
\* an initialization packet.
THEOREM ContOverrun ==
  ASSUME NEW Cid, NEW cid \in Cid, NEW seq \in Byte, seq >= SeqLimit,
         NEW data \in Bytes(ContData),
         NEW p, p = [kind |-> "cont", cid |-> cid, seq |-> seq, data |-> data]
  PROVE  Parse(Serialize(p)) \in InitPacket(Cid) /\ Parse(Serialize(p)).cid = cid
<1>1. seq \in Nat
  BY Sizes
<1>2. PICK s : s = <<seq>> \o data
  OBVIOUS
<1>3. s[1] = seq /\ \A i \in 1 .. ContData : s[i + 1] = data[i]
  BY <1>1, <1>2, ContBytes
<1>4. Serialize(p) = [cid |-> cid, bytes |-> s]
  BY <1>2 DEF Serialize
<1>5. Parse([cid |-> cid, bytes |-> s]) =
        [kind |-> "init", cid |-> cid, cmd |-> s[1],
         bcnt |-> s[2] * Base + s[3],
         data |-> [i \in 1 .. InitData |-> s[i + 3]]]
  BY <1>3 DEF Parse
<1>6. \A i \in 1 .. ContData : s[i + 1] \in Byte
  BY <1>3 DEF Bytes
<1>7. \A i \in 2 .. ContData + 1 : s[i] \in Byte
  <2>1. ASSUME NEW i \in 2 .. ContData + 1 PROVE s[i] \in Byte
    <3>1. i - 1 \in 1 .. ContData /\ (i - 1) + 1 = i
      BY Sizes
    <3> QED
      BY <1>6, <3>1
  <2> QED
    BY <2>1
<1>8. s[2] \in Byte /\ s[3] \in Byte
  BY <1>7, Sizes
<1>9. s[2] * Base + s[3] \in 0 .. Base * Base - 1
  BY <1>8, TwoBytes
<1>10. [i \in 1 .. InitData |-> s[i + 3]] \in Bytes(InitData)
  BY <1>7, Sizes DEF Bytes
<1>11. PICK n, d : /\ n = s[2] * Base + s[3]
                   /\ d = [i \in 1 .. InitData |-> s[i + 3]]
  BY Zenon
<1>12. Parse(Serialize(p)) =
         [kind |-> "init", cid |-> cid, cmd |-> seq, bcnt |-> n, data |-> d]
  BY <1>3, <1>4, <1>5, <1>11, Zenon
<1>13. n \in 0 .. Base * Base - 1 /\ d \in Bytes(InitData)
  BY <1>9, <1>10, <1>11, Zenon
<1> QED
  BY <1>12, <1>13 DEF InitPacket

-----------------------------------------------------------------------------
(***************************************************************************)
(* The reassembler, given any packet parse can return.                     *)
(***************************************************************************)

\* A packet as parse returns it: bit 7 is clear in a sequence number.
Readable(p) ==
  /\ p \in Packet(Cids)
  /\ p.kind = "cont" => p.seq < SeqLimit

\* What is appended to a payload is as long as was announced, or one array.
LEMMA ExtendedFacts ==
  ASSUME NEW msg \in IncompleteMessage, Len(msg.payload) < msg.bcnt,
         NEW p, p.data \in Bytes(ContData)
  PROVE  /\ Extended(msg, p) \in Seq(Byte)
         /\ Len(Extended(msg, p)) =
              Len(msg.payload) + MinOf(msg.bcnt - Len(msg.payload), ContData)
<1> DEFINE n == MinOf(msg.bcnt - Len(msg.payload), ContData)
           t == SubSeq(p.data, 1, n)
<1>1. msg.payload \in Seq(Byte) /\ Len(msg.payload) \in Nat /\ msg.bcnt \in Nat
  BY Sizes DEF IncompleteMessage
<1>2. n \in 0 .. ContData
  BY <1>1, Sizes DEF MinOf
<1>3. \A i \in 1 .. n : p.data[i] \in Byte
  BY <1>2, Sizes DEF Bytes
<1>4. t \in Seq(Byte) /\ Len(t) = n
  <2> HIDE DEF n
  <2> QED
    BY <1>2, <1>3, SubSeqProperties
<1>5. /\ msg.payload \o t \in Seq(Byte)
      /\ Len(msg.payload \o t) = Len(msg.payload) + Len(t)
  <2> HIDE DEF t
  <2> QED
    BY <1>1, <1>4, ConcatProperties
<1> QED
  BY <1>4, <1>5 DEF Extended

\* Returning a message of echoable length keeps what was delivered echoable.
LEMMA ReturnFacts ==
  ASSUME ReassemblerTypeOK, EchoFits, NEW c \in Cids, NEW cmd \in Byte,
         NEW payload \in Seq(Byte), Len(payload) <= MaxPayload,
         Return(c, cmd, payload)
  PROVE  /\ delivered' \in [Cids -> Seq([cmd : Byte, payload : Seq(Byte)])]
         /\ EchoFits'
<1>1. PICK m : m = [cmd |-> cmd, payload |-> payload]
  OBVIOUS
<1>2. m \in [cmd : Byte, payload : Seq(Byte)] /\ Len(m.payload) <= MaxPayload
  BY <1>1
<1>3. delivered' = [delivered EXCEPT ![c] = Append(@, m)]
  BY <1>1 DEF Return
<1>4. delivered' \in [Cids -> Seq([cmd : Byte, payload : Seq(Byte)])]
  <2>1. PICK R : R = [cmd : Byte, payload : Seq(Byte)]
    OBVIOUS
  <2>2. delivered \in [Cids -> Seq(R)] /\ m \in R
    BY <1>2, <2>1, Zenon DEF ReassemblerTypeOK
  <2>3. delivered' \in [Cids -> Seq(R)]
    BY <1>3, <2>2
  <2> QED
    BY <2>1, <2>3, Zenon
<1>5. ASSUME NEW d \in Cids, NEW i \in DOMAIN delivered'[d]
      PROVE  Len(delivered'[d][i].payload) <= MaxPayload
  <2>1. CASE d = c /\ i = Len(delivered[c]) + 1
    BY <1>2, <1>3, <2>1 DEF ReassemblerTypeOK
  <2>2. CASE ~(d = c /\ i = Len(delivered[c]) + 1)
    <3>1. i \in DOMAIN delivered[d] /\ delivered'[d][i] = delivered[d][i]
      BY <1>3, <2>2 DEF ReassemblerTypeOK
    <3> QED
      BY <3>1 DEF EchoFits
  <2> QED
    BY <2>1, <2>2
<1> QED
  BY <1>4, <1>5 DEF EchoFits

\* The entry of a channel satisfies the bounds of ReassemblyBounded.
EntryBounded(msg) ==
  /\ Len(msg.payload) = InitData + msg.next_seq * ContData
  /\ Len(msg.payload) < msg.bcnt
  /\ msg.next_seq <= SeqLimit

\* Putting a bounded entry into the table keeps every entry bounded.
LEMMA PutBounded ==
  ASSUME ReassemblerTypeOK, ReassemblyBounded, NEW c \in Cids,
         NEW msg \in IncompleteMessage, EntryBounded(msg),
         channels' = Put(channels, c, msg), UNCHANGED delivered
  PROVE  ReassemblerTypeOK' /\ ReassemblyBounded'
<1>1. /\ DOMAIN channels' \subseteq Cids
      /\ \A k \in DOMAIN channels' : channels'[k] \in IncompleteMessage
  BY DEF Put, ReassemblerTypeOK
<1>2. ASSUME NEW k \in DOMAIN channels'
      PROVE  EntryBounded(channels'[k])
  <2>1. CASE k = c
    BY <2>1, Zenon DEF Put
  <2>2. CASE k # c
    <3>1. k \in DOMAIN channels /\ channels'[k] = channels[k]
      BY <2>2 DEF Put
    <3> QED
      BY <3>1 DEF ReassemblyBounded, EntryBounded
  <2> QED
    BY <2>1, <2>2
<1> QED
  BY <1>1, <1>2 DEF ReassemblerTypeOK, ReassemblyBounded, EntryBounded

\* Taking an entry out of the table keeps every other entry bounded.
LEMMA RemoveBounded ==
  ASSUME ReassemblerTypeOK, ReassemblyBounded, NEW c,
         channels' = Remove(channels, c)
  PROVE  /\ DOMAIN channels' \subseteq Cids
         /\ \A k \in DOMAIN channels' : channels'[k] \in IncompleteMessage
         /\ ReassemblyBounded'
<1>1. /\ DOMAIN channels' \subseteq DOMAIN channels
      /\ \A k \in DOMAIN channels' : channels'[k] = channels[k]
  BY DEF Remove
<1> QED
  BY <1>1 DEF ReassemblerTypeOK, ReassemblyBounded

\* Whatever packet it is given, handle_packet keeps the types, the bounds of
\* its table, and delivers only messages that can be echoed.
LEMMA HandlePacketBounded ==
  ASSUME ReassemblerTypeOK, ReassemblyBounded, EchoFits,
         NEW p, Readable(p), HandlePacket(p)
  PROVE  ReassemblerTypeOK' /\ ReassemblyBounded' /\ EchoFits'
<1>1. EchoFits /\ UNCHANGED delivered => EchoFits'
  BY DEF EchoFits
<1>2. CASE SinglePacket(p)
  <2>1. /\ p.cid \in Cids /\ p.cmd \in Byte /\ p.bcnt \in 0 .. InitData
        /\ p.data \in Bytes(InitData)
    BY <1>2, Sizes
       DEF SinglePacket, FitsInOnePacket, Readable, Packet, InitPacket, ContPacket
  <2>2. \A i \in 1 .. p.bcnt : p.data[i] \in Byte
    BY <2>1, Sizes DEF Bytes
  <2>3. /\ SubSeq(p.data, 1, p.bcnt) \in Seq(Byte)
        /\ Len(SubSeq(p.data, 1, p.bcnt)) = p.bcnt
    BY <2>1, <2>2, SubSeqProperties
  <2>4. Len(SubSeq(p.data, 1, p.bcnt)) <= MaxPayload
    BY <2>1, <2>3, Sizes
  <2>5. /\ delivered' \in [Cids -> Seq([cmd : Byte, payload : Seq(Byte)])]
        /\ EchoFits'
    BY <1>2, <2>1, <2>3, <2>4, ReturnFacts DEF SinglePacket
  <2> QED
    BY <1>2, <2>5 DEF SinglePacket, ReassemblerTypeOK, ReassemblyBounded
<1>3. CASE FirstPacket(p)
  <2>1. PICK msg : msg = [cmd |-> p.cmd, bcnt |-> p.bcnt, payload |-> p.data,
                          next_seq |-> 0]
    OBVIOUS
  <2>2. /\ p.cid \in Cids /\ p.cmd \in Byte /\ p.bcnt \in 0 .. Base * Base - 1
        /\ p.bcnt > InitData /\ p.data \in Bytes(InitData)
    BY <1>3, Sizes
       DEF FirstPacket, FitsInOnePacket, Readable, Packet, InitPacket, ContPacket
  <2>3. p.data \in Seq(Byte) /\ Len(p.data) = InitData
    BY <2>2, Sizes, BytesSeq
  <2>4. 0 \in Byte /\ 0 * ContData = 0
    BY Sizes
  <2>5. msg \in IncompleteMessage
    BY <2>1, <2>2, <2>3, <2>4 DEF IncompleteMessage
  <2>6. /\ msg.bcnt = p.bcnt /\ msg.payload = p.data /\ msg.next_seq = 0
    BY <2>1
  <2>7. EntryBounded(msg)
    <3>1. Len(p.data) = InitData + 0 * ContData /\ Len(p.data) < p.bcnt
      BY <2>2, <2>3, <2>4, Sizes
    <3>2. 0 <= SeqLimit
      BY Sizes
    <3> QED
      BY <3>1, <3>2, <2>6, Zenon DEF EntryBounded
  <2>8. msg \in IncompleteMessage /\ EntryBounded(msg)
    BY <2>5, <2>7
  <2>9. channels' = Put(channels, p.cid, msg) /\ UNCHANGED delivered
    BY <1>3, <2>1 DEF FirstPacket
  <2> QED
    BY <1>1, <2>2, <2>8, <2>9, PutBounded
<1>4. CASE StrayPacket(p)
  BY <1>4
     DEF StrayPacket, reassemblerVars, ReassemblerTypeOK, ReassemblyBounded, EchoFits
<1>5. CASE OutOfOrder(p)
  BY <1>1, <1>5, RemoveBounded DEF OutOfOrder, ReassemblerTypeOK
<1>6. ASSUME MiddlePacket(p) \/ LastPacket(p)
      PROVE  /\ p.cid \in Cids /\ p.data \in Bytes(ContData)
             /\ channels[p.cid] \in IncompleteMessage
             /\ EntryBounded(channels[p.cid])
             /\ channels[p.cid].next_seq \in 0 .. SeqLimit - 1
  <2>1. /\ p.cid \in DOMAIN channels /\ p.kind = "cont"
        /\ p.seq = channels[p.cid].next_seq
    BY <1>6 DEF MiddlePacket, LastPacket, InSequence
  <2>2. p \in ContPacket(Cids) /\ p.seq < SeqLimit
    BY <2>1 DEF Readable, Packet, InitPacket
  <2>3. p.data \in Bytes(ContData) /\ p.seq \in Byte
    BY <2>2 DEF ContPacket
  <2>4. p.data \in Bytes(ContData) /\ p.seq \in 0 .. SeqLimit - 1
    BY <2>2, <2>3, Sizes
  <2> QED
    BY <2>1, <2>4 DEF ReassemblerTypeOK, ReassemblyBounded, EntryBounded
<1>7. CASE MiddlePacket(p)
  <2>1. PICK msg : msg = channels[p.cid]
    OBVIOUS
  <2>2. /\ msg \in IncompleteMessage /\ EntryBounded(msg)
        /\ msg.next_seq \in 0 .. SeqLimit - 1
    BY <1>6, <1>7, <2>1
  <2>3. PICK ext : ext = Extended(msg, p)
    OBVIOUS
  <2>4. /\ ext \in Seq(Byte)
        /\ Len(ext) = Len(msg.payload) + MinOf(msg.bcnt - Len(msg.payload), ContData)
    BY <1>6, <1>7, <2>2, <2>3, ExtendedFacts DEF EntryBounded
  <2>5. Len(ext) < msg.bcnt
    BY <1>7, <2>1, <2>3 DEF MiddlePacket
  <2>6. Len(ext) = Len(msg.payload) + ContData
    BY <2>2, <2>4, <2>5, Sizes DEF MinOf, IncompleteMessage
  <2>7. (msg.next_seq + 1) % Base = msg.next_seq + 1
    BY <2>2, Sizes
  <2>8. PICK new : new = [msg EXCEPT !.payload = ext, !.next_seq = msg.next_seq + 1]
    OBVIOUS
  <2>9. msg.next_seq + 1 \in Byte /\ msg.next_seq + 1 <= SeqLimit
    BY <2>2, Sizes
  <2>10. /\ new.bcnt = msg.bcnt /\ new.payload = ext
        /\ new.next_seq = msg.next_seq + 1
    BY <2>2, <2>8 DEF IncompleteMessage
  <2>11. new \in IncompleteMessage
    BY <2>2, <2>4, <2>8, <2>9 DEF IncompleteMessage
  <2>12. (msg.next_seq + 1) * ContData = msg.next_seq * ContData + ContData
    BY <2>2, Sizes
  <2>13. EntryBounded(new)
    <3>1. Len(ext) = InitData + (msg.next_seq * ContData + ContData)
      <4>1. /\ Len(msg.payload) = InitData + msg.next_seq * ContData
            /\ msg.next_seq * ContData \in Int
        BY <2>2, Sizes DEF EntryBounded
      <4> QED
        BY <4>1, <2>6, Sizes
    <3> QED
      BY <3>1, <2>5, <2>12, <2>9, <2>10 DEF EntryBounded
  <2>14. channels' = Put(channels, p.cid, new) /\ UNCHANGED delivered
    BY <1>7, <2>1, <2>3, <2>7, <2>8 DEF MiddlePacket
  <2> QED
    BY <1>1, <1>6, <1>7, <2>11, <2>13, <2>14, PutBounded
<1>8. CASE LastPacket(p)
  <2>1. PICK msg : msg = channels[p.cid]
    OBVIOUS
  <2>2. /\ msg \in IncompleteMessage /\ EntryBounded(msg)
        /\ msg.next_seq \in 0 .. SeqLimit - 1
    BY <1>6, <1>8, <2>1
  <2>3. PICK ext : ext = Extended(msg, p)
    OBVIOUS
  <2>4. /\ ext \in Seq(Byte)
        /\ Len(ext) = Len(msg.payload) + MinOf(msg.bcnt - Len(msg.payload), ContData)
    BY <1>6, <1>8, <2>2, <2>3, ExtendedFacts DEF EntryBounded
  <2>5. Len(ext) <= InitData + (msg.next_seq * ContData + ContData)
    <3>1. /\ Len(msg.payload) = InitData + msg.next_seq * ContData
          /\ msg.next_seq * ContData \in Int /\ msg.bcnt \in Int
      BY <2>2, Sizes DEF EntryBounded, IncompleteMessage
    <3>2. /\ MinOf(msg.bcnt - Len(msg.payload), ContData) <= ContData
          /\ MinOf(msg.bcnt - Len(msg.payload), ContData) \in Int
      <4>1. PICK left \in Int : left = msg.bcnt - Len(msg.payload)
        BY <2>2, <3>1 DEF IncompleteMessage
      <4>2. MinOf(left, ContData) <= ContData /\ MinOf(left, ContData) \in Int
        BY Sizes DEF MinOf
      <4> QED
        BY <4>1, <4>2, Zenon
    <3> QED
      BY <3>1, <3>2, <2>4, Sizes
  <2>6. msg.next_seq * ContData + ContData <= SeqLimit * ContData
    <3>1. msg.next_seq * ContData + ContData = (msg.next_seq + 1) * ContData
      BY <2>2, Sizes
    <3>2. (msg.next_seq + 1) * ContData <= SeqLimit * ContData
      BY <2>2, Sizes
    <3> QED
      BY <3>1, <3>2
  <2>7. Len(ext) <= MaxPayload
    BY <2>2, <2>4, <2>5, <2>6, Sizes
  <2>8. Return(p.cid, msg.cmd, ext) /\ channels' = Remove(channels, p.cid)
    BY <1>8, <2>1, <2>3 DEF LastPacket
  <2>9. msg.cmd \in Byte
    BY <2>2 DEF IncompleteMessage
  <2>10. /\ delivered' \in [Cids -> Seq([cmd : Byte, payload : Seq(Byte)])]
         /\ EchoFits'
    BY <1>6, <1>8, <2>4, <2>7, <2>8, <2>9, ReturnFacts
  <2> QED
    BY <2>8, <2>10, RemoveBounded DEF ReassemblerTypeOK
<1> QED
  BY <1>2, <1>3, <1>4, <1>5, <1>7, <1>8 DEF HandlePacket

\* The commands and lengths on channel c, in the table and returned, are in D.
DeclaredIn(c, D) ==
  /\ c \in DOMAIN channels => <<channels[c].cmd, channels[c].bcnt>> \in D
  /\ \A i \in DOMAIN delivered[c] :
       <<delivered[c][i].cmd, Len(delivered[c][i].payload)>> \in D

\* A message that is returned was declared when it is returned as declared.
LEMMA ReturnDeclared ==
  ASSUME ReassemblerTypeOK, NEW c \in Cids, NEW D, DeclaredIn(c, D), NEW cmd,
         NEW payload, Return(c, cmd, payload), <<cmd, Len(payload)>> \in D,
         c \in DOMAIN channels' => c \in DOMAIN channels /\ channels'[c] = channels[c]
  PROVE  DeclaredIn(c, D)'
<1>1. PICK m : m = [cmd |-> cmd, payload |-> payload]
  OBVIOUS
<1>2. m.cmd = cmd /\ m.payload = payload
  BY <1>1
<1>3. PICK n \in Nat : n = Len(delivered[c]) /\ DOMAIN delivered[c] = 1 .. n
  BY DEF ReassemblerTypeOK
<1>4. /\ DOMAIN delivered'[c] = 1 .. n + 1 /\ delivered'[c][n + 1] = m
      /\ \A i \in 1 .. n : delivered'[c][i] = delivered[c][i]
  BY <1>1, <1>3 DEF Return, ReassemblerTypeOK
<1>5. \A i \in 1 .. n + 1 :
        <<delivered'[c][i].cmd, Len(delivered'[c][i].payload)>> \in D
  <2>1. TAKE i \in 1 .. n + 1
  <2>2. CASE i = n + 1
    BY <1>2, <1>4, <2>2
  <2>3. CASE i # n + 1
    <3>1. i \in 1 .. n
      BY <1>3, <2>3
    <3> QED
      BY <1>3, <1>4, <3>1 DEF DeclaredIn
  <2> QED
    BY <2>2, <2>3
<1> QED
  BY <1>4, <1>5 DEF DeclaredIn

\* handle_packet returns and stores only what an initialization packet declared:
\* this one, or the one that began the entry.
LEMMA HandlePacketDeclared ==
  ASSUME ReassemblerTypeOK, ReassemblyBounded, NEW p, Readable(p), HandlePacket(p),
         NEW D, p.kind = "init" => <<p.cmd, p.bcnt>> \in D, DeclaredIn(p.cid, D)
  PROVE  DeclaredIn(p.cid, D)'
<1>1. PICK c \in Cids : c = p.cid
  BY DEF Readable, Packet, InitPacket, ContPacket
<1>2. CASE UNCHANGED delivered /\ c \notin DOMAIN channels'
  BY <1>1, <1>2 DEF DeclaredIn
<1>3. CASE SinglePacket(p)
  <2>1. /\ p.bcnt \in 0 .. InitData /\ p.data \in Bytes(InitData)
        /\ <<p.cmd, p.bcnt>> \in D
    BY <1>3, Sizes
       DEF SinglePacket, FitsInOnePacket, Readable, Packet, InitPacket, ContPacket
  <2>2. \A i \in 1 .. p.bcnt : p.data[i] \in Byte
    BY <2>1, Sizes DEF Bytes
  <2>3. Len(SubSeq(p.data, 1, p.bcnt)) = p.bcnt
    BY <2>1, <2>2, SubSeqProperties
  <2> QED
    BY <1>1, <1>3, <2>1, <2>3, ReturnDeclared DEF SinglePacket
<1>4. CASE FirstPacket(p)
  <2>1. PICK msg : msg = [cmd |-> p.cmd, bcnt |-> p.bcnt, payload |-> p.data,
                          next_seq |-> 0]
    OBVIOUS
  <2>2. channels' = Put(channels, c, msg) /\ UNCHANGED delivered /\ p.kind = "init"
    BY <1>1, <1>4, <2>1 DEF FirstPacket
  <2>3. channels'[c] = msg
    BY <2>2 DEF Put
  <2>4. msg.cmd = p.cmd /\ msg.bcnt = p.bcnt
    BY <2>1
  <2> QED
    BY <1>1, <2>2, <2>3, <2>4 DEF DeclaredIn
<1>5. CASE StrayPacket(p)
  BY <1>1, <1>5 DEF StrayPacket, reassemblerVars, DeclaredIn
<1>6. CASE OutOfOrder(p)
  BY <1>1, <1>2, <1>6 DEF OutOfOrder, Remove
<1>7. CASE MiddlePacket(p)
  <2>1. PICK msg : msg = channels[c]
    OBVIOUS
  <2>2. c \in DOMAIN channels /\ msg \in IncompleteMessage
    BY <1>1, <1>7, <2>1 DEF MiddlePacket, ReassemblerTypeOK
  <2>3. PICK new : new = [msg EXCEPT !.payload = Extended(msg, p),
                                     !.next_seq = (@ + 1) % Base]
    OBVIOUS
  <2>4. new.cmd = msg.cmd /\ new.bcnt = msg.bcnt
    BY <2>2, <2>3 DEF IncompleteMessage
  <2>5. channels' = Put(channels, c, new) /\ UNCHANGED delivered
    BY <1>1, <1>7, <2>1, <2>3 DEF MiddlePacket
  <2>6. channels'[c] = new
    BY <2>5 DEF Put
  <2> QED
    BY <1>1, <2>1, <2>2, <2>4, <2>5, <2>6 DEF DeclaredIn
<1>8. CASE LastPacket(p)
  <2>1. PICK msg : msg = channels[c]
    OBVIOUS
  <2>2. c \in DOMAIN channels /\ msg \in IncompleteMessage
        /\ Len(msg.payload) < msg.bcnt
    BY <1>1, <1>8, <2>1 DEF LastPacket, ReassemblerTypeOK, ReassemblyBounded
  <2>3. Len(Extended(msg, p)) >= msg.bcnt /\ Return(c, msg.cmd, Extended(msg, p))
        /\ channels' = Remove(channels, c)
    BY <1>1, <1>8, <2>1 DEF LastPacket
  <2>4. p.data \in Bytes(ContData)
    BY <1>8 DEF LastPacket, Readable, Packet, InitPacket, ContPacket
  <2>5. Len(Extended(msg, p)) =
          Len(msg.payload) + MinOf(msg.bcnt - Len(msg.payload), ContData)
    BY <2>2, <2>4, ExtendedFacts
  <2>6. Len(msg.payload) \in Nat /\ msg.bcnt \in Nat
    BY <2>2, Sizes DEF IncompleteMessage
  <2>7. Len(Extended(msg, p)) = msg.bcnt
    BY <2>2, <2>3, <2>5, <2>6, Sizes DEF MinOf
  <2>8. <<msg.cmd, msg.bcnt>> \in D
    BY <1>1, <2>1, <2>2 DEF DeclaredIn
  <2>9. c \notin DOMAIN channels'
    BY <2>3 DEF Remove
  <2> QED
    BY <1>1, <2>3, <2>7, <2>8, <2>9, ReturnDeclared
<1> QED
  BY <1>3, <1>4, <1>5, <1>6, <1>7, <1>8 DEF HandlePacket

\* Handling a packet leaves other channels alone.
LEMMA HandlePacketOthers ==
  ASSUME ReassemblerTypeOK, NEW p, HandlePacket(p), NEW d \in Cids, d # p.cid
  PROVE  /\ d \in DOMAIN channels' <=> d \in DOMAIN channels
         /\ d \in DOMAIN channels => channels'[d] = channels[d]
         /\ delivered'[d] = delivered[d]
<1>1. DOMAIN delivered = Cids
  BY DEF ReassemblerTypeOK
<1>2. ASSUME NEW c, NEW cmd, NEW payload, Return(c, cmd, payload), d # c
      PROVE  delivered'[d] = delivered[d]
  BY <1>1, <1>2 DEF Return
<1>3. CASE SinglePacket(p)
  BY <1>2, <1>3 DEF SinglePacket
<1>4. CASE FirstPacket(p)
  BY <1>4 DEF FirstPacket, Put
<1>5. CASE StrayPacket(p)
  BY <1>5 DEF StrayPacket, reassemblerVars
<1>6. CASE OutOfOrder(p)
  BY <1>6 DEF OutOfOrder, Remove
<1>7. CASE MiddlePacket(p)
  BY <1>7 DEF MiddlePacket, Put
<1>8. CASE LastPacket(p)
  BY <1>2, <1>8 DEF LastPacket, Remove
<1> QED
  BY <1>3, <1>4, <1>5, <1>6, <1>7, <1>8 DEF HandlePacket

\* A message is returned whole at the end of its channel, and leaves no entry
\* behind that was not there before.
LEMMA HandlePacketReturns ==
  ASSUME ReassemblerTypeOK, ReassemblyBounded, EchoFits,
         NEW p, Readable(p), HandlePacket(p)
  PROVE  \/ UNCHANGED delivered
         \/ /\ p.cid \in DOMAIN channels' => p.kind = "init" /\ UNCHANGED channels
            /\ \E m \in [cmd : Byte, payload : Seq(Byte)] :
                 /\ Len(m.payload) <= MaxPayload
                 /\ delivered' = [delivered EXCEPT ![p.cid] = Append(@, m)]
<1>1. PICK c \in Cids : c = p.cid
  BY DEF Readable, Packet, InitPacket, ContPacket
<1>2. ReassemblerTypeOK' /\ EchoFits'
  BY HandlePacketBounded
<1>3. ASSUME NEW cmd, NEW payload, Return(c, cmd, payload)
      PROVE  \E m \in [cmd : Byte, payload : Seq(Byte)] :
               /\ Len(m.payload) <= MaxPayload
               /\ delivered' = [delivered EXCEPT ![c] = Append(@, m)]
  <2>1. PICK m : m = [cmd |-> cmd, payload |-> payload]
    OBVIOUS
  <2>2. PICK R : R = [cmd : Byte, payload : Seq(Byte)]
    OBVIOUS
  <2>3. delivered \in [Cids -> Seq(R)] /\ delivered' \in [Cids -> Seq(R)]
    BY <1>2, <2>2 DEF ReassemblerTypeOK
  <2>4. delivered' = [delivered EXCEPT ![c] = Append(@, m)]
    BY <1>3, <2>1 DEF Return
  <2>5. PICK n \in Nat : n = Len(delivered[c]) /\ DOMAIN delivered[c] = 1 .. n
    BY <2>3
  <2>6. n + 1 \in DOMAIN delivered'[c] /\ delivered'[c][n + 1] = m
    BY <2>3, <2>4, <2>5
  <2>7. m \in R
    BY <2>3, <2>6
  <2>8. Len(m.payload) <= MaxPayload
    BY <1>2, <2>6 DEF EchoFits
  <2> QED
    BY <2>2, <2>4, <2>7, <2>8
<1>4. CASE SinglePacket(p)
  BY <1>1, <1>3, <1>4 DEF SinglePacket
<1>5. CASE LastPacket(p)
  BY <1>1, <1>3, <1>5 DEF LastPacket, Remove
<1>6. CASE FirstPacket(p) \/ StrayPacket(p) \/ OutOfOrder(p) \/ MiddlePacket(p)
  BY <1>6 DEF FirstPacket, StrayPacket, OutOfOrder, MiddlePacket, reassemblerVars
<1> QED
  BY <1>4, <1>5, <1>6 DEF HandlePacket

-----------------------------------------------------------------------------
(***************************************************************************)
(* A message cut into packets, by to_packets or by a host.                 *)
(***************************************************************************)

\* The loop of to_packets, in whatever state it can be.
AnyCut == [msg : Message, first : BOOLEAN, offset : Nat, seq : Byte]

\* A cut is of a message with a command byte and a payload of bytes.
LEMMA CutFacts ==
  ASSUME NEW cut \in AnyCut
  PROVE  /\ cut.msg \in Message /\ cut.first \in BOOLEAN
         /\ cut.offset \in Nat /\ cut.seq \in Byte
         /\ cut.msg.cmd \in Byte /\ cut.msg.cmd >= SeqLimit
         /\ cut.msg.payload \in Seq(Byte) /\ Len(cut.msg.payload) \in Nat
<1>1. /\ cut.msg \in Message /\ cut.first \in BOOLEAN
      /\ cut.offset \in Nat /\ cut.seq \in Byte
  BY DEF AnyCut
<1>2. PICK m : m = cut.msg
  OBVIOUS
<1>3. m \in Message
  BY <1>1, <1>2
<1>4. m.cmd \in SeqLimit .. Base - 1 /\ m.payload \in Seq(Byte)
  BY <1>3 DEF Message
<1>5. m.cmd \in Byte /\ m.cmd >= SeqLimit /\ Len(m.payload) \in Nat
  BY <1>4, Sizes
<1> QED
  BY <1>1, <1>2, <1>4, <1>5, Zenon

\* The first packet of a message is read as it was cut.
LEMMA FirstPacketFacts ==
  ASSUME NEW cut \in AnyCut, NEW c \in Cids, cut.first, NEW p, p = CutPacket(cut, c)
  PROVE  /\ Parse(Serialize(p)) = p
         /\ p \in InitPacket(Cids) /\ p.kind = "init" /\ p.cid = c
         /\ p.cmd = cut.msg.cmd
         /\ p.bcnt = Len(cut.msg.payload) % (Base * Base)
         /\ p.data = Chunk(cut.msg.payload, 0, InitData)
<1>1. PICK cmd, n, data : /\ cmd = cut.msg.cmd
                          /\ n = Len(cut.msg.payload) % (Base * Base)
                          /\ data = Chunk(cut.msg.payload, 0, InitData)
  OBVIOUS
<1>2. cmd \in Byte /\ cmd >= SeqLimit
  BY <1>1, CutFacts
<1>3. n \in 0 .. Base * Base - 1
  <2>1. PICK b \in Nat : b = Base * Base /\ b > 0
    BY Sizes
  <2>2. PICK l \in Nat : l = Len(cut.msg.payload)
    BY CutFacts
  <2>3. l % b \in 0 .. b - 1
    BY <2>1
  <2> QED
    BY <1>1, <2>1, <2>2, <2>3, Zenon
<1>4. data \in Bytes(InitData)
  BY <1>1, CutFacts, ChunkType, Sizes
<1>5. p = [kind |-> "init", cid |-> c, cmd |-> cmd, bcnt |-> n, data |-> data]
  BY <1>1 DEF CutPacket
<1>6. Parse(Serialize(p)) = p
  BY <1>2, <1>3, <1>4, <1>5, InitRoundTrip
<1>7. p \in InitPacket(Cids)
  BY <1>2, <1>3, <1>4, <1>5 DEF InitPacket
<1> QED
  BY <1>1, <1>5, <1>6, <1>7

\* A later packet is read as it was cut while its sequence number is in range,
\* and as some initialization packet of its channel when it is not.
LEMMA LaterPacketFacts ==
  ASSUME NEW cut \in AnyCut, NEW c \in Cids, ~cut.first, NEW p, p = CutPacket(cut, c)
  PROVE  /\ cut.seq < SeqLimit =>
              /\ Parse(Serialize(p)) = p
              /\ p \in ContPacket(Cids) /\ p.kind = "cont" /\ p.cid = c
              /\ p.seq = cut.seq
              /\ p.data = Chunk(cut.msg.payload, cut.offset, ContData)
         /\ cut.seq >= SeqLimit =>
              /\ Parse(Serialize(p)) \in InitPacket(Cids)
              /\ Parse(Serialize(p)).cid = c
<1>1. PICK seq, data : /\ seq = cut.seq
                       /\ data = Chunk(cut.msg.payload, cut.offset, ContData)
  OBVIOUS
<1>2. seq \in Byte
  BY <1>1, CutFacts
<1>3. data \in Bytes(ContData)
  BY <1>1, CutFacts, ChunkType, Sizes
<1>4. p = [kind |-> "cont", cid |-> c, seq |-> seq, data |-> data]
  BY <1>1 DEF CutPacket
<1>5. ASSUME seq < SeqLimit
      PROVE  Parse(Serialize(p)) = p /\ p \in ContPacket(Cids)
  <2>1. Parse(Serialize(p)) = p
    BY <1>2, <1>3, <1>4, <1>5, ContRoundTrip
  <2>2. p \in ContPacket(Cids)
    BY <1>2, <1>3, <1>4 DEF ContPacket
  <2> QED
    BY <2>1, <2>2
<1>6. ASSUME seq >= SeqLimit
      PROVE  Parse(Serialize(p)) \in InitPacket(Cids) /\ Parse(Serialize(p)).cid = c
  BY <1>2, <1>3, <1>4, <1>6, ContOverrun
<1> QED
  BY <1>1, <1>4, <1>5, <1>6

\* Whatever the state of the loop, its packet is read as one parse can return.
LEMMA CutReadable ==
  ASSUME NEW cut \in AnyCut, NEW c \in Cids, NEW r, r = Parse(Serialize(CutPacket(cut, c)))
  PROVE  Readable(r) /\ r.cid = c
<1>3. PICK p : p = CutPacket(cut, c)
  OBVIOUS
<1>4. r = Parse(Serialize(p))
  BY <1>3
<1>5. \A q \in InitPacket(Cids) : Readable(q)
  BY DEF Readable, Packet, InitPacket
<1>6. CASE cut.first
  BY <1>3, <1>4, <1>5, <1>6, FirstPacketFacts
<1>7. CASE ~cut.first /\ cut.seq < SeqLimit
  <2>1. /\ Parse(Serialize(p)) = p /\ p \in ContPacket(Cids) /\ p.cid = c
        /\ p.seq < SeqLimit
    BY <1>3, <1>7, LaterPacketFacts
  <2> QED
    BY <1>4, <2>1 DEF Readable, Packet
<1>8. CASE ~cut.first /\ cut.seq >= SeqLimit
  BY <1>3, <1>4, <1>5, <1>8, LaterPacketFacts
<1>9. cut.seq \in Int /\ SeqLimit \in Int
  BY CutFacts, Sizes
<1> QED
  BY <1>6, <1>7, <1>8, <1>9

\* The loop of to_packets never passes the end of the payload.
LEMMA CutNextFacts ==
  ASSUME NEW cut \in AnyCut, cut.offset <= Len(cut.msg.payload),
         cut.first => cut.offset = 0 /\ cut.seq = 0
  PROVE  /\ CutNext(cut) \in AnyCut /\ CutNext(cut).msg = cut.msg
         /\ ~CutNext(cut).first
         /\ CutNext(cut).offset <= Len(cut.msg.payload)
         /\ CutNext(cut).seq = IF cut.first THEN 0 ELSE (cut.seq + 1) % Base
         /\ CutNext(cut).offset =
              cut.offset + MinOf(Len(cut.msg.payload) - cut.offset,
                                 IF cut.first THEN InitData ELSE ContData)
<1>1. PICK l \in Nat : l = Len(cut.msg.payload)
  BY CutFacts
<1>2. cut.offset \in 0 .. l /\ cut.seq \in Byte /\ cut.first \in BOOLEAN
  BY <1>1, CutFacts
<1>3. (cut.seq + 1) % Base \in Byte
  BY <1>2, Sizes
<1>4. CASE cut.first
  <2>1. PICK o \in Nat : o = MinOf(l - cut.offset, InitData) /\ o <= l
    BY <1>2, Sizes DEF MinOf
  <2>2. CutNext(cut) = [cut EXCEPT !.first = FALSE, !.offset = o]
    BY <1>1, <1>4, <2>1 DEF CutNext
  <2>3. CutNext(cut) \in AnyCut /\ CutNext(cut).msg = cut.msg
        /\ CutNext(cut).first = FALSE /\ CutNext(cut).offset = o
        /\ CutNext(cut).seq = cut.seq
    BY <2>2 DEF AnyCut
  <2> QED
    BY <1>1, <1>4, <2>1, <2>3
<1>5. CASE ~cut.first
  <2>1. PICK o \in Nat :
          o = cut.offset + MinOf(l - cut.offset, ContData) /\ o <= l
    BY <1>2, Sizes DEF MinOf
  <2>2. CutNext(cut) = [cut EXCEPT !.offset = o, !.seq = (cut.seq + 1) % Base]
    BY <1>1, <1>5, <2>1 DEF CutNext
  <2>3. CutNext(cut) \in AnyCut /\ CutNext(cut).msg = cut.msg
        /\ CutNext(cut).first = cut.first /\ CutNext(cut).offset = o
        /\ CutNext(cut).seq = (cut.seq + 1) % Base
    BY <1>3, <2>2 DEF AnyCut
  <2> QED
    BY <1>1, <1>5, <2>1, <2>3
<1> QED
  BY <1>4, <1>5

\* The loop of to_packets between two packets.
InProgress(cut) ==
  ~cut.first => /\ cut.offset = InitData + cut.seq * ContData
                /\ cut.offset < Len(cut.msg.payload)

\* How the cut of a tracked host goes on: it is done exactly when its offset
\* reaches the end, and otherwise its offset follows its sequence number.
LEMMA NextOffset ==
  ASSUME NEW cut \in AnyCut, Len(cut.msg.payload) <= MaxPayload,
         cut.offset <= Len(cut.msg.payload),
         cut.first => cut.offset = 0 /\ cut.seq = 0,
         ~cut.first => /\ cut.offset = InitData + cut.seq * ContData
                       /\ cut.offset < Len(cut.msg.payload),
         NEW next, next = CutNext(cut)
  PROVE  /\ ~cut.first => cut.seq < SeqLimit
         /\ CutDone(next) <=> next.offset = Len(cut.msg.payload)
         /\ ~CutDone(next) =>
              /\ next.seq = IF cut.first THEN 0 ELSE cut.seq + 1
              /\ next.offset = InitData + next.seq * ContData
              /\ next.offset < Len(cut.msg.payload)
<1>1. PICK l \in Nat : l = Len(cut.msg.payload)
  BY CutFacts
<1>2. PICK o \in Nat, q \in Nat : o = cut.offset /\ q = cut.seq
  <2>1. cut.offset \in Nat /\ cut.seq \in Nat
    BY CutFacts, Sizes
  <2> QED
    BY <2>1
<1>3. /\ next.msg = cut.msg /\ ~next.first /\ next.offset <= l
      /\ next.offset \in Nat
      /\ next.seq = IF cut.first THEN 0 ELSE (q + 1) % Base
      /\ next.offset = o + MinOf(l - o, IF cut.first THEN InitData ELSE ContData)
  <2>1. next \in AnyCut
    BY CutNextFacts
  <2> QED
    BY <1>1, <1>2, <2>1, CutFacts, CutNextFacts
<1>4. CutDone(next) <=> next.offset = l
  BY <1>1, <1>3 DEF CutDone
<1>5. o <= l /\ l <= InitData + SeqLimit * ContData
  BY <1>1, <1>2, Sizes
<1>6. CASE cut.first
  <2>1. o = 0 /\ next.seq = 0 /\ next.offset = 0 + MinOf(l - 0, InitData)
    BY <1>2, <1>3, <1>6
  <2>2. next.offset < l => next.offset = InitData
    BY <2>1, Sizes DEF MinOf
  <2>3. InitData = InitData + 0 * ContData
    BY Sizes
  <2> QED
    BY <1>1, <1>3, <1>4, <1>6, <2>1, <2>2, <2>3
<1>7. CASE ~cut.first
  <2>1. o = InitData + q * ContData /\ o < l
    BY <1>1, <1>2, <1>7
  <2>2. ASSUME NEW k \in Nat, InitData + k * ContData < l
        PROVE  k < SeqLimit
    <3>1. SUFFICES ASSUME k >= SeqLimit PROVE FALSE
      BY Sizes
    <3>2. k * ContData >= SeqLimit * ContData
      BY <3>1, Sizes
    <3> QED
      BY <1>5, <2>2, <3>2, Sizes
  <2>3. q < SeqLimit
    BY <2>1, <2>2
  <2>4. (q + 1) % Base = q + 1
    BY <2>3, Sizes
  <2>5. next.seq = q + 1
    BY <1>3, <1>7, <2>4
  <2>6. next.offset = o + MinOf(l - o, ContData)
    BY <1>3, <1>7
  <2>7. next.offset < l => next.offset = o + ContData
    BY <2>6, Sizes DEF MinOf
  <2>8. o + ContData = InitData + (q + 1) * ContData
    BY <2>1, Sizes
  <2> QED
    BY <1>1, <1>2, <1>3, <1>4, <1>7, <2>3, <2>5, <2>7, <2>8
<1>8. cut.first \in BOOLEAN
  BY CutFacts
<1> QED
  BY <1>6, <1>7, <1>8

\* The first packet of a message within the limit announces its length.
LEMMA LengthAnnounced ==
  ASSUME NEW cut \in AnyCut, Len(cut.msg.payload) <= MaxPayload
  PROVE  Len(cut.msg.payload) % (Base * Base) = Len(cut.msg.payload)
<1>1. PICK b \in Nat : b = Base * Base
  BY Sizes
<1>2. PICK l \in Nat : l = Len(cut.msg.payload)
  BY CutFacts
<1>3. l < b
  BY <1>1, <1>2, LengthFits, Sizes
<1>4. l % b = l
  BY <1>3
<1> QED
  BY <1>1, <1>2, <1>4, Zenon

\* Within the limit, what is read as an initialization packet is the first of its
\* message and has its command and length.
LEMMA CutDeclared ==
  ASSUME NEW cut \in AnyCut, NEW c \in Cids, InProgress(cut),
         cut.offset <= Len(cut.msg.payload),
         cut.first => cut.offset = 0 /\ cut.seq = 0,
         Len(cut.msg.payload) <= MaxPayload,
         NEW r, r = Parse(Serialize(CutPacket(cut, c))), r.kind = "init"
  PROVE  r.cmd = cut.msg.cmd /\ r.bcnt = Len(cut.msg.payload)
<1>1. PICK p : p = CutPacket(cut, c)
  OBVIOUS
<1>2. r = Parse(Serialize(p))
  BY <1>1
<1>3. CASE cut.first
  <2>1. /\ Parse(Serialize(p)) = p /\ p.cmd = cut.msg.cmd
        /\ p.bcnt = Len(cut.msg.payload) % (Base * Base)
    BY <1>1, <1>3, FirstPacketFacts
  <2>2. Len(cut.msg.payload) % (Base * Base) = Len(cut.msg.payload)
    BY LengthAnnounced
  <2> QED
    BY <1>2, <2>1, <2>2, Zenon
<1>4. CASE ~cut.first
  <2>1. /\ cut.offset = InitData + cut.seq * ContData
        /\ cut.offset < Len(cut.msg.payload)
    BY <1>4 DEF InProgress
  <2>2. cut.seq < SeqLimit
    BY <1>4, <2>1, NextOffset
  <2>3. Parse(Serialize(p)) = p /\ p.kind = "cont"
    BY <1>1, <1>4, <2>2, LaterPacketFacts
  <2> QED
    BY <1>2, <2>3
<1> QED
  BY <1>3, <1>4

-----------------------------------------------------------------------------
(***************************************************************************)
(* What the reassembler makes of the packets of a message.                 *)
(***************************************************************************)

\* The table entry of a message cut up to here when all of it arrived.
EntryOf(cut) ==
  [cmd |-> cut.msg.cmd, bcnt |-> Len(cut.msg.payload),
   payload |-> SubSeq(cut.msg.payload, 1, cut.offset), next_seq |-> cut.seq]

\* How the table follows a busy host s on channel c: it has what was sent of a
\* message that is still intact, and is behind on one that is not.
Tracked(s, table, c) ==
  /\ s.cut.first => s.intact
  /\ ~s.cut.first =>
       /\ s.cut.offset = InitData + s.cut.seq * ContData
       /\ s.cut.offset < Len(s.cut.msg.payload)
       /\ s.intact => c \in DOMAIN table /\ table[c] = EntryOf(s.cut)
       /\ ~s.intact /\ c \in DOMAIN table => table[c].next_seq < s.cut.seq

\* The first array holds the start of a long payload and all of a short one.
LEMMA FirstChunk ==
  ASSUME NEW payload \in Seq(Byte)
  PROVE  /\ Len(payload) > InitData =>
              Chunk(payload, 0, InitData) = SubSeq(payload, 1, InitData)
         /\ Len(payload) <= InitData =>
              SubSeq(Chunk(payload, 0, InitData), 1, Len(payload)) = payload
<1>1. PICK l \in Nat : l = Len(payload)
  OBVIOUS
<1>2. PICK d : d = Chunk(payload, 0, InitData)
  OBVIOUS
<1>3. d \in Bytes(InitData)
  BY <1>2, ChunkType, Sizes
<1>4. d \in Seq(Byte) /\ Len(d) = InitData
  BY <1>3, Sizes, BytesSeq
<1>5. \A i \in 1 .. InitData : i <= l => d[i] = payload[i]
  BY <1>1, <1>2, Sizes DEF Chunk
<1>6. ASSUME l > InitData PROVE d = SubSeq(payload, 1, InitData)
  <2>1. PICK t : t = SubSeq(payload, 1, InitData)
    OBVIOUS
  <2>2. \A i \in 1 .. InitData : payload[i] \in Byte
    BY <1>1, <1>6, Sizes
  <2>3. t \in Seq(Byte) /\ Len(t) = InitData
        /\ \A i \in 1 .. InitData : t[i] = payload[i]
    BY <2>1, <2>2, Sizes, SubSeqProperties
  <2>4. \A i \in 1 .. InitData : d[i] = t[i]
    BY <1>5, <1>6, <2>3, Sizes
  <2>5. d = t
    BY <1>4, <2>3, <2>4, SeqEqual
  <2> QED
    BY <2>1, <2>5
<1>7. ASSUME l <= InitData PROVE SubSeq(d, 1, l) = payload
  <2>1. PICK t : t = SubSeq(d, 1, l)
    OBVIOUS
  <2>2. \A i \in 1 .. l : d[i] \in Byte
    BY <1>4, <1>7, Sizes
  <2>3. t \in Seq(Byte) /\ Len(t) = l /\ \A i \in 1 .. l : t[i] = d[i]
    BY <2>1, <2>2, SubSeqProperties
  <2>4. \A i \in 1 .. l : t[i] = payload[i]
    BY <1>5, <1>7, <2>3, Sizes
  <2>5. t = payload
    BY <1>1, <2>3, <2>4, SeqEqual
  <2> QED
    BY <2>1, <2>5
<1> QED
  BY <1>1, <1>2, <1>6, <1>7, Sizes

\* The part of a later array that is payload continues what was sent before.
LEMMA NextChunk ==
  ASSUME NEW payload \in Seq(Byte), NEW offset \in 0 .. Len(payload),
         NEW n \in 0 .. ContData, offset + n <= Len(payload)
  PROVE  SubSeq(payload, 1, offset)
           \o SubSeq(Chunk(payload, offset, ContData), 1, n)
         = SubSeq(payload, 1, offset + n)
<1>1. PICK l \in Nat : l = Len(payload)
  OBVIOUS
<1>2. offset \in Nat /\ n \in Nat /\ offset + n <= l /\ n <= ContData
  BY <1>1, Sizes
<1>3. PICK d : d = Chunk(payload, offset, ContData)
  OBVIOUS
<1>4. d \in Bytes(ContData)
  BY <1>2, <1>3, ChunkType, Sizes
<1>5. \A i \in 1 .. n : d[i] \in Byte /\ d[i] = payload[offset + i]
  BY <1>1, <1>2, <1>3, <1>4, Sizes DEF Chunk, Bytes
<1>6. PICK a, b, t : /\ a = SubSeq(payload, 1, offset)
                     /\ b = SubSeq(d, 1, n)
                     /\ t = SubSeq(payload, 1, offset + n)
  OBVIOUS
<1>7. \A i \in 1 .. offset + n : payload[i] \in Byte
  BY <1>1, <1>2
<1>8. a \in Seq(Byte) /\ Len(a) = offset /\ \A i \in 1 .. offset : a[i] = payload[i]
  BY <1>2, <1>6, <1>7, SubSeqProperties
<1>9. b \in Seq(Byte) /\ Len(b) = n /\ \A i \in 1 .. n : b[i] = d[i]
  BY <1>2, <1>5, <1>6, SubSeqProperties
<1>10. /\ t \in Seq(Byte) /\ Len(t) = offset + n
       /\ \A i \in 1 .. offset + n : t[i] = payload[i]
  BY <1>2, <1>6, <1>7, SubSeqProperties
<1>11. PICK ab : ab = a \o b
  OBVIOUS
<1>12. /\ ab \in Seq(Byte) /\ Len(ab) = offset + n
       /\ \A i \in 1 .. offset + n :
            ab[i] = IF i <= offset THEN a[i] ELSE b[i - offset]
  BY <1>8, <1>9, <1>11, ConcatProperties
<1>13. ASSUME NEW i \in 1 .. offset + n PROVE ab[i] = t[i]
  <2>1. CASE i <= offset
    BY <1>2, <1>8, <1>10, <1>12, <2>1
  <2>2. CASE i > offset
    <3>1. PICK j \in 1 .. n : j = i - offset /\ offset + j = i
      BY <1>2, <2>2
    <3>2. ab[i] = b[j] /\ ~(i <= offset)
      BY <1>2, <1>12, <2>2, <3>1
    <3>3. b[j] = payload[i]
      BY <1>5, <1>9, <3>1
    <3> QED
      BY <1>10, <3>2, <3>3
  <2> QED
    BY <1>2, <2>1, <2>2
<1>14. ab = t
  BY <1>10, <1>12, <1>13, SeqEqual
<1> QED
  BY <1>3, <1>6, <1>11, <1>14

\* Host s of channel c and the table when s's next packet is handled.
Handling(c, s, p, next) ==
  /\ s.cut \in AnyCut /\ s.intact \in BOOLEAN
  /\ Len(s.cut.msg.payload) <= MaxPayload
  /\ s.cut.offset <= Len(s.cut.msg.payload)
  /\ s.cut.first => s.cut.offset = 0 /\ s.cut.seq = 0
  /\ Tracked(s, channels, c)
  /\ p = Parse(Serialize(CutPacket(s.cut, c)))
  /\ next = CutNext(s.cut)
  /\ HandlePacket(p)

\* What handling it does: other channels keep their entries, the message is
\* delivered when it ends and all of it arrived, and the table follows the host.
Handled(c, s, next) ==
  /\ \A d \in Cids \ {c} :
       /\ d \in DOMAIN channels' <=> d \in DOMAIN channels
       /\ d \in DOMAIN channels => channels'[d] = channels[d]
  /\ CutDone(next) =>
       delivered' = IF s.intact THEN [delivered EXCEPT ![c] = Append(@, s.cut.msg)]
                                ELSE delivered
  /\ ~CutDone(next) =>
       /\ UNCHANGED delivered
       /\ Tracked([cut |-> next, intact |-> s.intact], channels', c)

\* The facts of the packet's cut that every case below needs.
LEMMA HandlingFacts ==
  ASSUME NEW c \in Cids, NEW s, NEW p, NEW next, Handling(c, s, p, next)
  PROVE  /\ next \in AnyCut /\ next.msg = s.cut.msg /\ ~next.first
         /\ ~s.cut.first => s.cut.seq < SeqLimit
         /\ CutDone(next) <=> next.offset = Len(s.cut.msg.payload)
         /\ ~CutDone(next) =>
              /\ next.seq = IF s.cut.first THEN 0 ELSE s.cut.seq + 1
              /\ next.offset = InitData + next.seq * ContData
              /\ next.offset < Len(s.cut.msg.payload)
         /\ next.offset =
              s.cut.offset + MinOf(Len(s.cut.msg.payload) - s.cut.offset,
                                   IF s.cut.first THEN InitData ELSE ContData)
         /\ s.cut.msg = [cmd |-> s.cut.msg.cmd, payload |-> s.cut.msg.payload]
<1>1. PICK cut \in AnyCut : cut = s.cut
  BY DEF Handling
<1>2. /\ cut.offset <= Len(cut.msg.payload) /\ Len(cut.msg.payload) <= MaxPayload
      /\ cut.first => cut.offset = 0 /\ cut.seq = 0
      /\ ~cut.first => /\ cut.offset = InitData + cut.seq * ContData
                       /\ cut.offset < Len(cut.msg.payload)
      /\ next = CutNext(cut)
  BY <1>1 DEF Handling, Tracked
<1>3. /\ ~cut.first => cut.seq < SeqLimit
      /\ CutDone(next) <=> next.offset = Len(cut.msg.payload)
      /\ ~CutDone(next) =>
           /\ next.seq = IF cut.first THEN 0 ELSE cut.seq + 1
           /\ next.offset = InitData + next.seq * ContData
           /\ next.offset < Len(cut.msg.payload)
  BY <1>2, NextOffset
<1>4. /\ next \in AnyCut /\ next.msg = cut.msg /\ ~next.first
      /\ next.offset =
           cut.offset + MinOf(Len(cut.msg.payload) - cut.offset,
                              IF cut.first THEN InitData ELSE ContData)
  BY <1>2, CutNextFacts
<1>5. cut.msg = [cmd |-> cut.msg.cmd, payload |-> cut.msg.payload]
  <2>1. cut.msg \in Message
    BY CutFacts
  <2> QED
    BY <2>1 DEF Message
<1> QED
  BY <1>1, <1>3, <1>4, <1>5, Zenon

\* The first packet delivers a short message and enters a long one.
LEMMA HandledFirst ==
  ASSUME NEW c \in Cids, NEW s, NEW p, NEW next,
         Handling(c, s, p, next), s.cut.first
  PROVE  Handled(c, s, next)
<1>1. PICK cut \in AnyCut : cut = s.cut
  BY DEF Handling
<1>2. cut.first /\ s.intact /\ cut.offset = 0 /\ Len(cut.msg.payload) <= MaxPayload
  BY <1>1 DEF Handling, Tracked
<1>3. PICK l \in Nat, payload \in Seq(Byte) :
        payload = cut.msg.payload /\ l = Len(payload)
  BY CutFacts
<1>4. l % (Base * Base) = l
  <2>1. PICK b \in Nat : b = Base * Base
    BY Sizes
  <2>2. l < b
    BY <1>2, <1>3, <2>1, LengthFits, Sizes
  <2>3. l % b = l
    BY <2>2
  <2> QED
    BY <2>1, <2>3, Zenon
<1>5. /\ p.kind = "init" /\ p.cid = c /\ p.cmd = cut.msg.cmd /\ p.bcnt = l
      /\ p.data = Chunk(payload, 0, InitData)
  <2>1. PICK q : q = CutPacket(cut, c)
    OBVIOUS
  <2>2. p = Parse(Serialize(q))
    BY <1>1, <2>1 DEF Handling
  <2>3. /\ Parse(Serialize(q)) = q /\ q.kind = "init" /\ q.cid = c
        /\ q.cmd = cut.msg.cmd /\ q.bcnt = Len(cut.msg.payload) % (Base * Base)
        /\ q.data = Chunk(cut.msg.payload, 0, InitData)
    BY <1>2, <2>1, FirstPacketFacts
  <2> QED
    BY <1>3, <1>4, <2>2, <2>3, Zenon
<1>6. SinglePacket(p) \/ FirstPacket(p)
  BY <1>5 DEF Handling, HandlePacket, StrayPacket, OutOfOrder, MiddlePacket, LastPacket
<1>7. /\ next.msg = cut.msg /\ ~next.first /\ next \in AnyCut
      /\ CutDone(next) <=> next.offset = l
      /\ ~CutDone(next) => next.seq = 0 /\ next.offset = InitData + next.seq * ContData
      /\ next.offset = 0 + MinOf(l - 0, InitData)
      /\ cut.msg = [cmd |-> cut.msg.cmd, payload |-> payload]
  BY <1>1, <1>2, <1>3, HandlingFacts
<1>8. CASE SinglePacket(p)
  <2>1. l <= InitData /\ UNCHANGED channels
    BY <1>5, <1>8 DEF SinglePacket, FitsInOnePacket
  <2>2. CutDone(next)
    BY <1>7, <2>1, Sizes DEF MinOf
  <2>3. SubSeq(p.data, 1, p.bcnt) = payload
    BY <1>3, <1>5, <2>1, FirstChunk
  <2>4. delivered' = [delivered EXCEPT
                        ![c] = Append(@, [cmd |-> cut.msg.cmd, payload |-> payload])]
    BY <1>5, <1>8, <2>3 DEF SinglePacket, Return
  <2>5. delivered' = [delivered EXCEPT ![c] = Append(@, s.cut.msg)]
    BY <1>1, <1>7, <2>4, Zenon
  <2> QED
    BY <1>2, <2>1, <2>2, <2>5 DEF Handled
<1>9. CASE FirstPacket(p)
  <2>1. ~(l <= InitData)
    BY <1>5, <1>9 DEF FirstPacket, FitsInOnePacket
  <2>2. ~CutDone(next) /\ next.offset = InitData /\ next.seq = 0
    BY <1>7, <2>1, Sizes DEF MinOf
  <2>3. p.data = SubSeq(payload, 1, InitData)
    BY <1>3, <1>5, <2>1, Sizes, FirstChunk
  <2>4. PICK e : e = [cmd |-> cut.msg.cmd, bcnt |-> l,
                      payload |-> SubSeq(payload, 1, InitData), next_seq |-> 0]
    OBVIOUS
  <2>5. channels' = Put(channels, c, e) /\ UNCHANGED delivered
    BY <1>5, <1>9, <2>3, <2>4 DEF FirstPacket
  <2>6. e = EntryOf(next)
    BY <1>3, <1>7, <2>2, <2>4 DEF EntryOf
  <2>7. /\ DOMAIN channels' = DOMAIN channels \cup {c} /\ channels'[c] = e
        /\ \A d \in DOMAIN channels \ {c} : channels'[d] = channels[d]
    BY <2>5 DEF Put
  <2>8. next.offset < Len(next.msg.payload)
    BY <1>3, <1>7, <2>1, <2>2, Sizes
  <2>9. PICK t : t = [cut |-> next, intact |-> s.intact]
    OBVIOUS
  <2>10. t.cut = next /\ t.intact = s.intact
    BY <2>9
  <2>11. Tracked(t, channels', c)
    BY <1>2, <1>7, <2>2, <2>6, <2>7, <2>8, <2>10 DEF Tracked
  <2> QED
    BY <2>2, <2>5, <2>7, <2>9, <2>11 DEF Handled
<1> QED
  BY <1>6, <1>8, <1>9

\* The same facts of a later packet.
LEMMA HandlingLater ==
  ASSUME NEW c \in Cids, NEW s, NEW p, NEW next,
         Handling(c, s, p, next), ~s.cut.first,
         NEW cut, cut = s.cut
  PROVE  /\ next.msg = cut.msg /\ ~next.first
         /\ cut.seq < SeqLimit
         /\ CutDone(next) <=> next.offset = Len(cut.msg.payload)
         /\ ~CutDone(next) =>
              /\ next.seq = cut.seq + 1
              /\ next.offset = InitData + next.seq * ContData
              /\ next.offset < Len(cut.msg.payload)
         /\ next.offset =
              cut.offset + MinOf(Len(cut.msg.payload) - cut.offset, ContData)
         /\ cut.msg = [cmd |-> cut.msg.cmd, payload |-> cut.msg.payload]
<1>1. /\ cut \in AnyCut /\ ~cut.first /\ next = CutNext(cut)
      /\ Len(cut.msg.payload) <= MaxPayload
      /\ cut.offset = InitData + cut.seq * ContData
      /\ cut.offset < Len(cut.msg.payload)
      /\ cut.offset <= Len(cut.msg.payload)
  BY DEF Handling, Tracked
<1>2. next.msg = cut.msg
  BY <1>1, CutNextFacts
<1>3. ~next.first
  BY <1>1, CutNextFacts
<1>4. next.offset =
        cut.offset + MinOf(Len(cut.msg.payload) - cut.offset, ContData)
  BY <1>1, CutNextFacts
<1>5. cut.seq < SeqLimit
  BY <1>1, NextOffset
<1>6. CutDone(next) <=> next.offset = Len(cut.msg.payload)
  BY <1>1, NextOffset
<1>7. ~CutDone(next) =>
        /\ next.seq = cut.seq + 1
        /\ next.offset = InitData + next.seq * ContData
        /\ next.offset < Len(cut.msg.payload)
  BY <1>1, NextOffset
<1>8. cut.msg = [cmd |-> cut.msg.cmd, payload |-> cut.msg.payload]
  <2>1. cut.msg \in Message
    BY <1>1, CutFacts
  <2> QED
    BY <2>1 DEF Message
<1> QED
  BY <1>2, <1>3, <1>4, <1>5, <1>6, <1>7, <1>8

\* A later packet is a continuation packet of the host's channel.
LEMMA LaterPacket ==
  ASSUME NEW c \in Cids, NEW s, NEW p, NEW next,
         Handling(c, s, p, next), ~s.cut.first
  PROVE  /\ p.kind = "cont" /\ p.cid = c /\ p.seq = s.cut.seq
         /\ p.data = Chunk(s.cut.msg.payload, s.cut.offset, ContData)
         /\ StrayPacket(p) \/ OutOfOrder(p) \/ MiddlePacket(p) \/ LastPacket(p)
<1>1. PICK cut \in AnyCut : cut = s.cut
  BY DEF Handling
<1>2. PICK q : q = CutPacket(cut, c)
  OBVIOUS
<1>3. p = Parse(Serialize(q)) /\ ~cut.first
  BY <1>1, <1>2 DEF Handling
<1>4. cut.seq < SeqLimit
  BY <1>1, HandlingFacts
<1>5. /\ Parse(Serialize(q)) = q /\ q.kind = "cont" /\ q.cid = c /\ q.seq = cut.seq
      /\ q.data = Chunk(cut.msg.payload, cut.offset, ContData)
  BY <1>2, <1>3, <1>4, LaterPacketFacts
<1>6. /\ p.kind = "cont" /\ p.cid = c /\ p.seq = cut.seq
      /\ p.data = Chunk(cut.msg.payload, cut.offset, ContData)
  BY <1>3, <1>5, Zenon
<1> QED
  BY <1>1, <1>6 DEF Handling, HandlePacket, SinglePacket, FirstPacket

\* While all of a message arrived, a packet extends it or completes it.
LEMMA HandledIntact ==
  ASSUME NEW c \in Cids, NEW s, NEW p, NEW next,
         Handling(c, s, p, next), ~s.cut.first, s.intact
  PROVE  Handled(c, s, next)
<1>1. PICK cut \in AnyCut : cut = s.cut
  BY DEF Handling
<1>2. /\ ~cut.first /\ cut.offset < Len(cut.msg.payload)
      /\ c \in DOMAIN channels /\ channels[c] = EntryOf(cut)
  BY <1>1 DEF Handling, Tracked
<1>3. PICK l \in Nat, payload \in Seq(Byte), o \in Nat :
        payload = cut.msg.payload /\ l = Len(payload) /\ o = cut.offset
  BY CutFacts
<1>4. o < l
  BY <1>2, <1>3
<1>5. /\ p.kind = "cont" /\ p.cid = c /\ p.seq = cut.seq
      /\ p.data = Chunk(payload, o, ContData)
      /\ StrayPacket(p) \/ OutOfOrder(p) \/ MiddlePacket(p) \/ LastPacket(p)
  BY <1>1, <1>3, LaterPacket
<1>6. PICK e : e = channels[c]
  OBVIOUS
<1>7. e = [cmd |-> cut.msg.cmd, bcnt |-> l,
           payload |-> SubSeq(payload, 1, o), next_seq |-> cut.seq]
  BY <1>2, <1>3, <1>6 DEF EntryOf
<1>8. MiddlePacket(p) \/ LastPacket(p)
  BY <1>2, <1>5, <1>6, <1>7 DEF StrayPacket, OutOfOrder, InSequence
<1>9. PICK n \in 0 .. ContData : n = MinOf(l - o, ContData) /\ o + n <= l
  <2>1. /\ MinOf(l - o, ContData) \in 0 .. ContData
        /\ o + MinOf(l - o, ContData) <= l
    BY <1>4, Sizes DEF MinOf
  <2> QED
    BY <2>1, Zenon
<1>10. Len(SubSeq(payload, 1, o)) = o
  <2>1. \A i \in 1 .. o : payload[i] \in Byte
    BY <1>3, <1>4
  <2>2. Len(SubSeq(payload, 1, o)) = IF 1 <= o THEN o - 1 + 1 ELSE 0
    BY <2>1, SubSeqProperties
  <2> QED
    BY <2>2
<1>11. Extended(e, p) = SubSeq(payload, 1, o + n)
  <2>1. e.payload = SubSeq(payload, 1, o) /\ e.bcnt = l
    BY <1>7
  <2>2. Extended(e, p) = SubSeq(payload, 1, o) \o SubSeq(p.data, 1, n)
    BY <1>9, <1>10, <2>1, Zenon DEF Extended
  <2>3. o \in 0 .. Len(payload) /\ o + n <= Len(payload)
    BY <1>3, <1>4, <1>9
  <2>4. SubSeq(payload, 1, o) \o SubSeq(Chunk(payload, o, ContData), 1, n)
          = SubSeq(payload, 1, o + n)
    BY <2>3, NextChunk
  <2> QED
    BY <1>5, <2>2, <2>4, Zenon
<1>12. Len(Extended(e, p)) = o + n
  <2>1. \A i \in 1 .. o + n : payload[i] \in Byte
    BY <1>3, <1>9
  <2>2. o + n \in Nat
    OBVIOUS
  <2>3. Len(SubSeq(payload, 1, o + n)) = IF 1 <= o + n THEN o + n - 1 + 1 ELSE 0
    BY <2>1, <2>2, SubSeqProperties
  <2> QED
    BY <1>11, <2>2, <2>3
<1>13. /\ next.msg = cut.msg /\ ~next.first
       /\ CutDone(next) <=> next.offset = l
       /\ ~CutDone(next) => /\ next.seq = cut.seq + 1
                            /\ next.offset = InitData + next.seq * ContData
       /\ next.offset = o + n
       /\ cut.msg = [cmd |-> cut.msg.cmd, payload |-> payload]
       /\ cut.seq < SeqLimit
  <2>1. /\ next.msg = cut.msg /\ ~next.first
        /\ cut.seq < SeqLimit
        /\ CutDone(next) <=> next.offset = Len(cut.msg.payload)
        /\ ~CutDone(next) =>
             /\ next.seq = cut.seq + 1
             /\ next.offset = InitData + next.seq * ContData
             /\ next.offset < Len(cut.msg.payload)
        /\ next.offset =
             cut.offset + MinOf(Len(cut.msg.payload) - cut.offset, ContData)
        /\ cut.msg = [cmd |-> cut.msg.cmd, payload |-> cut.msg.payload]
    BY <1>1, HandlingLater
  <2> QED
    BY <1>3, <1>9, <2>1, Zenon
<1>14. CASE MiddlePacket(p)
  <2>1. o + n < l /\ UNCHANGED delivered
    BY <1>5, <1>6, <1>7, <1>12, <1>14 DEF MiddlePacket
  <2>2. ~CutDone(next)
    BY <1>13, <2>1
  <2>3. (cut.seq + 1) % Base = next.seq
    <3>1. cut.seq \in Nat
      BY CutFacts, Sizes
    <3>2. PICK q \in Nat : q = cut.seq
      BY <3>1
    <3>3. (q + 1) % Base = q + 1
      <4>1. q < SeqLimit
        BY <1>13, <3>2, Zenon
      <4> QED
        BY <4>1, Sizes
    <3> QED
      BY <1>13, <2>2, <3>2, <3>3, Zenon
  <2>4. channels' = Put(channels, c, [e EXCEPT !.payload = Extended(e, p),
                                               !.next_seq = (@ + 1) % Base])
    BY <1>5, <1>6, <1>14 DEF MiddlePacket
  <2>5. [e EXCEPT !.payload = Extended(e, p), !.next_seq = (@ + 1) % Base]
          = EntryOf(next)
    <3>1. EntryOf(next) =
            [cmd |-> cut.msg.cmd, bcnt |-> l,
             payload |-> SubSeq(payload, 1, o + n), next_seq |-> next.seq]
      BY <1>3, <1>13, Zenon DEF EntryOf
    <3>2. PICK ext, q : ext = Extended(e, p) /\ q = (cut.seq + 1) % Base
      OBVIOUS
    <3>3. e.next_seq = cut.seq
      BY <1>7
    <3>4. [e EXCEPT !.payload = ext, !.next_seq = q] =
            [cmd |-> cut.msg.cmd, bcnt |-> l, payload |-> ext, next_seq |-> q]
      <4>1. PICK k, y, z, h :
              /\ k = cut.msg.cmd /\ y = SubSeq(payload, 1, o) /\ z = cut.seq
              /\ h = [e EXCEPT !.payload = ext, !.next_seq = q]
        OBVIOUS
      <4>2. e = [cmd |-> k, bcnt |-> l, payload |-> y, next_seq |-> z]
        BY <1>7, <4>1
      <4>3. h = [cmd |-> k, bcnt |-> l, payload |-> ext, next_seq |-> q]
        BY <4>1, <4>2, Zenon
      <4> QED
        BY <4>1, <4>3, Zenon
    <3>5. [e EXCEPT !.payload = ext, !.next_seq = (@ + 1) % Base] =
            [cmd |-> cut.msg.cmd, bcnt |-> l, payload |-> ext, next_seq |-> q]
      BY <3>2, <3>3, <3>4, Zenon
    <3> QED
      BY <1>11, <2>3, <3>1, <3>2, <3>5, Zenon
  <2>6. PICK new : new = EntryOf(next)
    OBVIOUS
  <2>7. channels' = Put(channels, c, new)
    BY <2>4, <2>5, <2>6, Zenon
  <2>8. /\ DOMAIN channels' = DOMAIN channels \cup {c} /\ channels'[c] = new
        /\ \A d \in DOMAIN channels \ {c} : channels'[d] = channels[d]
    BY <2>7 DEF Put
  <2>9. PICK t : t = [cut |-> next, intact |-> s.intact]
    OBVIOUS
  <2>10. t.cut = next /\ t.intact = s.intact
    BY <2>9
  <2>11. next.offset < Len(next.msg.payload)
    BY <1>3, <1>13, <2>1
  <2>12. Tracked(t, channels', c)
    BY <1>13, <2>2, <2>6, <2>8, <2>10, <2>11 DEF Tracked
  <2> QED
    BY <2>1, <2>2, <2>8, <2>9, <2>12 DEF Handled
<1>15. CASE LastPacket(p)
  <2>1. o + n >= l
    BY <1>5, <1>6, <1>7, <1>12, <1>15 DEF LastPacket
  <2>2. CutDone(next) /\ o + n = l
    BY <1>9, <1>13, <2>1
  <2>3. Extended(e, p) = payload
    BY <1>3, <1>11, <2>2, SubSeqFull
  <2>4. delivered' = [delivered EXCEPT
                        ![c] = Append(@, [cmd |-> cut.msg.cmd, payload |-> payload])]
    <3>1. e.cmd = cut.msg.cmd
      BY <1>7
    <3>2. Return(c, e.cmd, Extended(e, p))
      BY <1>5, <1>6, <1>15 DEF LastPacket
    <3> QED
      BY <2>3, <3>1, <3>2, Zenon DEF Return
  <2>5. delivered' = [delivered EXCEPT ![c] = Append(@, s.cut.msg)]
    BY <1>1, <1>13, <2>4, Zenon
  <2>6. channels' = Remove(channels, c)
    BY <1>5, <1>15 DEF LastPacket
  <2>7. /\ DOMAIN channels' = DOMAIN channels \ {c}
        /\ \A d \in DOMAIN channels \ {c} : channels'[d] = channels[d]
    BY <2>6 DEF Remove
  <2> QED
    BY <2>2, <2>5, <2>7 DEF Handled
<1> QED
  BY <1>8, <1>14, <1>15

\* Once a packet of a message was dropped, nothing more of it is taken.
LEMMA HandledBroken ==
  ASSUME NEW c \in Cids, NEW s, NEW p, NEW next,
         Handling(c, s, p, next), ~s.cut.first, ~s.intact
  PROVE  Handled(c, s, next)
<1>1. PICK cut \in AnyCut : cut = s.cut
  BY DEF Handling
<1>2. ~cut.first /\ (c \in DOMAIN channels => channels[c].next_seq < cut.seq)
  BY <1>1 DEF Handling, Tracked
<1>3. cut.seq \in Nat
  BY CutFacts, Sizes
<1>4. /\ p.cid = c /\ p.seq = cut.seq
      /\ StrayPacket(p) \/ OutOfOrder(p) \/ MiddlePacket(p) \/ LastPacket(p)
  BY <1>1, LaterPacket
<1>5. c \in DOMAIN channels => ~InSequence(p)
  BY <1>2, <1>3, <1>4 DEF InSequence
<1>6. StrayPacket(p) \/ OutOfOrder(p)
  BY <1>4, <1>5 DEF MiddlePacket, LastPacket
<1>7. UNCHANGED delivered /\ c \notin DOMAIN channels'
      /\ \A d \in Cids \ {c} :
           /\ d \in DOMAIN channels' <=> d \in DOMAIN channels
           /\ d \in DOMAIN channels => channels'[d] = channels[d]
  BY <1>4, <1>6 DEF StrayPacket, OutOfOrder, Remove, reassemblerVars
<1>8. PICK t : t = [cut |-> next, intact |-> s.intact]
  OBVIOUS
<1>9. t.cut = next /\ ~t.intact /\ (next.first => FALSE)
  BY <1>8, HandlingFacts
<1>10. /\ next.msg = cut.msg
       /\ ~CutDone(next) => /\ next.offset = InitData + next.seq * ContData
                            /\ next.offset < Len(cut.msg.payload)
  <2>1. /\ next.msg = cut.msg /\ ~next.first
        /\ cut.seq < SeqLimit
        /\ CutDone(next) <=> next.offset = Len(cut.msg.payload)
        /\ ~CutDone(next) =>
             /\ next.seq = cut.seq + 1
             /\ next.offset = InitData + next.seq * ContData
             /\ next.offset < Len(cut.msg.payload)
        /\ next.offset =
             cut.offset + MinOf(Len(cut.msg.payload) - cut.offset, ContData)
        /\ cut.msg = [cmd |-> cut.msg.cmd, payload |-> cut.msg.payload]
    BY <1>1, HandlingLater
  <2> QED
    BY <2>1, Zenon
<1>11. ~CutDone(next) => Tracked(t, channels', c)
  BY <1>7, <1>9, <1>10 DEF Tracked
<1> QED
  BY <1>7, <1>8, <1>11 DEF Handled

=============================================================================
