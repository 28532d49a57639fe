--------------------------- MODULE HidLink_proofs ---------------------------
(***************************************************************************)
(* Proofs about HidLink, for every set of channels and of messages, every  *)
(* packet size that FramingAssumption allows, and whatever the link drops. *)
(***************************************************************************)
EXTENDS HidLink, Reassembler_proofs

\* Nothing of a message has been cut off before its first packet.
CutInv ==
  \A c \in DOMAIN sending :
    sending[c].cut.first => sending[c].cut.offset = 0 /\ sending[c].cut.seq = 0

IInv == TypeOK /\ CutInv /\ ReassemblyBounded /\ EchoFits

-----------------------------------------------------------------------------
(***************************************************************************)
(* The hosts.                                                              *)
(***************************************************************************)

\* A host's cut is one of a message it may send.
LEMMA HostCutFacts ==
  ASSUME NEW cut \in Cut
  PROVE  /\ cut \in AnyCut /\ cut.msg \in Messages
         /\ cut.first \in BOOLEAN /\ cut.offset \in Nat /\ cut.seq \in Byte
         /\ cut.msg.payload \in Seq(Byte) /\ Len(cut.msg.payload) \in Nat
<1>1. cut \in AnyCut /\ cut.msg \in Messages
  BY HostAssumption DEF Cut, AnyCut
<1> QED
  BY <1>1, CutFacts

\* It stays so.
LEMMA HostCutNext ==
  ASSUME NEW cut \in Cut, cut.offset <= Len(cut.msg.payload),
         cut.first => cut.offset = 0 /\ cut.seq = 0
  PROVE  /\ CutNext(cut) \in Cut /\ CutNext(cut).msg = cut.msg
         /\ ~CutNext(cut).first
         /\ CutNext(cut).offset <= Len(cut.msg.payload)
<1>1. /\ CutNext(cut) \in AnyCut /\ CutNext(cut).msg = cut.msg
      /\ ~CutNext(cut).first
      /\ CutNext(cut).offset <= Len(cut.msg.payload)
  BY HostCutFacts, CutNextFacts
<1>2. \A x \in AnyCut : x.msg \in Messages => x \in Cut
  BY DEF AnyCut, Cut
<1> QED
  BY <1>1, <1>2, HostCutFacts

\* Whatever a host sends, handle_packet is given a readable packet.
LEMMA IncomingReadable ==
  ASSUME TypeOK, NEW c \in DOMAIN sending
  PROVE  Readable(Incoming(c)) /\ Incoming(c).cid = c
<1>1. PICK cut \in Cut : cut = sending[c].cut
  BY DEF TypeOK
<1>2. c \in Cids
  BY DEF TypeOK
<1> QED
  BY <1>1, <1>2, HostCutFacts, CutReadable DEF Incoming

\* The hosts' half of TypeOK, and CutInv.
HostInv ==
  /\ DOMAIN sending \subseteq Cids
  /\ \A c \in DOMAIN sending :
       /\ sending[c] \in [cut : Cut, intact : BOOLEAN]
       /\ sending[c].cut.offset <= Len(sending[c].cut.msg.payload)
       /\ sending[c].cut.first =>
            sending[c].cut.offset = 0 /\ sending[c].cut.seq = 0
  /\ begun \in [Cids -> Seq(Messages)]
  /\ whole \in [Cids -> Seq(Messages)]

\* TypeOK and CutInv in halves.
LEMMA Halves == TypeOK /\ CutInv <=> ReassemblerTypeOK /\ HostInv
  BY DEF TypeOK, CutInv, HostInv

\* Putting a proper cut into the table of busy hosts keeps every cut proper.
LEMMA PutSending ==
  ASSUME HostInv, NEW c \in Cids, NEW cut \in Cut, NEW good \in BOOLEAN,
         cut.offset <= Len(cut.msg.payload),
         cut.first => cut.offset = 0 /\ cut.seq = 0,
         sending' = Put(sending, c, [cut |-> cut, intact |-> good])
  PROVE  /\ DOMAIN sending' \subseteq Cids
         /\ \A k \in DOMAIN sending' :
              /\ sending'[k] \in [cut : Cut, intact : BOOLEAN]
              /\ sending'[k].cut.offset <= Len(sending'[k].cut.msg.payload)
              /\ sending'[k].cut.first =>
                   sending'[k].cut.offset = 0 /\ sending'[k].cut.seq = 0
<1>1. PICK s : s = [cut |-> cut, intact |-> good]
  OBVIOUS
<1>2. s \in [cut : Cut, intact : BOOLEAN] /\ s.cut = cut
  BY <1>1
<1>3. sending' = Put(sending, c, s)
  BY <1>1
<1>4. DOMAIN sending' = DOMAIN sending \cup {c}
  BY <1>3 DEF Put
<1>5. sending'[c] = s
  BY <1>3 DEF Put
<1>6. \A k \in DOMAIN sending \ {c} : sending'[k] = sending[k]
  BY <1>3 DEF Put
<1> QED
  BY <1>2, <1>4, <1>5, <1>6 DEF HostInv

\* A host that goes on to its next packet, or is done, keeps its cut proper.
LEMMA AdvanceFacts ==
  ASSUME HostInv, NEW c \in DOMAIN sending, NEW arrived \in BOOLEAN,
         Advance(c, arrived)
  PROVE  HostInv'
<1>1. PICK cut \in Cut : cut = sending[c].cut
  BY DEF HostInv
<1>2. /\ cut.offset <= Len(cut.msg.payload)
      /\ cut.first => cut.offset = 0 /\ cut.seq = 0
      /\ c \in Cids /\ sending[c].intact \in BOOLEAN
  BY <1>1 DEF HostInv
<1>3. PICK next : next = CutNext(cut)
  OBVIOUS
<1>4. /\ next \in Cut /\ next.msg = cut.msg /\ ~next.first
      /\ next.offset <= Len(cut.msg.payload)
  BY <1>2, <1>3, HostCutNext
<1>5. PICK good \in BOOLEAN : good = (sending[c].intact /\ arrived)
  BY <1>2
<1>6. next.msg \in Messages
  BY <1>4, HostCutFacts
<1>7. UNCHANGED begun
  BY DEF Advance
<1>8. CASE ~CutDone(next)
  <2>1. sending' = Put(sending, c, [cut |-> next, intact |-> good])
    BY <1>1, <1>3, <1>5, <1>8 DEF Advance
  <2>2. UNCHANGED whole
    BY <1>1, <1>3, <1>8 DEF Advance
  <2>3. /\ DOMAIN sending' \subseteq Cids
        /\ \A k \in DOMAIN sending' :
             /\ sending'[k] \in [cut : Cut, intact : BOOLEAN]
             /\ sending'[k].cut.offset <= Len(sending'[k].cut.msg.payload)
             /\ sending'[k].cut.first =>
                  sending'[k].cut.offset = 0 /\ sending'[k].cut.seq = 0
    BY <1>2, <1>4, <2>1, PutSending
  <2> QED
    BY <1>7, <2>2, <2>3 DEF HostInv
<1>9. CASE CutDone(next)
  <2>1. sending' = Remove(sending, c)
    BY <1>1, <1>3, <1>9 DEF Advance
  <2>2. whole' = IF good THEN [whole EXCEPT ![c] = Append(@, next.msg)] ELSE whole
    BY <1>1, <1>3, <1>5, <1>9 DEF Advance
  <2>3. whole' \in [Cids -> Seq(Messages)]
    BY <1>2, <1>6, <2>2 DEF HostInv
  <2>4. DOMAIN sending' \subseteq DOMAIN sending
        /\ \A k \in DOMAIN sending' : sending'[k] = sending[k]
    BY <2>1 DEF Remove
  <2> QED
    BY <1>7, <2>3, <2>4 DEF HostInv
<1> QED
  BY <1>8, <1>9

-----------------------------------------------------------------------------
(***************************************************************************)
(* The theorems for every link.                                            *)
(***************************************************************************)

\* At first no channel is busy and nothing was delivered.
LEMMA InitIInv == Init => IInv
<1> SUFFICES ASSUME Init PROVE IInv
  OBVIOUS
<1>1. /\ DOMAIN channels = {} /\ DOMAIN sending = {}
      /\ delivered = [c \in Cids |-> <<>>]
      /\ begun = [c \in Cids |-> <<>>] /\ whole = [c \in Cids |-> <<>>]
  BY DEF Init, ReassemblerInit, EmptyMap
<1>2. PICK R : R = [cmd : Byte, payload : Seq(Byte)]
  OBVIOUS
<1>3. delivered \in [Cids -> Seq(R)]
  BY <1>1
<1>4. ReassemblerTypeOK /\ HostInv
  BY <1>1, <1>2, <1>3 DEF ReassemblerTypeOK, HostInv
<1>5. ReassemblyBounded
  BY <1>1 DEF ReassemblyBounded
<1>6. EchoFits
  BY <1>1 DEF EchoFits
<1> QED
  BY <1>4, <1>5, <1>6, Halves DEF IInv

\* Every step of a host or of the link preserves the invariant.
LEMMA NextIInv == IInv /\ [Next]_vars => IInv'
<1> SUFFICES ASSUME IInv, [Next]_vars PROVE IInv'
  OBVIOUS
<1>1. ReassemblerTypeOK /\ HostInv /\ ReassemblyBounded /\ EchoFits /\ TypeOK
  BY Halves DEF IInv
<1>2. ASSUME UNCHANGED reassemblerVars, HostInv' PROVE IInv'
  <2>1. ReassemblerTypeOK' /\ ReassemblyBounded' /\ EchoFits'
    BY <1>1, <1>2
       DEF reassemblerVars, ReassemblerTypeOK, ReassemblyBounded, EchoFits
  <2>2. TypeOK' /\ CutInv'
    BY <1>2, <2>1 DEF TypeOK, CutInv, HostInv, ReassemblerTypeOK
  <2> QED
    BY <2>1, <2>2 DEF IInv
<1>3. ASSUME NEW c \in Cids, NEW m \in Messages, Begin(c, m) PROVE IInv'
  <2>1. PICK cut : cut = StartCut(m)
    OBVIOUS
  <2>2. cut \in Cut /\ cut.offset = 0 /\ cut.seq = 0 /\ cut.msg = m
    <3>1. 0 \in Byte
      BY Sizes
    <3> QED
      BY <2>1, <3>1 DEF StartCut, Cut
  <2>3. cut.offset <= Len(cut.msg.payload)
    BY <2>2, HostCutFacts
  <2>4. sending' = Put(sending, c, [cut |-> cut, intact |-> TRUE])
    BY <1>3, <2>1 DEF Begin
  <2>5. /\ DOMAIN sending' \subseteq Cids
        /\ \A k \in DOMAIN sending' :
             /\ sending'[k] \in [cut : Cut, intact : BOOLEAN]
             /\ sending'[k].cut.offset <= Len(sending'[k].cut.msg.payload)
             /\ sending'[k].cut.first =>
                  sending'[k].cut.offset = 0 /\ sending'[k].cut.seq = 0
    BY <1>1, <2>2, <2>3, <2>4, PutSending
  <2>6. begun' \in [Cids -> Seq(Messages)] /\ whole' \in [Cids -> Seq(Messages)]
    BY <1>1, <1>3 DEF Begin, HostInv
  <2>7. HostInv'
    BY <2>5, <2>6 DEF HostInv
  <2> QED
    BY <1>2, <1>3, <2>7 DEF Begin, reassemblerVars
<1>4. ASSUME NEW c \in Cids, Arrive(c) PROVE IInv'
  <2>1. c \in DOMAIN sending /\ HandlePacket(Incoming(c)) /\ Advance(c, TRUE)
    BY <1>4 DEF Arrive
  <2>2. PICK p : p = Incoming(c)
    OBVIOUS
  <2>3. Readable(p) /\ HandlePacket(p)
    BY <1>1, <2>1, <2>2, IncomingReadable
  <2>4. ReassemblerTypeOK' /\ ReassemblyBounded' /\ EchoFits'
    BY <1>1, <2>3, HandlePacketBounded
  <2>5. HostInv'
    BY <1>1, <2>1, AdvanceFacts
  <2>6. TypeOK' /\ CutInv'
    BY <2>4, <2>5 DEF TypeOK, CutInv, HostInv
  <2> QED
    BY <2>4, <2>6 DEF IInv
<1>5. ASSUME NEW c \in Cids, Lose(c) PROVE IInv'
  <2>1. HostInv'
    BY <1>1, <1>5, AdvanceFacts DEF Lose
  <2> QED
    BY <1>2, <1>5, <2>1 DEF Lose
<1>6. ASSUME NEW c \in Cids, Abandon(c) PROVE IInv'
  <2>1. HostInv'
    BY <1>1, <1>6 DEF Abandon, HostInv, Remove
  <2> QED
    BY <1>2, <1>6, <2>1 DEF Abandon, reassemblerVars
<1>7. CASE UNCHANGED vars
  BY <1>1, <1>2, <1>7 DEF vars, reassemblerVars, HostInv
<1> QED
  BY <1>3, <1>4, <1>5, <1>6, <1>7 DEF Next

\* In every execution the variables keep their types, and to_packets slices
\* the payload within its bounds.
THEOREM TypeCorrect == Spec => []TypeOK
<1>1. IInv => TypeOK
  BY DEF IInv
<1> QED
  BY <1>1, InitIInv, NextIInv, PTL DEF Spec

\* In every execution, whatever is lost or abandoned and however long a message
\* announces to be, the reassembler's length subtraction does not wrap and its
\* u8 sequence counter does not overflow.
THEOREM ReassemblyAlwaysBounded == Spec => []ReassemblyBounded
<1>1. IInv => ReassemblyBounded
  BY DEF IInv
<1> QED
  BY <1>1, InitIInv, NextIInv, PTL DEF Spec

\* In every execution the echo of a message the authenticator received can be
\* cut into packets without the sequence numbers of to_packets overflowing.
THEOREM EchoAlwaysFits == Spec => []EchoFits
<1>1. IInv => EchoFits
  BY DEF IInv
<1> QED
  BY <1>1, InitIInv, NextIInv, PTL DEF Spec

-----------------------------------------------------------------------------
(***************************************************************************)
(* Exact delivery, on a link that drops no initialization packet and for   *)
(* messages of at most MaxPayload bytes.                                   *)
(***************************************************************************)

DeliveryInv ==
  /\ IInv
  /\ \A c \in DOMAIN sending : Tracked(sending[c], channels, c)
  /\ ExactDelivery

\* A step of channel c leaves every other host in step with the table.
LEMMA OthersTracked ==
  ASSUME NEW c, NEW d \in Cids \ {c}, d \in DOMAIN sending,
         Tracked(sending[d], channels, d),
         sending'[d] = sending[d],
         d \in DOMAIN channels' <=> d \in DOMAIN channels,
         d \in DOMAIN channels => channels'[d] = channels[d]
  PROVE  Tracked(sending'[d], channels', d)
  BY DEF Tracked

\* A message that is begun is not in the table yet, and need not be.
LEMMA BeginExact ==
  ASSUME DeliveryInv, NEW c \in Cids, NEW m \in Messages, Begin(c, m)
  PROVE  (\A d \in DOMAIN sending' : Tracked(sending'[d], channels', d))
         /\ ExactDelivery'
<1>1. PICK s : s = [cut |-> StartCut(m), intact |-> TRUE]
  OBVIOUS
<1>2. s.cut.first /\ s.intact
  BY <1>1 DEF StartCut
<1>3. /\ DOMAIN sending' = DOMAIN sending \cup {c} /\ sending'[c] = s
      /\ \A d \in DOMAIN sending \ {c} : sending'[d] = sending[d]
      /\ UNCHANGED <<channels, delivered, whole>>
  BY <1>1 DEF Begin, Put
<1>4. Tracked(s, channels', c)
  BY <1>2 DEF Tracked
<1>5. ASSUME NEW d \in DOMAIN sending' \ {c} PROVE Tracked(sending'[d], channels', d)
  BY <1>3 DEF DeliveryInv, Tracked
<1> QED
  BY <1>3, <1>4, <1>5 DEF DeliveryInv, ExactDelivery

\* A packet that arrives is handled as Handled says, and its host advances.
LEMMA ArriveHandled ==
  ASSUME DeliveryInv, NEW c \in Cids, Arrive(c),
         \A m \in Messages : Len(m.payload) <= MaxPayload,
         NEW s, s = sending[c], NEW next, next = CutNext(s.cut)
  PROVE  /\ c \in DOMAIN sending /\ Advance(c, TRUE)
         /\ s.intact \in BOOLEAN
         /\ next.msg = s.cut.msg
         /\ Handled(c, s, next)
<1>1. c \in DOMAIN sending /\ HandlePacket(Incoming(c)) /\ Advance(c, TRUE)
  BY DEF Arrive
<1>2. PICK p : p = Incoming(c)
  OBVIOUS
<1>3. s \in [cut : Cut, intact : BOOLEAN] /\ s.cut.offset <= Len(s.cut.msg.payload)
      /\ (s.cut.first => s.cut.offset = 0 /\ s.cut.seq = 0)
  BY <1>1 DEF DeliveryInv, IInv, TypeOK, CutInv
<1>4. s.cut \in Cut /\ s.cut \in AnyCut /\ s.intact \in BOOLEAN
  BY <1>3, HostCutFacts
<1>5. Len(s.cut.msg.payload) <= MaxPayload
  BY <1>4, HostCutFacts
<1>6. Tracked(s, channels, c)
  BY <1>1 DEF DeliveryInv
<1>7. p = Parse(Serialize(CutPacket(s.cut, c))) /\ HandlePacket(p)
  BY <1>1, <1>2 DEF Incoming
<1>8. Handling(c, s, p, next)
  BY <1>3, <1>4, <1>5, <1>6, <1>7 DEF Handling
<1>9. Handled(c, s, next)
  BY <1>8, HandledFirst, HandledIntact, HandledBroken
<1>10. PICK cut \in Cut : cut = s.cut
  BY <1>4
<1>11. next.msg = cut.msg
  BY <1>3, <1>10, HostCutNext
<1> QED
  BY <1>1, <1>4, <1>9, <1>10, <1>11

\* A packet that arrives leaves what is delivered exact.
LEMMA ArriveExact ==
  ASSUME DeliveryInv, NEW c \in Cids, Arrive(c),
         \A m \in Messages : Len(m.payload) <= MaxPayload
  PROVE  (\A d \in DOMAIN sending' : Tracked(sending'[d], channels', d))
         /\ ExactDelivery'
<1>1. PICK s, next : s = sending[c] /\ next = CutNext(sending[c].cut)
  OBVIOUS
<1>2. c \in DOMAIN sending /\ Advance(c, TRUE)
  BY <1>1, ArriveHandled
<1>4. Handled(c, s, next)
  BY <1>1, ArriveHandled
<1>5. next.msg = s.cut.msg
  BY <1>1, ArriveHandled
<1>6. s.intact \in BOOLEAN
  BY <1>1, ArriveHandled
<1>7. (s.intact /\ TRUE) = s.intact
  BY <1>6
<1>8. CASE ~CutDone(next)
  <2>1. PICK t : t = [cut |-> next, intact |-> s.intact]
    OBVIOUS
  <2>2. sending' = Put(sending, c, t) /\ UNCHANGED whole
    BY <1>1, <1>2, <1>7, <1>8, <2>1 DEF Advance
  <2>3. /\ DOMAIN sending' = DOMAIN sending \cup {c} /\ sending'[c] = t
        /\ \A d \in DOMAIN sending \ {c} : sending'[d] = sending[d]
    BY <2>2 DEF Put
  <2>4. Tracked(t, channels', c) /\ UNCHANGED delivered
    BY <1>4, <1>8, <2>1 DEF Handled
  <2>5. ASSUME NEW d \in DOMAIN sending' \ {c}
        PROVE  Tracked(sending'[d], channels', d)
    <3>1. d \in DOMAIN sending /\ sending'[d] = sending[d]
      BY <2>3
    <3>2. d \in Cids \ {c} /\ Tracked(sending[d], channels, d)
      BY <3>1 DEF DeliveryInv, IInv, TypeOK
    <3> QED
      BY <1>4, <3>1, <3>2, OthersTracked DEF Handled
  <2> QED
    BY <2>2, <2>3, <2>4, <2>5 DEF DeliveryInv, ExactDelivery
<1>9. CASE CutDone(next)
  <2>1. sending' = Remove(sending, c)
        /\ whole' = IF s.intact THEN [whole EXCEPT ![c] = Append(@, next.msg)]
                                ELSE whole
    BY <1>1, <1>2, <1>7, <1>9 DEF Advance
  <2>2. /\ DOMAIN sending' = DOMAIN sending \ {c}
        /\ \A d \in DOMAIN sending \ {c} : sending'[d] = sending[d]
    BY <2>1 DEF Remove
  <2>3. delivered' = IF s.intact THEN [delivered EXCEPT ![c] = Append(@, s.cut.msg)]
                                 ELSE delivered
    BY <1>4, <1>9 DEF Handled
  <2>4. ExactDelivery'
    BY <1>5, <2>1, <2>3 DEF DeliveryInv, ExactDelivery
  <2>5. ASSUME NEW d \in DOMAIN sending'
        PROVE  Tracked(sending'[d], channels', d)
    <3>1. d \in DOMAIN sending /\ d # c /\ sending'[d] = sending[d]
      BY <2>2
    <3>2. d \in Cids \ {c} /\ Tracked(sending[d], channels, d)
      BY <3>1 DEF DeliveryInv, IInv, TypeOK
    <3> QED
      BY <1>4, <3>1, <3>2, OthersTracked DEF Handled
  <2> QED
    BY <2>4, <2>5
<1> QED
  BY <1>8, <1>9

\* A continuation packet that is lost marks its message as not whole, and puts
\* its host ahead of the table.
LEMMA LoseExact ==
  ASSUME DeliveryInv, NEW c \in Cids, Lose(c), "init" \notin Losable,
         \A m \in Messages : Len(m.payload) <= MaxPayload
  PROVE  (\A d \in DOMAIN sending' : Tracked(sending'[d], channels', d))
         /\ ExactDelivery'
<1>1. /\ c \in DOMAIN sending /\ CutPacket(sending[c].cut, c).kind \in Losable
      /\ Advance(c, FALSE) /\ UNCHANGED <<channels, delivered>>
  BY DEF Lose, reassemblerVars
<1>2. PICK s, cut, next : s = sending[c] /\ cut = s.cut /\ next = CutNext(cut)
  OBVIOUS
<1>3. cut \in Cut /\ s.intact \in BOOLEAN /\ cut.offset <= Len(cut.msg.payload)
  BY <1>1, <1>2 DEF DeliveryInv, IInv, TypeOK
<1>4. ~cut.first
  BY <1>1, <1>2 DEF CutPacket
<1>5. Tracked(s, channels, c)
  BY <1>1, <1>2 DEF DeliveryInv
<1>6. /\ cut.offset = InitData + cut.seq * ContData
      /\ cut.offset < Len(cut.msg.payload)
      /\ s.intact => c \in DOMAIN channels /\ channels[c] = EntryOf(cut)
      /\ ~s.intact /\ c \in DOMAIN channels => channels[c].next_seq < cut.seq
  BY <1>2, <1>4, <1>5 DEF Tracked
<1>7. Len(cut.msg.payload) <= MaxPayload
  BY <1>3, HostCutFacts
<1>8. ~CutDone(next) =>
        /\ next.seq = cut.seq + 1
        /\ next.offset = InitData + next.seq * ContData
        /\ next.offset < Len(cut.msg.payload)
  BY <1>2, <1>3, <1>4, <1>6, <1>7, HostCutFacts, NextOffset
<1>9. next.msg = cut.msg /\ ~next.first
  BY <1>2, <1>3, <1>4, HostCutNext
<1>10. (s.intact /\ FALSE) = FALSE
  OBVIOUS
<1>11. CASE ~CutDone(next)
  <2>1. PICK t : t = [cut |-> next, intact |-> FALSE]
    OBVIOUS
  <2>2. sending' = Put(sending, c, t) /\ UNCHANGED whole
    BY <1>1, <1>2, <1>10, <1>11, <2>1 DEF Advance
  <2>3. /\ DOMAIN sending' = DOMAIN sending \cup {c} /\ sending'[c] = t
        /\ \A d \in DOMAIN sending \ {c} : sending'[d] = sending[d]
    BY <2>2 DEF Put
  <2>4. c \in DOMAIN channels => channels[c].next_seq < next.seq
    <3>1. cut.seq \in Nat
      BY <1>3, HostCutFacts, Sizes
    <3>2. PICK q \in Nat : q = cut.seq
      BY <3>1
    <3>3. s.intact => channels[c].next_seq = q
      BY <1>6, <3>2 DEF EntryOf
    <3>4. ASSUME c \in DOMAIN channels, ~s.intact
          PROVE  channels[c].next_seq \in Nat /\ channels[c].next_seq < q
      <4>1. channels[c].next_seq \in Byte
        BY <3>4 DEF DeliveryInv, IInv, TypeOK, ReassemblerTypeOK, IncompleteMessage
      <4> QED
        BY <1>6, <3>2, <3>4, <4>1, Sizes
    <3>5. next.seq = q + 1
      BY <1>8, <1>11, <3>2
    <3> QED
      BY <3>2, <3>3, <3>4, <3>5
  <2>5. t.cut = next /\ ~t.intact
    BY <2>1
  <2>6. Tracked(t, channels', c)
    BY <1>1, <1>8, <1>9, <1>11, <2>4, <2>5 DEF Tracked
  <2>7. ASSUME NEW d \in DOMAIN sending' \ {c}
        PROVE  Tracked(sending'[d], channels', d)
    BY <1>1, <2>3 DEF DeliveryInv, Tracked
  <2> QED
    BY <1>1, <2>2, <2>3, <2>6, <2>7 DEF DeliveryInv, ExactDelivery
<1>12. CASE CutDone(next)
  <2>1. sending' = Remove(sending, c) /\ UNCHANGED whole
    BY <1>1, <1>2, <1>10, <1>12 DEF Advance
  <2>2. /\ DOMAIN sending' \subseteq DOMAIN sending
        /\ \A d \in DOMAIN sending' : sending'[d] = sending[d]
    BY <2>1 DEF Remove
  <2>3. \A d \in DOMAIN sending' : Tracked(sending'[d], channels', d)
    BY <1>1, <2>2 DEF DeliveryInv, Tracked
  <2> QED
    BY <1>1, <2>1, <2>3 DEF DeliveryInv, ExactDelivery
<1> QED
  BY <1>11, <1>12

\* At first nothing was sent and nothing delivered.
LEMMA InitDelivery == Init => DeliveryInv
<1> SUFFICES ASSUME Init PROVE DeliveryInv
  OBVIOUS
<1>1. IInv
  BY InitIInv
<1>2. DOMAIN sending = {} /\ delivered = whole
  BY DEF Init, ReassemblerInit, EmptyMap
<1> QED
  BY <1>1, <1>2 DEF DeliveryInv, ExactDelivery

\* On a link that drops no initialization packet, every step keeps the table in
\* step with the hosts and what is delivered exact.
LEMMA NextDelivery ==
  ASSUME "init" \notin Losable,
         \A m \in Messages : Len(m.payload) <= MaxPayload,
         DeliveryInv, [Next]_vars
  PROVE  DeliveryInv'
<1>1. IInv'
  BY NextIInv DEF DeliveryInv
<1>2. CASE \E c \in Cids, m \in Messages : Begin(c, m)
  BY <1>1, <1>2, BeginExact DEF DeliveryInv
<1>3. CASE \E c \in Cids : Arrive(c)
  BY <1>1, <1>3, ArriveExact DEF DeliveryInv
<1>4. CASE \E c \in Cids : Lose(c)
  BY <1>1, <1>4, LoseExact DEF DeliveryInv
<1>5. CASE \E c \in Cids : Abandon(c)
  <2>1. PICK c \in Cids : Abandon(c)
    BY <1>5
  <2>2. /\ DOMAIN sending' \subseteq DOMAIN sending
        /\ \A d \in DOMAIN sending' : sending'[d] = sending[d]
        /\ UNCHANGED <<channels, delivered, whole>>
    BY <2>1 DEF Abandon, Remove
  <2>3. \A d \in DOMAIN sending' : Tracked(sending'[d], channels', d)
    BY <2>2 DEF DeliveryInv, Tracked
  <2> QED
    BY <1>1, <2>2, <2>3 DEF DeliveryInv, ExactDelivery
<1>6. CASE UNCHANGED vars
  <2>1. \A d \in DOMAIN sending' : Tracked(sending'[d], channels', d)
    BY <1>6 DEF vars, DeliveryInv, Tracked
  <2> QED
    BY <1>1, <1>6, <2>1 DEF vars, DeliveryInv, ExactDelivery
<1> QED
  BY <1>2, <1>3, <1>4, <1>5, <1>6 DEF Next

\* In every execution in which no initialization packet is dropped and no host
\* sends more than MaxPayload bytes, handle_message is given, on each channel,
\* exactly the messages whose every packet arrived, in order and unchanged:
\* whatever continuation packets are dropped, messages abandoned, and channels
\* interleaved.
THEOREM DeliveryAlwaysExact ==
  ASSUME "init" \notin Losable,
         \A m \in Messages : Len(m.payload) <= MaxPayload
  PROVE  Spec => []ExactDelivery
<1>1. DeliveryInv /\ [Next]_vars => DeliveryInv'
  BY NextDelivery
<1>2. DeliveryInv => ExactDelivery
  BY DEF DeliveryInv
<1> QED
  BY <1>1, <1>2, InitDelivery, PTL DEF Spec

-----------------------------------------------------------------------------
(***************************************************************************)
(* Declared lengths, whatever is lost.                                     *)
(***************************************************************************)

\* The commands and lengths of the messages channel c has begun.
Begun(c) ==
  {<<begun[c][j].cmd, Len(begun[c][j].payload)>> : j \in DOMAIN begun[c]}

\* The host of channel c keeps to the limit of to_packets.
KeepsLimit(c) == \A j \in DOMAIN begun[c] : Len(begun[c][j].payload) <= MaxPayload

\* A busy host is in the middle of a message it has begun.
SendsBegun(c) ==
  c \in DOMAIN sending =>
    /\ \E j \in DOMAIN begun[c] : sending[c].cut.msg = begun[c][j]
    /\ InProgress(sending[c].cut)

DeclaredOn(c) == KeepsLimit(c) => SendsBegun(c) /\ DeclaredIn(c, Begun(c))

DeclaredInv == IInv /\ \A c \in Cids : DeclaredOn(c)

\* What is declared on a channel stays so when nothing happens on it.
LEMMA QuietDeclared ==
  ASSUME NEW d, DeclaredOn(d), begun'[d] = begun[d], delivered'[d] = delivered[d],
         d \in DOMAIN sending' => d \in DOMAIN sending /\ sending'[d] = sending[d],
         d \in DOMAIN channels' => d \in DOMAIN channels /\ channels'[d] = channels[d]
  PROVE  DeclaredOn(d)'
<1>1. KeepsLimit(d)' => KeepsLimit(d)
  BY DEF KeepsLimit
<1>2. Begun(d)' = Begun(d)
  BY DEF Begun
<1>3. SendsBegun(d) => SendsBegun(d)'
  BY DEF SendsBegun, InProgress
<1>4. DeclaredIn(d, Begun(d)) => DeclaredIn(d, Begun(d))'
  BY <1>2 DEF DeclaredIn
<1> QED
  BY <1>1, <1>3, <1>4 DEF DeclaredOn

\* A host that goes on stays in the middle of the same message; the others do
\* not move.
LEMMA AdvanceInProgress ==
  ASSUME IInv, NEW c \in DOMAIN sending, NEW arrived \in BOOLEAN,
         Advance(c, arrived)
  PROVE  /\ UNCHANGED begun
         /\ \A d \in DOMAIN sending' : d \in DOMAIN sending
         /\ \A d \in DOMAIN sending' \ {c} : sending'[d] = sending[d]
         /\ InProgress(sending[c].cut) /\ Len(sending[c].cut.msg.payload) <= MaxPayload
              /\ c \in DOMAIN sending' =>
              /\ sending'[c].cut.msg = sending[c].cut.msg
              /\ InProgress(sending'[c].cut)
<1>1. PICK cut \in Cut : cut = sending[c].cut
  BY DEF IInv, TypeOK
<1>2. /\ cut.offset <= Len(cut.msg.payload)
      /\ cut.first => cut.offset = 0 /\ cut.seq = 0
  BY <1>1 DEF IInv, TypeOK, CutInv
<1>3. PICK next : next = CutNext(cut)
  OBVIOUS
<1>4. next.msg = cut.msg /\ ~next.first
  BY <1>2, <1>3, HostCutNext
<1>5. UNCHANGED begun
  BY DEF Advance
<1>6. CASE CutDone(next)
  <2>1. sending' = Remove(sending, c)
    BY <1>1, <1>3, <1>6 DEF Advance
  <2> QED
    BY <1>5, <2>1 DEF Remove
<1>7. CASE ~CutDone(next)
  <2>1. PICK s : s = [cut |-> next, intact |-> sending[c].intact /\ arrived]
    OBVIOUS
  <2>2. sending' = Put(sending, c, s)
    BY <1>1, <1>3, <1>7, <2>1 DEF Advance
  <2>3. s.cut = next
    BY <2>1
  <2>4. /\ DOMAIN sending' = DOMAIN sending \cup {c} /\ sending'[c] = s
        /\ \A d \in DOMAIN sending \ {c} : sending'[d] = sending[d]
    BY <2>2 DEF Put
  <2>5. ASSUME InProgress(cut), Len(cut.msg.payload) <= MaxPayload
        PROVE  InProgress(next)
    <3>1. ~cut.first => /\ cut.offset = InitData + cut.seq * ContData
                        /\ cut.offset < Len(cut.msg.payload)
      BY <2>5 DEF InProgress
    <3>2. next.offset = InitData + next.seq * ContData
          /\ next.offset < Len(cut.msg.payload)
      BY <1>2, <1>3, <1>7, <2>5, <3>1, HostCutFacts, NextOffset
    <3> QED
      BY <1>4, <3>2 DEF InProgress
  <2> QED
    BY <1>1, <1>4, <1>5, <2>3, <2>4, <2>5
<1> QED
  BY <1>6, <1>7

\* A message that is begun adds its command and length to those declared.
LEMMA BeginDeclared ==
  ASSUME DeclaredInv, NEW c \in Cids, NEW m \in Messages, Begin(c, m)
  PROVE  \A d \in Cids : DeclaredOn(d)'
<1>1. PICK s : s = [cut |-> StartCut(m), intact |-> TRUE]
  OBVIOUS
<1>2. s.cut.first /\ s.cut.msg = m
  BY <1>1 DEF StartCut
<1>3. /\ DOMAIN sending' = DOMAIN sending \cup {c} /\ sending'[c] = s
      /\ \A d \in DOMAIN sending \ {c} : sending'[d] = sending[d]
      /\ UNCHANGED <<channels, delivered>>
  BY <1>1 DEF Begin, Put
<1>4. begun \in [Cids -> Seq(Messages)] /\ begun' = [begun EXCEPT ![c] = Append(@, m)]
  BY DEF DeclaredInv, IInv, TypeOK, Begin
<1>5. PICK n \in Nat : n = Len(begun[c]) /\ DOMAIN begun[c] = 1 .. n
  BY <1>4
<1>6. /\ DOMAIN begun'[c] = 1 .. n + 1 /\ begun'[c][n + 1] = m
      /\ \A j \in 1 .. n : begun'[c][j] = begun[c][j]
  BY <1>4, <1>5
<1>7. ASSUME NEW d \in Cids \ {c} PROVE DeclaredOn(d)'
  <2>1. begun'[d] = begun[d] /\ DeclaredOn(d)
    BY <1>4 DEF DeclaredInv
  <2> QED
    BY <1>3, <2>1, QuietDeclared
<1>8. DeclaredOn(c)'
  <2>1. KeepsLimit(c)' => KeepsLimit(c)
    BY <1>5, <1>6 DEF KeepsLimit
  <2>2. Begun(c) \subseteq Begun(c)'
    BY <1>5, <1>6 DEF Begun
  <2>3. SendsBegun(c)'
    BY <1>2, <1>3, <1>5, <1>6 DEF SendsBegun, InProgress
  <2>4. DeclaredIn(c, Begun(c)) => DeclaredIn(c, Begun(c))'
    BY <1>3, <2>2 DEF DeclaredIn
  <2> QED
    BY <2>1, <2>3, <2>4 DEF DeclaredInv, DeclaredOn
<1> QED
  BY <1>7, <1>8

\* Whether a packet arrives or is lost, its host stays within a message it has
\* begun.
LEMMA AdvanceSendsBegun ==
  ASSUME DeclaredInv, NEW c \in DOMAIN sending, c \in Cids, KeepsLimit(c),
         NEW arrived \in BOOLEAN, Advance(c, arrived)
  PROVE  SendsBegun(c)'
<1>1. PICK j \in DOMAIN begun[c] : sending[c].cut.msg = begun[c][j]
  BY DEF DeclaredInv, DeclaredOn, SendsBegun
<1>2. InProgress(sending[c].cut) /\ Len(sending[c].cut.msg.payload) <= MaxPayload
  BY <1>1 DEF DeclaredInv, DeclaredOn, SendsBegun, KeepsLimit
<1>3. /\ UNCHANGED begun
      /\ c \in DOMAIN sending' =>
           /\ sending'[c].cut.msg = sending[c].cut.msg
           /\ InProgress(sending'[c].cut)
  BY <1>2, AdvanceInProgress DEF DeclaredInv
<1> QED
  BY <1>1, <1>3 DEF SendsBegun, InProgress

\* A packet that arrives is the first of a message that was begun, or extends
\* what one declared.
LEMMA ArriveDeclared ==
  ASSUME DeclaredInv, NEW c \in Cids, Arrive(c)
  PROVE  \A d \in Cids : DeclaredOn(d)'
<1>1. c \in DOMAIN sending /\ HandlePacket(Incoming(c)) /\ Advance(c, TRUE)
  BY DEF Arrive
<1>2. PICK p : p = Incoming(c)
  OBVIOUS
<1>3. Readable(p) /\ p.cid = c
  BY <1>1, <1>2, IncomingReadable DEF DeclaredInv, IInv
<1>4. ReassemblerTypeOK /\ ReassemblyBounded
  BY DEF DeclaredInv, IInv, TypeOK
<1>5. /\ UNCHANGED begun
      /\ \A d \in DOMAIN sending' : d \in DOMAIN sending
      /\ \A d \in DOMAIN sending' \ {c} : sending'[d] = sending[d]
  BY <1>1, AdvanceInProgress DEF DeclaredInv
<1>6. ASSUME NEW d \in Cids \ {c} PROVE DeclaredOn(d)'
  <2>1. /\ d \in DOMAIN channels' <=> d \in DOMAIN channels
        /\ d \in DOMAIN channels => channels'[d] = channels[d]
        /\ delivered'[d] = delivered[d]
    BY <1>1, <1>2, <1>3, <1>4, HandlePacketOthers
  <2> QED
    BY <1>5, <2>1, QuietDeclared DEF DeclaredInv
<1>7. ASSUME KeepsLimit(c) PROVE SendsBegun(c)' /\ DeclaredIn(c, Begun(c))'
  <2>1. PICK D : D = Begun(c)
    OBVIOUS
  <2>2. PICK j \in DOMAIN begun[c] : sending[c].cut.msg = begun[c][j]
    BY <1>1, <1>7 DEF DeclaredInv, DeclaredOn, SendsBegun
  <2>3. InProgress(sending[c].cut) /\ Len(sending[c].cut.msg.payload) <= MaxPayload
    BY <1>1, <1>7, <2>2 DEF DeclaredInv, DeclaredOn, SendsBegun, KeepsLimit
  <2>4. p.kind = "init" => <<p.cmd, p.bcnt>> \in D
    <3>1. ASSUME p.kind = "init"
          PROVE  p.cmd = begun[c][j].cmd /\ p.bcnt = Len(begun[c][j].payload)
      <4>1. PICK cut \in Cut : cut = sending[c].cut
        BY <1>1 DEF DeclaredInv, IInv, TypeOK
      <4>2. /\ cut \in AnyCut /\ p = Parse(Serialize(CutPacket(cut, c)))
            /\ cut.offset <= Len(cut.msg.payload)
            /\ cut.first => cut.offset = 0 /\ cut.seq = 0
        BY <1>1, <1>2, <4>1, HostCutFacts
           DEF DeclaredInv, IInv, TypeOK, CutInv, Incoming
      <4> QED
        BY <2>2, <2>3, <3>1, <4>1, <4>2, CutDeclared
    <3> QED
      BY <2>1, <3>1 DEF Begun
  <2>5. DeclaredIn(c, D)
    BY <1>7, <2>1 DEF DeclaredInv, DeclaredOn
  <2>6. DeclaredIn(c, D)'
    BY <1>1, <1>2, <1>3, <1>4, <2>4, <2>5, HandlePacketDeclared
  <2>7. Begun(c)' = D
    BY <1>5, <2>1 DEF Begun
  <2>8. SendsBegun(c)'
    BY <1>1, <1>7, AdvanceSendsBegun
  <2> QED
    BY <2>6, <2>7, <2>8 DEF DeclaredIn
<1>8. DeclaredOn(c)'
  <2>1. KeepsLimit(c)' => KeepsLimit(c)
    BY <1>5 DEF KeepsLimit
  <2> QED
    BY <1>7, <2>1 DEF DeclaredOn
<1> QED
  BY <1>6, <1>8

\* A packet that is lost changes nothing on the device's side.
LEMMA LoseDeclared ==
  ASSUME DeclaredInv, NEW c \in Cids, Lose(c)
  PROVE  \A d \in Cids : DeclaredOn(d)'
<1>1. c \in DOMAIN sending /\ Advance(c, FALSE) /\ UNCHANGED <<channels, delivered>>
  BY DEF Lose, reassemblerVars
<1>2. /\ UNCHANGED begun
      /\ \A d \in DOMAIN sending' : d \in DOMAIN sending
      /\ \A d \in DOMAIN sending' \ {c} : sending'[d] = sending[d]
  BY <1>1, AdvanceInProgress DEF DeclaredInv
<1>3. ASSUME NEW d \in Cids \ {c} PROVE DeclaredOn(d)'
  BY <1>1, <1>2, QuietDeclared DEF DeclaredInv
<1>4. KeepsLimit(c)' => KeepsLimit(c)
  BY <1>2 DEF KeepsLimit
<1>5. KeepsLimit(c) => SendsBegun(c)'
  BY <1>1, AdvanceSendsBegun
<1>6. DeclaredIn(c, Begun(c)) => DeclaredIn(c, Begun(c))'
  BY <1>1, <1>2 DEF DeclaredIn, Begun
<1>7. DeclaredOn(c)'
  BY <1>4, <1>5, <1>6 DEF DeclaredInv, DeclaredOn
<1> QED
  BY <1>3, <1>7

\* At first nothing was begun, stored or delivered.
LEMMA InitDeclared == Init => DeclaredInv
<1> SUFFICES ASSUME Init PROVE DeclaredInv
  OBVIOUS
<1>1. IInv
  BY InitIInv
<1>2. /\ DOMAIN channels = {} /\ DOMAIN sending = {}
      /\ delivered = [c \in Cids |-> <<>>]
  BY DEF Init, ReassemblerInit, EmptyMap
<1>3. \A c \in Cids : DeclaredOn(c)
  BY <1>2 DEF DeclaredOn, SendsBegun, DeclaredIn
<1> QED
  BY <1>1, <1>3 DEF DeclaredInv

\* Every step keeps what is stored and delivered declared.
LEMMA NextDeclared == DeclaredInv /\ [Next]_vars => DeclaredInv'
<1> SUFFICES ASSUME DeclaredInv, [Next]_vars PROVE DeclaredInv'
  OBVIOUS
<1>1. IInv'
  BY NextIInv DEF DeclaredInv
<1>2. ASSUME NEW c \in Cids, NEW m \in Messages, Begin(c, m) PROVE DeclaredInv'
  BY <1>1, <1>2, BeginDeclared DEF DeclaredInv
<1>3. ASSUME NEW c \in Cids, Arrive(c) PROVE DeclaredInv'
  BY <1>1, <1>3, ArriveDeclared DEF DeclaredInv
<1>4. ASSUME NEW c \in Cids, Lose(c) PROVE DeclaredInv'
  BY <1>1, <1>4, LoseDeclared DEF DeclaredInv
<1>5. ASSUME NEW c \in Cids, Abandon(c) PROVE DeclaredInv'
  <2>1. /\ \A d \in DOMAIN sending' : d \in DOMAIN sending /\ sending'[d] = sending[d]
        /\ UNCHANGED <<channels, delivered, begun>>
    BY <1>5 DEF Abandon, Remove
  <2> QED
    BY <1>1, <2>1, QuietDeclared DEF DeclaredInv
<1>6. CASE UNCHANGED vars
  BY <1>1, <1>6, QuietDeclared DEF vars, DeclaredInv
<1> QED
  BY <1>2, <1>3, <1>4, <1>5, <1>6 DEF Next

\* In every execution, whatever is lost or abandoned, what handle_message is
\* given on a channel whose host keeps to the limit of to_packets has the command
\* and the length of a message that host began.
THEOREM LengthsAlwaysDeclared == Spec => []DeclaredLength
<1>1. DeclaredInv => DeclaredLength
  BY DEF DeclaredInv, DeclaredOn, DeclaredIn, DeclaredLength, KeepsLimit, Begun
<1> QED
  BY <1>1, InitDeclared, NextDeclared, PTL DEF Spec

-----------------------------------------------------------------------------
(***************************************************************************)
(* The same as a refinement: every step is one of the atomic link, or one  *)
(* it does not see.                                                        *)
(***************************************************************************)

\* The messages in transit, as the atomic link sees them.
Current == [c \in DOMAIN sending |-> sending[c].cut.msg]

\* A host that goes on is not seen; one that is done leaves the busy channels.
LEMMA AdvanceCurrent ==
  ASSUME IInv, NEW c \in DOMAIN sending, NEW arrived \in BOOLEAN,
         Advance(c, arrived)
  PROVE  IF CutDone(CutNext(sending[c].cut))
         THEN Current' = Remove(Current, c)
         ELSE UNCHANGED Current
<1>1. PICK cut \in Cut : cut = sending[c].cut
  BY DEF IInv, TypeOK
<1>2. PICK next : next = CutNext(cut)
  OBVIOUS
<1>3. next.msg = cut.msg
  <2>1. /\ cut.offset <= Len(cut.msg.payload)
        /\ cut.first => cut.offset = 0 /\ cut.seq = 0
    BY <1>1 DEF IInv, TypeOK, CutInv
  <2> QED
    BY <1>2, <2>1, HostCutNext
<1>4. CASE CutDone(next)
  <2>1. sending' = Remove(sending, c)
    BY <1>1, <1>2, <1>4 DEF Advance
  <2> QED
    BY <1>1, <1>2, <1>4, <2>1 DEF Current, Remove
<1>5. CASE ~CutDone(next)
  <2>1. PICK s : s = [cut |-> next, intact |-> sending[c].intact /\ arrived]
    OBVIOUS
  <2>2. sending' = Put(sending, c, s) /\ s.cut = next
    BY <1>1, <1>2, <1>5, <2>1 DEF Advance
  <2>3. /\ DOMAIN sending' = DOMAIN sending /\ sending'[c] = s
        /\ \A d \in DOMAIN sending \ {c} : sending'[d] = sending[d]
    BY <2>2 DEF Put
  <2>4. \A d \in DOMAIN sending : sending'[d].cut.msg = sending[d].cut.msg
    BY <1>1, <1>3, <2>2, <2>3
  <2>5. UNCHANGED Current
    BY <2>3, <2>4 DEF Current
  <2> QED
    BY <1>1, <1>2, <1>5, <2>5
<1> QED
  BY <1>4, <1>5

\* A message begins for both at once.
LEMMA BeginAtomic ==
  ASSUME NEW c \in Cids, NEW m \in Messages, Begin(c, m)
  PROVE  AtomicDelivery!Begin(c, m)
<1>1. PICK s : s = [cut |-> StartCut(m), intact |-> TRUE]
  OBVIOUS
<1>2. s.cut.msg = m
  BY <1>1 DEF StartCut
<1>3. /\ c \notin DOMAIN sending /\ DOMAIN sending' = DOMAIN sending \cup {c}
      /\ sending'[c] = s
      /\ \A d \in DOMAIN sending \ {c} : sending'[d] = sending[d]
      /\ UNCHANGED delivered
  BY <1>1 DEF Begin, Put
<1>4. Current' = Put(Current, c, m)
  BY <1>2, <1>3 DEF Current, Put
<1> QED
  BY <1>3, <1>4 DEF AtomicDelivery!Begin, AtomicDelivery!Put, Put, Current

\* The last packet of a message delivers it when all of it has arrived, and
\* otherwise gives it up; no other packet is seen.
LEMMA ArriveAtomic ==
  ASSUME DeliveryInv, NEW c \in Cids, Arrive(c),
         \A m \in Messages : Len(m.payload) <= MaxPayload
  PROVE  \/ AtomicDelivery!Deliver(c)
         \/ AtomicDelivery!GiveUp(c)
         \/ UNCHANGED AtomicDelivery!vars
<1>1. PICK s, next : s = sending[c] /\ next = CutNext(s.cut)
  OBVIOUS
<1>2. /\ c \in DOMAIN sending /\ Advance(c, TRUE) /\ s.intact \in BOOLEAN
      /\ Handled(c, s, next)
  BY <1>1, ArriveHandled
<1>3. IF CutDone(next) THEN Current' = Remove(Current, c) ELSE UNCHANGED Current
  BY <1>1, <1>2, AdvanceCurrent DEF DeliveryInv
<1>4. c \in DOMAIN Current /\ Current[c] = s.cut.msg
  BY <1>1, <1>2 DEF Current
<1>5. CASE CutDone(next) /\ s.intact
  <2>1. delivered' = [delivered EXCEPT ![c] = Append(@, Current[c])]
    BY <1>2, <1>4, <1>5 DEF Handled
  <2> QED
    BY <1>3, <1>4, <1>5, <2>1
       DEF AtomicDelivery!Deliver, AtomicDelivery!Remove, Remove, Current
<1>6. CASE CutDone(next) /\ ~s.intact
  <2>1. UNCHANGED delivered
    BY <1>2, <1>6 DEF Handled
  <2> QED
    BY <1>3, <1>4, <1>6, <2>1
       DEF AtomicDelivery!GiveUp, AtomicDelivery!Remove, Remove, Current
<1>7. CASE ~CutDone(next)
  <2>1. UNCHANGED delivered
    BY <1>2, <1>7 DEF Handled
  <2> QED
    BY <1>3, <1>7, <2>1 DEF AtomicDelivery!vars, Current
<1> QED
  BY <1>2, <1>5, <1>6, <1>7

\* A message whose last packet is lost is given up; no other loss is seen.
LEMMA LoseAtomic ==
  ASSUME DeliveryInv, NEW c \in Cids, Lose(c)
  PROVE  AtomicDelivery!GiveUp(c) \/ UNCHANGED AtomicDelivery!vars
<1>1. c \in DOMAIN sending /\ Advance(c, FALSE) /\ UNCHANGED delivered
  BY DEF Lose, reassemblerVars
<1>2. PICK done \in BOOLEAN : done = CutDone(CutNext(sending[c].cut))
  BY DEF CutDone
<1>3. IF done THEN Current' = Remove(Current, c) ELSE UNCHANGED Current
  BY <1>1, <1>2, AdvanceCurrent DEF DeliveryInv
<1>4. CASE done
  BY <1>1, <1>3, <1>4
     DEF AtomicDelivery!GiveUp, AtomicDelivery!Remove, Remove, Current
<1>5. CASE ~done
  BY <1>1, <1>3, <1>5 DEF AtomicDelivery!vars, Current
<1> QED
  BY <1>4, <1>5

\* A host that gives up does so for both.
LEMMA AbandonAtomic ==
  ASSUME NEW c \in Cids, Abandon(c)
  PROVE  AtomicDelivery!GiveUp(c)
<1>1. /\ c \in DOMAIN sending /\ DOMAIN sending' = DOMAIN sending \ {c}
      /\ \A d \in DOMAIN sending' : sending'[d] = sending[d]
      /\ UNCHANGED delivered
  BY DEF Abandon, Remove
<1> QED
  BY <1>1 DEF AtomicDelivery!GiveUp, AtomicDelivery!Remove

\* Every step is a step of the atomic link or is not seen.
LEMMA NextAtomic ==
  ASSUME \A m \in Messages : Len(m.payload) <= MaxPayload,
         DeliveryInv, [Next]_vars
  PROVE  [AtomicDelivery!Next]_(AtomicDelivery!vars)
<1> USE DEF AtomicDelivery!Next
<1>1. ASSUME NEW c \in Cids, NEW m \in Messages, Begin(c, m)
      PROVE  AtomicDelivery!Next
  BY <1>1, BeginAtomic
<1>2. ASSUME NEW c \in Cids, Arrive(c)
      PROVE  AtomicDelivery!Next \/ UNCHANGED AtomicDelivery!vars
  BY <1>2, ArriveAtomic
<1>3. ASSUME NEW c \in Cids, Lose(c)
      PROVE  AtomicDelivery!Next \/ UNCHANGED AtomicDelivery!vars
  BY <1>3, LoseAtomic
<1>4. ASSUME NEW c \in Cids, Abandon(c) PROVE AtomicDelivery!Next
  BY <1>4, AbandonAtomic
<1>5. CASE UNCHANGED vars
  BY <1>5 DEF vars, AtomicDelivery!vars
<1> QED
  BY <1>1, <1>2, <1>3, <1>4, <1>5 DEF Next

\* On a link that drops no initialization packet, and when no host sends more
\* than MaxPayload bytes, the packets, their losses and their interleavings
\* implement a link that moves each message in one step.
THEOREM LinkImplementsAtomic ==
  ASSUME "init" \notin Losable,
         \A m \in Messages : Len(m.payload) <= MaxPayload
  PROVE  Spec => ImplementsAtomicLink
<1>1. Init => AtomicDelivery!Init
  BY DEF Init, ReassemblerInit, EmptyMap, AtomicDelivery!Init, AtomicDelivery!EmptyMap
<1>2. DeliveryInv /\ [Next]_vars => DeliveryInv'
  BY NextDelivery
<1>3. DeliveryInv /\ [Next]_vars => [AtomicDelivery!Next]_(AtomicDelivery!vars)
  BY NextAtomic
<1> QED
  BY <1>1, <1>2, <1>3, InitDelivery, PTL
     DEF Spec, ImplementsAtomicLink, AtomicDelivery!Spec

=============================================================================
