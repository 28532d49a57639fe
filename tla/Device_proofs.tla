--------------------------- MODULE Device_proofs ---------------------------
(***************************************************************************)
(* Proofs about Device, for every number of hosts, every set of requests,  *)
(* every size of the queue and every packet size.                          *)
(***************************************************************************)
EXTENDS Device, Reassembler_proofs, FiniteSetTheorems

\* What Reassembler_proofs says of the hosts' reassembly.
Side == INSTANCE Reassembler_proofs
  WITH channels <- incoming, delivered <- answers

\* A cut as to_packets leaves it between two packets.
ProperCuts ==
  {cut \in AnyCut : /\ cut.offset <= Len(cut.msg.payload)
                    /\ cut.first => cut.offset = 0 /\ cut.seq = 0}

\* Every event is one of the kernel's own or a packet some host cut.
Events ==
  {OtherEvent} \cup
  {OutputEvent(Serialize(CutPacket(cut, c))) : cut \in ProperCuts, c \in Cids}

\* The device's side: the bounds of Reassembler.
DeviceInv == ReassemblerTypeOK /\ ReassemblyBounded /\ EchoFits

\* The hosts' side of what they send.
HostInv ==
  /\ queue \in Seq(Events)
  /\ chan \in [Hosts -> Cids]
  /\ DOMAIN sending \subseteq Hosts
  /\ \A h \in DOMAIN sending :
       /\ sending[h] \in ProperCuts
       /\ sent[h] # <<>>
       /\ sent[h][Len(sent[h])].cmd = sending[h].msg.cmd
       /\ sent[h][Len(sent[h])].payload = sending[h].msg.payload
  /\ waiting \subseteq Hosts /\ lost \subseteq Hosts
  /\ gaveUp \subseteq Impatient
  /\ sent \in [Hosts -> Seq(Addressed)]
  /\ got \in [Hosts -> Seq([to : Nat, answer : Addressed])]

\* A response in the middle of being written fits the sequence numbers, and
\* the hosts have put together exactly what was written of it.
Writing ==
  /\ response \in ProperCuts
  /\ response.msg = [cmd |-> current.cmd, payload |-> current.payload]
  /\ Len(current.payload) <= MaxPayload
  /\ IF response.first
     THEN DOMAIN incoming = {}
     ELSE /\ InProgress(response)
          /\ DOMAIN incoming = {current.cid}
          /\ incoming[current.cid] = EntryOf(response)
  /\ current.cmd = InitCommand =>
       Len(current.payload) = 2 /\ current.payload[2] \in Cids

ResponseInv ==
  /\ phase \in {"reading", "prompting", "writing", "stopped"}
  /\ current \in Addressed
  /\ Side!ReassemblerTypeOK /\ Side!ReassemblyBounded /\ Side!EchoFits
  /\ phase \in {"reading", "prompting"} => DOMAIN incoming = {}
  /\ DOMAIN incoming \subseteq {current.cid}
  /\ phase = "writing" => Writing

DInv == DeviceInv /\ HostInv /\ ResponseInv

\* Asking and Rank of a sequence of messages.
AskingOf(s)  == {i \in DOMAIN s : NeedsAnswer(s[i])}
RankOf(s, i) == Cardinality({j \in AskingOf(s) : j <= i})

\* The answers t are to the messages of s in their order, all but `left` of them.
Order(s, t, left) ==
  /\ Cardinality(AskingOf(s)) = Len(t) + left
  /\ \A i \in AskingOf(s) :
       RankOf(s, i) <= Len(t) => AnswerTo(s[i], t[RankOf(s, i)])

\* The answer is one to the messages of s that have none in t.
Pending(s, t, answer) ==
  \A i \in AskingOf(s) : RankOf(s, i) > Len(t) => AnswerTo(s[i], answer)

\* The order of the answers, and that the one to come is to the message left.
OrderInv ==
  /\ \A c \in Cids :
       Order(delivered[c], answers[c], IF BusyWith(c) THEN 1 ELSE 0)
  /\ phase = "reading" => current = NoMessage
  /\ phase \in {"prompting", "writing"} => current # NoMessage
  /\ phase = "prompting" =>
       \A status \in {OK, OperationDenied} :
         Pending(delivered[current.cid], answers[current.cid],
                 [cmd |-> CborCommand, payload |-> <<status>>])
  /\ phase = "writing" =>
       Pending(delivered[current.cid], answers[current.cid],
               [cmd |-> current.cmd, payload |-> current.payload])

\* The commands and lengths of what hosts sent on channel c.
Announced(c) ==
  {<<m.cmd, Len(m.payload)>> :
     m \in {m \in UNION {{sent[h][j] : j \in DOMAIN sent[h]} : h \in Hosts} :
              m.cid = c}}

\* What an initialization packet declares was sent on its channel.
EventDeclared(event) ==
  event.kind = "output" =>
    LET p == Parse(event.report)
    IN  p.kind = "init" => <<p.cmd, p.bcnt>> \in Announced(p.cid)

QueueDeclared == \A event \in {queue[i] : i \in DOMAIN queue} : EventDeclared(event)

SendingInProgress ==
  \A h \in DOMAIN sending :
    InProgress(sending[h]) /\ Len(sending[h].msg.payload) <= MaxPayload

DeclaredInv ==
  /\ QueueDeclared
  /\ SendingInProgress
  /\ \A c \in Cids : DeclaredIn(c, Announced(c))

-----------------------------------------------------------------------------
(***************************************************************************)
(* The hosts' reassembler is the device's, with other variables.           *)
(***************************************************************************)

\* The sizes, the messages and the cuts are the same.
LEMMA SameSizes ==
  /\ Side!Base = Base /\ Side!Byte = Byte /\ Side!ContData = ContData
  /\ Side!MaxPayload = MaxPayload /\ Side!Message = Message
  /\ Side!AnyCut = AnyCut
  BY DEF Side!Base, Base, Side!Byte, Byte, Side!ContData, ContData,
         Side!MaxPayload, MaxPayload, Side!Message, Message, Side!AnyCut, AnyCut

\* So are a cut's packets and what is read of them.
LEMMA SameCuts ==
  /\ \A cut : Side!CutNext(cut) = CutNext(cut) /\ (Side!CutDone(cut) <=> CutDone(cut))
  /\ \A cut : Side!EntryOf(cut) = EntryOf(cut)
  /\ \A cut, c : Side!CutPacket(cut, c) = CutPacket(cut, c)
  /\ \A r : Side!Parse(r) = Parse(r)
  /\ \A p : Side!Serialize(p) = Serialize(p)
  /\ \A p : Side!Readable(p) <=> Readable(p)
  BY SameSizes
     DEF Side!CutNext, CutNext, Side!CutDone, CutDone, Side!MinOf, MinOf,
         Side!EntryOf, EntryOf, Side!CutPacket, CutPacket, Side!Chunk, Chunk,
         Side!Parse, Parse, Side!Serialize, Serialize, Side!Readable, Readable,
         Side!Packet, Packet, Side!InitPacket, InitPacket,
         Side!ContPacket, ContPacket, Side!Bytes, Bytes

\* What HostSide!HandlePacket does is what the lemmas of Reassembler_proofs say
\* of HandlePacket.
LEMMA SameHandling ==
  /\ Side!ReassemblerTypeOK <=> HostSide!ReassemblerTypeOK
  /\ Side!ReassemblerInit <=> HostSide!ReassemblerInit
  /\ \A p : HostSide!HandlePacket(p) => Side!HandlePacket(p)
<1>1. HostSide!Base = Side!Base /\ HostSide!ContData = Side!ContData
  BY DEF HostSide!Base, Side!Base, HostSide!ContData, Side!ContData
<1>2. \A p : HostSide!HandlePacket(p) => Side!HandlePacket(p)
  BY <1>1
     DEF HostSide!HandlePacket, Side!HandlePacket,
         HostSide!SinglePacket, Side!SinglePacket, HostSide!FirstPacket, Side!FirstPacket,
         HostSide!StrayPacket, Side!StrayPacket, HostSide!OutOfOrder, Side!OutOfOrder,
         HostSide!MiddlePacket, Side!MiddlePacket, HostSide!LastPacket, Side!LastPacket,
         HostSide!FitsInOnePacket, Side!FitsInOnePacket, HostSide!InSequence, Side!InSequence,
         HostSide!Extended, Side!Extended, HostSide!MinOf, Side!MinOf,
         HostSide!Return, Side!Return, HostSide!Put, Side!Put, HostSide!Remove, Side!Remove,
         HostSide!reassemblerVars, Side!reassemblerVars
<1>3. Side!ReassemblerTypeOK <=> HostSide!ReassemblerTypeOK
  BY <1>1
     DEF Side!ReassemblerTypeOK, HostSide!ReassemblerTypeOK,
         Side!IncompleteMessage, HostSide!IncompleteMessage,
         Side!Byte, HostSide!Byte
<1> QED
  BY <1>2, <1>3
     DEF Side!ReassemblerInit, HostSide!ReassemblerInit, Side!EmptyMap, HostSide!EmptyMap

-----------------------------------------------------------------------------
(***************************************************************************)
(* The response.                                                           *)
(***************************************************************************)

\* What is read of a packet of a proper cut.
LEMMA ProperFacts ==
  ASSUME NEW cut \in ProperCuts
  PROVE  /\ cut \in AnyCut
         /\ cut.offset <= Len(cut.msg.payload)
         /\ cut.first => cut.offset = 0 /\ cut.seq = 0
         /\ cut.first \in BOOLEAN
         /\ cut.msg.payload \in Seq(Byte) /\ Len(cut.msg.payload) \in Nat
         /\ CutNext(cut) \in ProperCuts /\ CutNext(cut).msg = cut.msg
         /\ ~CutNext(cut).first
<1>1. /\ cut \in AnyCut
      /\ cut.offset <= Len(cut.msg.payload)
      /\ cut.first => cut.offset = 0 /\ cut.seq = 0
  BY DEF ProperCuts
<1> QED
  BY <1>1, CutFacts, CutNextFacts DEF ProperCuts

\* A message that is begun is a proper cut.
LEMMA StartProper ==
  ASSUME NEW m \in Message
  PROVE  /\ StartCut(m) \in ProperCuts /\ StartCut(m).first
         /\ StartCut(m).msg = m
<1>1. 0 \in Byte /\ Len(m.payload) \in Nat
  BY Sizes DEF Message
<1> QED
  BY <1>1 DEF StartCut, ProperCuts, AnyCut

\* A packet of the response extends what the hosts have of it; the last one
\* completes it, and leaves nothing behind.
LEMMA PacketWritten ==
  ASSUME ResponseInv, phase = "writing", NEW next, next = CutNext(response),
         HostSide!HandlePacket(Parse(Serialize(CutPacket(response, current.cid))))
  PROVE  /\ Side!ReassemblerTypeOK' /\ Side!ReassemblyBounded' /\ Side!EchoFits'
         /\ CutDone(next) =>
              /\ DOMAIN incoming' = {}
              /\ answers' = [answers EXCEPT ![current.cid] = Append(@, response.msg)]
         /\ ~CutDone(next) =>
              /\ UNCHANGED answers
              /\ InProgress(next)
              /\ DOMAIN incoming' = {current.cid}
              /\ incoming'[current.cid] = EntryOf(next)
<1>1. PICK c \in Cids : c = current.cid
  BY DEF ResponseInv, Addressed
<1>2. PICK p : p = Parse(Serialize(CutPacket(response, c)))
  OBVIOUS
<1>3. PICK s : s = [cut |-> response, intact |-> TRUE]
  OBVIOUS
<1>4. s.cut = response /\ s.intact = TRUE
  BY <1>3
<1>5. /\ response \in AnyCut /\ Len(response.msg.payload) <= MaxPayload
      /\ response.offset <= Len(response.msg.payload)
      /\ response.first => response.offset = 0 /\ response.seq = 0
      /\ IF response.first
         THEN DOMAIN incoming = {}
         ELSE /\ InProgress(response)
              /\ DOMAIN incoming = {c}
              /\ incoming[c] = EntryOf(response)
  BY <1>1, ProperFacts DEF ResponseInv, Writing
<1>6. Side!Tracked(s, incoming, c)
  BY <1>4, <1>5, SameSizes, SameCuts DEF Side!Tracked, InProgress
<1>7. /\ Side!HandlePacket(p)
      /\ p = Side!Parse(Side!Serialize(Side!CutPacket(response, c)))
      /\ next = Side!CutNext(response)
  BY <1>1, <1>2, SameCuts, SameHandling
<1>8. Side!Handling(c, s, p, next)
  BY <1>4, <1>5, <1>6, <1>7, SameSizes DEF Side!Handling
<1>9. Side!Handled(c, s, next)
  BY <1>4, <1>8, FramingAssumption, Side!HandledFirst, Side!HandledIntact
<1>10. Readable(p) /\ p.cid = c /\ Side!Readable(p)
  BY <1>2, <1>5, CutReadable, SameCuts
<1>11. Side!ReassemblerTypeOK' /\ Side!ReassemblyBounded' /\ Side!EchoFits'
  BY <1>7, <1>10, FramingAssumption, Side!HandlePacketBounded DEF ResponseInv
<1>12. \A d \in DOMAIN incoming' : d = c
  <2>1. DOMAIN incoming' \subseteq Cids /\ DOMAIN incoming \subseteq {c}
    BY <1>1, <1>11 DEF ResponseInv, Side!ReassemblerTypeOK
  <2> QED
    BY <1>9, <2>1 DEF Side!Handled
<1>13. ASSUME CutDone(next)
       PROVE  /\ answers' = [answers EXCEPT ![c] = Append(@, response.msg)]
              /\ DOMAIN incoming' = {}
  <2>1. answers' = [answers EXCEPT ![c] = Append(@, response.msg)]
    BY <1>4, <1>9, <1>13, SameCuts DEF Side!Handled
  <2>2. answers' # answers
    <3>1. PICK S : answers \in [Cids -> Seq(S)]
      BY DEF ResponseInv, Side!ReassemblerTypeOK
    <3>2. Len(answers'[c]) = Len(answers[c]) + 1 /\ Len(answers[c]) \in Nat
      BY <2>1, <3>1
    <3> QED
      BY <3>2
  <2>3. c \in DOMAIN incoming' => p.kind = "init" /\ UNCHANGED incoming
    BY <1>7, <1>10, <2>2, FramingAssumption, Side!HandlePacketReturns DEF ResponseInv
  <2>4. CASE response.first
    BY <1>5, <1>12, <2>1, <2>3, <2>4
  <2>5. CASE ~response.first
    <3>1. p.kind = "cont"
      BY <1>4, <1>8, <2>5, FramingAssumption, Side!LaterPacket
    <3> QED
      BY <1>12, <2>1, <2>3, <3>1
  <2> QED
    BY <2>1, <2>4, <2>5
<1>14. ASSUME ~CutDone(next)
       PROVE  /\ UNCHANGED answers /\ InProgress(next)
              /\ DOMAIN incoming' = {c} /\ incoming'[c] = EntryOf(next)
  <2>1. PICK t : t = [cut |-> next, intact |-> s.intact]
    OBVIOUS
  <2>2. UNCHANGED answers /\ Side!Tracked(t, incoming', c)
    BY <1>9, <1>14, <2>1, SameCuts DEF Side!Handled
  <2>3. t.cut = next /\ t.intact = TRUE /\ ~next.first
    BY <1>4, <2>1, ProperFacts DEF ResponseInv, Writing
  <2>4. InProgress(next) /\ c \in DOMAIN incoming' /\ incoming'[c] = EntryOf(next)
    BY <2>2, <2>3, SameSizes, SameCuts DEF Side!Tracked, InProgress
  <2> QED
    BY <1>12, <2>2, <2>4
<1> QED
  BY <1>1, <1>11, <1>13, <1>14

\* send_message begins: nothing of the response was written yet.
LEMMA RespondWrites ==
  ASSUME ResponseInv, DOMAIN incoming = {}, UNCHANGED answerVars,
         NEW cid \in Cids, NEW cmd \in SeqLimit .. Base - 1,
         NEW payload \in Seq(Byte), Len(payload) <= MaxPayload,
         cmd = InitCommand => Len(payload) = 2 /\ payload[2] \in Cids,
         Respond(cid, cmd, payload)
  PROVE  ResponseInv'
<1>1. PICK m : m = [cmd |-> cmd, payload |-> payload]
  OBVIOUS
<1>2. m \in Message /\ m.cmd = cmd /\ m.payload = payload
  BY <1>1 DEF Message
<1>3. PICK a : a = [cid |-> cid, cmd |-> cmd, payload |-> payload]
  OBVIOUS
<1>4. /\ a \in Addressed /\ a.cid = cid /\ a.cmd = cmd /\ a.payload = payload
  BY <1>3, Sizes DEF Addressed
<1>5. /\ phase' = "writing" /\ current' = a /\ response' = StartCut(m)
      /\ UNCHANGED <<incoming, answers>>
  BY <1>1, <1>3 DEF Respond, answerVars
<1>6. /\ response' \in ProperCuts /\ response'.first /\ response'.msg = m
  BY <1>2, <1>5, StartProper
<1>7. Writing'
  BY <1>1, <1>4, <1>5, <1>6 DEF Writing
<1> QED
  BY <1>4, <1>5, <1>7
     DEF ResponseInv, Side!ReassemblerTypeOK, Side!ReassemblyBounded, Side!EchoFits

\* Whatever handle_message does with a message that can be echoed, a response
\* begins whole, and a prompt leaves nothing behind.
LEMMA MessageHandled ==
  ASSUME ResponseInv, phase = "reading", UNCHANGED answerVars,
         NEW m \in Addressed, Len(m.payload) <= MaxPayload, HandleMessage(m)
  PROVE  ResponseInv'
<1>1. DOMAIN incoming = {}
  BY DEF ResponseInv
<1>2. /\ m.cid \in Cids /\ m.payload \in Seq(Byte)
      /\ {InitCommand, PingCommand, CborCommand} \subseteq SeqLimit .. Base - 1
      /\ InitCommand # PingCommand /\ InitCommand # CborCommand
  BY DeviceAssumption DEF Addressed
<1>3. CASE m.cmd = PingCommand /\ Respond(m.cid, PingCommand, m.payload)
  BY <1>1, <1>2, <1>3, RespondWrites
<1>4. CASE m.cmd = InitCommand /\ HandleInit(m) /\ ~(Len(m.payload) < 1)
  <2>1. PICK cid \in Cids : Respond(m.cid, InitCommand, <<Head(m.payload), cid>>)
    BY <1>4 DEF HandleInit
  <2>2. PICK nonce \in Byte : nonce = Head(m.payload)
    BY <1>2, <1>4
  <2>3. PICK payload : payload = <<nonce, cid>>
    OBVIOUS
  <2>4. payload \in Seq(Byte) /\ Len(payload) = 2 /\ payload[2] = cid
    BY <2>3, DeviceAssumption
  <2>5. 2 <= MaxPayload
    <3>1. SeqLimit * ContData >= ContData
      BY Sizes
    <3> QED
      BY <3>1, Sizes
  <2>6. Respond(m.cid, InitCommand, payload)
    BY <2>1, <2>2, <2>3
  <2> QED
    BY <1>1, <1>2, <2>4, <2>5, <2>6, RespondWrites
<1>5. ASSUME NEW payload, Respond(m.cid, CborCommand, payload),
             payload \in Seq(Byte), Len(payload) <= MaxPayload
      PROVE  ResponseInv'
  BY <1>1, <1>2, <1>5, RespondWrites
<1>6. CASE HandleCbor(m) /\ Respond(m.cid, CborCommand, <<OK>> \o Info)
  <2>1. <<OK>> \in Seq(Byte) /\ Len(<<OK>>) = 1 /\ Info \in Seq(Byte)
        /\ 1 + Len(Info) <= MaxPayload
    BY DeviceAssumption
  <2>2. <<OK>> \o Info \in Seq(Byte) /\ Len(<<OK>> \o Info) = 1 + Len(Info)
    BY <2>1, ConcatProperties
  <2> QED
    BY <1>5, <1>6, <2>1, <2>2
<1>7. CASE Prompt(m)
  BY <1>1, <1>7
     DEF Prompt, ResponseInv, answerVars,
         Side!ReassemblerTypeOK, Side!ReassemblyBounded, Side!EchoFits
<1>8. CASE Ignore
  BY <1>8
     DEF Ignore, ResponseInv, answerVars,
         Side!ReassemblerTypeOK, Side!ReassemblyBounded, Side!EchoFits
<1> QED
  BY <1>3, <1>4, <1>6, <1>7, <1>8 DEF HandleMessage, HandleInit, HandleCbor

-----------------------------------------------------------------------------
(***************************************************************************)
(* Every step keeps DInv.                                                  *)
(***************************************************************************)

\* What a host has yet to write does not disturb what the device does.
LEMMA HostStutter ==
  ASSUME HostInv, UNCHANGED hostVars, queue' \in Seq(Events)
  PROVE  HostInv'
  BY DEF HostInv, hostVars

\* An event that fits joins the queue.
LEMMA EnqueueType ==
  ASSUME HostInv, NEW event \in Events, Enqueue(event)
  PROVE  queue' \in Seq(Events)
  BY DEF HostInv, Enqueue

\* A message that is begun is the last the host sent.
LEMMA StartSends ==
  ASSUME HostInv, NEW h \in Hosts, NEW m \in Message, StartSending(h, m),
         UNCHANGED <<queue, chan, got, lost>>, waiting' \subseteq Hosts,
         gaveUp' \subseteq Impatient
  PROVE  /\ HostInv'
         /\ DOMAIN sending' = DOMAIN sending \cup {h}
         /\ sending'[h] = StartCut(m)
         /\ \A k \in DOMAIN sending \ {h} : sending'[k] = sending[k]
         /\ \A k \in Hosts \ {h} : sent'[k] = sent[k]
         /\ sent'[h] = Append(sent[h], [cid |-> chan[h], cmd |-> m.cmd,
                                        payload |-> m.payload])
<1>1. PICK a : a = [cid |-> chan[h], cmd |-> m.cmd, payload |-> m.payload]
  OBVIOUS
<1>2. /\ a.cid = chan[h] /\ a.cmd = m.cmd /\ a.payload = m.payload
      /\ a \in Addressed
  BY <1>1, Sizes DEF HostInv, Addressed, Message
<1>3. PICK cut : cut = StartCut(m)
  OBVIOUS
<1>4. cut \in ProperCuts /\ cut.msg = m
  BY <1>3, StartProper
<1>5. /\ sending' = Put(sending, h, cut)
      /\ sent' = [sent EXCEPT ![h] = Append(@, a)]
  BY <1>1, <1>3 DEF StartSending
<1>6. /\ DOMAIN sending' = DOMAIN sending \cup {h}
      /\ sending'[h] = cut
      /\ \A k \in DOMAIN sending \ {h} : sending'[k] = sending[k]
  BY <1>5 DEF Put
<1>7. sent \in [Hosts -> Seq(Addressed)]
  BY DEF HostInv
<1>8. /\ sent' \in [Hosts -> Seq(Addressed)]
      /\ \A k \in Hosts \ {h} : sent'[k] = sent[k]
      /\ sent'[h] = Append(sent[h], a)
  BY <1>2, <1>5, <1>7
<1>9. sent'[h] # <<>> /\ sent'[h][Len(sent'[h])] = a
  BY <1>2, <1>7, <1>8
<1>10. ASSUME NEW k \in DOMAIN sending'
       PROVE  /\ sending'[k] \in ProperCuts
              /\ sent'[k] # <<>>
              /\ sent'[k][Len(sent'[k])].cmd = sending'[k].msg.cmd
              /\ sent'[k][Len(sent'[k])].payload = sending'[k].msg.payload
  <2>1. CASE k = h
    BY <1>2, <1>4, <1>6, <1>9, <2>1
  <2>2. CASE k # h
    BY <1>6, <1>8, <1>10, <2>2 DEF HostInv
  <2> QED
    BY <2>1, <2>2
<1>11. HostInv'
  BY <1>6, <1>8, <1>10 DEF HostInv
<1> QED
  BY <1>1, <1>3, <1>6, <1>8, <1>11

\* What a host may begin is a message.
LEMMA RequestType ==
  ASSUME NEW h \in Hosts
  PROVE  /\ \A m \in Requests \cup {InitRequest(h)} : m \in Message
         /\ CancelMessage \in Message
<1>1. <<h>> \in Seq(Byte) /\ <<>> \in Seq(Byte)
  BY DeviceAssumption
<1>2. InitRequest(h) \in Message /\ CancelMessage \in Message
  BY <1>1, DeviceAssumption DEF InitRequest, CancelMessage, Message
<1> QED
  BY <1>2, DeviceAssumption

\* A host begins a request.
LEMMA BeginInv ==
  ASSUME DInv, NEW h \in Hosts, NEW m \in Requests \cup {InitRequest(h)},
         Begin(h, m)
  PROVE  DInv'
<1>1. m \in Message
  BY RequestType
<1>2. HostInv'
  BY <1>1, StartSends DEF Begin, DInv, HostInv
<1>3. UNCHANGED <<deviceVars, answerVars>>
  BY DEF Begin
<1> QED
  BY <1>2, <1>3
     DEF DInv, DeviceInv, ResponseInv, Writing, deviceVars, answerVars, reassemblerVars,
         ReassemblerTypeOK, ReassemblyBounded, EchoFits,
         Side!ReassemblerTypeOK, Side!ReassemblyBounded, Side!EchoFits

\* A host gives up.
LEMMA GiveUpInv ==
  ASSUME DInv, NEW h \in Hosts, GiveUp(h)
  PROVE  DInv'
<1>1. HostInv'
  BY RequestType, StartSends, DeviceAssumption DEF GiveUp, DInv, HostInv
<1>2. UNCHANGED <<deviceVars, answerVars>>
  BY DEF GiveUp
<1> QED
  BY <1>1, <1>2
     DEF DInv, DeviceInv, ResponseInv, Writing, deviceVars, answerVars, reassemblerVars,
         ReassemblerTypeOK, ReassemblyBounded, EchoFits,
         Side!ReassemblerTypeOK, Side!ReassemblyBounded, Side!EchoFits

\* A host's next packet is one of the events, whether or not it fits.
LEMMA WriteReportFacts ==
  ASSUME DInv, NEW h \in Hosts, WriteReport(h)
  PROVE  /\ HostInv'
         /\ UNCHANGED <<channels, delivered, phase, current, response,
                        incoming, answers, chan, sent>>
         /\ \E cid \in Cids :
              /\ cid = sent[h][Len(sent[h])].cid
              /\ Enqueue(OutputEvent(Serialize(CutPacket(sending[h], cid))))
         /\ DOMAIN sending' \subseteq DOMAIN sending
         /\ \A k \in DOMAIN sending' :
              \/ k # h /\ sending'[k] = sending[k]
              \/ /\ k = h /\ sending'[k] = CutNext(sending[h])
                 /\ ~CutDone(CutNext(sending[h]))
<1>1. PICK cid, next : /\ cid = sent[h][Len(sent[h])].cid
                       /\ next = CutNext(sending[h])
  OBVIOUS
<1>2. h \in DOMAIN sending /\ sent[h] # <<>> /\ sending[h] \in ProperCuts
  BY DEF WriteReport, DInv, HostInv
<1>3. sent[h] \in Seq(Addressed)
  BY DEF DInv, HostInv
<1>4. sent[h][Len(sent[h])] \in Addressed
  BY <1>2, <1>3
<1>5. cid \in Cids
  BY <1>1, <1>4 DEF Addressed
<1>6. /\ Enqueue(OutputEvent(Serialize(CutPacket(sending[h], cid))))
      /\ sending' = IF CutDone(next) THEN Remove(sending, h) ELSE Put(sending, h, next)
      /\ lost' = IF HasRoom THEN lost ELSE lost \cup {h}
      /\ UNCHANGED <<deviceVars, answerVars, chan, waiting, sent, got, gaveUp>>
  BY <1>1 DEF WriteReport, Seqs!Last
<1>7. OutputEvent(Serialize(CutPacket(sending[h], cid))) \in Events
  BY <1>2, <1>5 DEF Events
<1>8. queue' \in Seq(Events)
  BY <1>6, <1>7, EnqueueType DEF DInv
<1>9. next \in ProperCuts /\ next.msg = sending[h].msg
  BY <1>1, <1>2, ProperFacts
<1>10. /\ DOMAIN sending' \subseteq DOMAIN sending
       /\ \A k \in DOMAIN sending' :
            \/ k # h /\ sending'[k] = sending[k]
            \/ k = h /\ sending'[k] = next /\ ~CutDone(next)
  <2>1. CASE CutDone(next)
    BY <1>6, <2>1 DEF Remove
  <2>2. CASE ~CutDone(next)
    <3>1. sending' = Put(sending, h, next)
      BY <1>6, <2>2
    <3>2. /\ DOMAIN sending' = DOMAIN sending \cup {h}
          /\ sending'[h] = next
          /\ \A k \in DOMAIN sending : k # h => sending'[k] = sending[k]
      BY <3>1 DEF Put
    <3> QED
      BY <1>2, <2>2, <3>2
  <2> QED
    BY <2>1, <2>2
<1>11. ASSUME NEW k \in DOMAIN sending'
       PROVE  /\ sending'[k] \in ProperCuts
              /\ sent'[k] # <<>>
              /\ sent'[k][Len(sent'[k])].cmd = sending'[k].msg.cmd
              /\ sent'[k][Len(sent'[k])].payload = sending'[k].msg.payload
  BY <1>2, <1>6, <1>9, <1>10, <1>11 DEF DInv, HostInv
<1>12. HostInv'
  BY <1>6, <1>8, <1>10, <1>11 DEF DInv, HostInv
<1> QED
  BY <1>1, <1>5, <1>6, <1>10, <1>12 DEF deviceVars, answerVars, reassemblerVars

\* An event of kind "output" is a packet of some host, which can be read.
LEMMA EventReadable ==
  ASSUME HostInv, queue # <<>>, Head(queue).kind = "output"
  PROVE  Readable(Parse(Head(queue).report))
<1>1. Head(queue) \in Events
  BY DEF HostInv
<1>2. Head(queue) # OtherEvent
  BY DEF OtherEvent
<1>3. PICK cut \in ProperCuts, c \in Cids :
        Head(queue) = OutputEvent(Serialize(CutPacket(cut, c)))
  BY <1>1, <1>2 DEF Events
<1>4. Head(queue).report = Serialize(CutPacket(cut, c))
  BY <1>3 DEF OutputEvent
<1> QED
  BY <1>4, ProperFacts, CutReadable

\* The loop takes an event from the queue.
LEMMA ReadEventInv ==
  ASSUME HostInv, ReadEvent
  PROVE  HostInv' /\ UNCHANGED answerVars /\ phase = "reading"
<1>1. queue' \in Seq(Events)
  BY DEF HostInv, ReadEvent
<1> QED
  BY <1>1, HostStutter DEF ReadEvent

\* What Receive hands to handle_message.
LEMMA ReceiveFacts ==
  ASSUME DInv, Receive
  PROVE  \E p :
           /\ p = Parse(Head(queue).report)
           /\ Readable(p) /\ HandlePacket(p)
           /\ \/ UNCHANGED delivered /\ Ignore
              \/ \E m \in Addressed :
                   /\ m.cid = p.cid /\ m.cid \in Cids
                   /\ Len(m.payload) <= MaxPayload
                   /\ delivered' = [delivered EXCEPT ![m.cid] =
                        Append(@, [cmd |-> m.cmd, payload |-> m.payload])]
                   /\ HandleMessage(m)
<1>1. PICK p : p = Parse(Head(queue).report)
  OBVIOUS
<1>2. Readable(p)
  BY <1>1, EventReadable DEF DInv, Receive, ReadEvent
<1>3. HandlePacket(p)
  BY <1>1 DEF Receive
<1>4. p.cid \in Cids
  BY <1>2 DEF Readable, Packet, InitPacket, ContPacket
<1>5. PICK S : S = [cmd : Byte, payload : Seq(Byte)]
  OBVIOUS
<1>6. delivered \in [Cids -> Seq(S)]
  BY <1>5 DEF DInv, DeviceInv, ReassemblerTypeOK
<1>7. CASE UNCHANGED delivered
  BY <1>1, <1>2, <1>3, <1>7 DEF Receive
<1>8. ASSUME NEW m \in S, Len(m.payload) <= MaxPayload,
             delivered' = [delivered EXCEPT ![p.cid] = Append(@, m)]
      PROVE  \E a \in Addressed :
                   /\ a.cid = p.cid /\ a.cid \in Cids
                   /\ Len(a.payload) <= MaxPayload
                   /\ delivered' = [delivered EXCEPT ![a.cid] =
                        Append(@, [cmd |-> a.cmd, payload |-> a.payload])]
                   /\ HandleMessage(a)
  <2>1. PICK a : a = [cid |-> p.cid, cmd |-> m.cmd, payload |-> m.payload]
    OBVIOUS
  <2>2. /\ a \in Addressed /\ a.cid = p.cid
        /\ a.cmd = m.cmd /\ a.payload = m.payload
    BY <1>4, <1>5, <2>1 DEF Addressed
  <2>3. m = [cmd |-> a.cmd, payload |-> a.payload]
    BY <1>5, <2>2
  <2>4. /\ Len(delivered'[p.cid]) = Len(delivered[p.cid]) + 1
        /\ Len(delivered[p.cid]) \in Nat
        /\ delivered'[p.cid][Len(delivered'[p.cid])] = m
    BY <1>4, <1>6, <1>8
  <2>5. delivered' # delivered
    BY <2>4
  <2>6. HandleMessage(a)
    BY <1>1, <2>1, <2>4, <2>5 DEF Receive, Seqs!Last
  <2> QED
    BY <1>4, <1>8, <2>2, <2>3, <2>6
<1>9. \/ UNCHANGED delivered
      \/ \E m \in S : /\ Len(m.payload) <= MaxPayload
                      /\ delivered' = [delivered EXCEPT ![p.cid] = Append(@, m)]
  BY <1>2, <1>3, <1>5, HandlePacketReturns DEF DInv, DeviceInv
<1>10. UNCHANGED delivered => Ignore
  BY <1>1 DEF Receive
<1>11. (\A m \in S : ~(/\ Len(m.payload) <= MaxPayload
                       /\ delivered' = [delivered EXCEPT ![p.cid] = Append(@, m)]))
         => UNCHANGED delivered
  BY <1>9
<1>12. CASE \E m \in S : /\ Len(m.payload) <= MaxPayload
                         /\ delivered' = [delivered EXCEPT ![p.cid] = Append(@, m)]
  BY <1>1, <1>2, <1>3, <1>8, <1>12
<1> QED
  BY <1>1, <1>2, <1>3, <1>10, <1>11, <1>12

\* A packet that is received keeps the bounds, whatever comes of it.
LEMMA ReceiveInv ==
  ASSUME DInv, Receive
  PROVE  DInv'
<1>1. HostInv' /\ UNCHANGED answerVars /\ phase = "reading"
  BY ReadEventInv DEF Receive, DInv
<1>2. PICK p :
        /\ Readable(p) /\ HandlePacket(p)
        /\ \/ Ignore
           \/ \E m \in Addressed :
                Len(m.payload) <= MaxPayload /\ HandleMessage(m)
  BY ReceiveFacts
<1>3. DeviceInv'
  BY <1>2, HandlePacketBounded DEF DInv, DeviceInv
<1>4. CASE Ignore
  <2>1. ResponseInv'
    BY <1>1, <1>4
       DEF DInv, ResponseInv, Ignore, answerVars, Writing,
           Side!ReassemblerTypeOK, Side!ReassemblyBounded, Side!EchoFits
  <2> QED
    BY <1>1, <1>3, <2>1 DEF DInv
<1>5. ASSUME NEW m \in Addressed, Len(m.payload) <= MaxPayload, HandleMessage(m)
      PROVE  ResponseInv'
  BY <1>1, <1>5, MessageHandled DEF DInv
<1> QED
  BY <1>1, <1>2, <1>3, <1>4, <1>5 DEF DInv

\* What a host takes of an answer: INIT gives it a channel.
LEMMA TakeInv ==
  ASSUME HostInv, UNCHANGED queue, NEW answer \in Addressed, Take(answer),
         answer.cmd = InitCommand => answer.payload[2] \in Cids
  PROVE  HostInv'
<1>1. PICK takers : takers = {h \in Hosts : Takes(h, answer)}
  OBVIOUS
<1>2. /\ waiting' = waiting \ takers
      /\ got' = [h \in Hosts |->
                   IF h \in takers
                   THEN Append(got[h], [to |-> Len(sent[h]), answer |-> answer])
                   ELSE got[h]]
      /\ chan' = [h \in Hosts |->
                    IF h \in takers /\ answer.cmd = InitCommand
                    THEN answer.payload[2] ELSE chan[h]]
      /\ UNCHANGED <<sending, sent, gaveUp, lost>>
  BY <1>1 DEF Take
<1>3. chan' \in [Hosts -> Cids]
  BY <1>2 DEF HostInv
<1>4. PICK G : G = [to : Nat, answer : Addressed]
  OBVIOUS
<1>5. got \in [Hosts -> Seq(G)] /\ sent \in [Hosts -> Seq(Addressed)]
  BY <1>4 DEF HostInv
<1>6. \A h \in Hosts : [to |-> Len(sent[h]), answer |-> answer] \in G
  BY <1>4, <1>5
<1>7. got' \in [Hosts -> Seq(G)]
  BY <1>2, <1>5, <1>6
<1> QED
  BY <1>2, <1>3, <1>4, <1>7 DEF HostInv

\* What writing a packet does: the last one of a response is what the hosts
\* take, and the loop reads on; any other leaves the response in progress.
LEMMA WritePacketFacts ==
  ASSUME DInv, WritePacket
  PROVE  \/ /\ ResponseWritten(response)
            /\ answers' = [answers EXCEPT ![current.cid] =
                 Append(@, [cmd |-> current.cmd, payload |-> current.payload])]
            /\ Take([cid |-> current.cid, cmd |-> current.cmd,
                     payload |-> current.payload])
            /\ phase' = "reading" /\ current' = NoMessage /\ DOMAIN incoming' = {}
         \/ /\ ~ResponseWritten(response)
            /\ UNCHANGED <<answers, hostVars, phase, current>>
            /\ Writing'
<1>1. PICK next : next = CutNext(response)
  OBVIOUS
<1>2. HostSide!HandlePacket(Parse(Serialize(CutPacket(response, current.cid))))
      /\ phase = "writing" /\ ResponseInv /\ Writing
  BY DEF WritePacket, DInv, ResponseInv
<1>3. /\ CutDone(next) =>
           /\ DOMAIN incoming' = {}
           /\ answers' = [answers EXCEPT ![current.cid] = Append(@, response.msg)]
      /\ ~CutDone(next) =>
           /\ UNCHANGED answers
           /\ InProgress(next)
           /\ DOMAIN incoming' = {current.cid}
           /\ incoming'[current.cid] = EntryOf(next)
  BY <1>1, <1>2, PacketWritten
<1>4. PICK m : m = [cmd |-> current.cmd, payload |-> current.payload]
  OBVIOUS
<1>5. response.msg = m
  BY <1>2, <1>4 DEF Writing
<1>6. CASE CutDone(next)
  <2>1. answers' = [answers EXCEPT ![current.cid] = Append(@, m)]
        /\ DOMAIN incoming' = {}
    BY <1>3, <1>5, <1>6
  <2>2. current.cid \in Cids
    BY <1>2 DEF ResponseInv, Addressed
  <2>3. PICK S : answers \in [Cids -> Seq(S)]
    BY <1>2 DEF ResponseInv, Side!ReassemblerTypeOK
  <2>4. /\ Len(answers'[current.cid]) = Len(answers[current.cid]) + 1
        /\ Len(answers[current.cid]) \in Nat
        /\ answers'[current.cid][Len(answers'[current.cid])] = m
    BY <2>1, <2>2, <2>3
  <2>5. answers' # answers
    BY <2>4
  <2>6. Take([cid |-> current.cid, cmd |-> m.cmd, payload |-> m.payload])
    BY <2>4, <2>5 DEF WritePacket, Seqs!Last
  <2>7. m.cmd = current.cmd /\ m.payload = current.payload
    BY <1>4
  <2> QED
    BY <1>1, <1>4, <1>6, <2>1, <2>6, <2>7 DEF WritePacket, ResponseWritten
<1>7. CASE ~CutDone(next)
  <2>1. UNCHANGED <<answers, hostVars, phase, current>> /\ response' = next
    BY <1>1, <1>3, <1>7 DEF WritePacket, ResponseWritten
  <2>2. next \in ProperCuts /\ next.msg = response.msg /\ ~next.first
    BY <1>1, <1>2, ProperFacts DEF Writing
  <2>3. Writing'
    BY <1>2, <1>3, <1>7, <2>1, <2>2 DEF Writing
  <2> QED
    BY <1>1, <1>7, <2>1, <2>3 DEF ResponseWritten
<1> QED
  BY <1>6, <1>7

\* Writing a packet.
LEMMA WritePacketInv ==
  ASSUME DInv, WritePacket
  PROVE  DInv'
<1>1. /\ HostSide!HandlePacket(Parse(Serialize(CutPacket(response, current.cid))))
      /\ phase = "writing" /\ ResponseInv /\ Writing /\ HostInv /\ DeviceInv
      /\ UNCHANGED <<channels, delivered, queue>>
  BY DEF WritePacket, DInv, ResponseInv, reassemblerVars
<1>2. Side!ReassemblerTypeOK' /\ Side!ReassemblyBounded' /\ Side!EchoFits'
  BY <1>1, PacketWritten
<1>3. DeviceInv'
  BY <1>1 DEF DeviceInv, ReassemblerTypeOK, ReassemblyBounded, EchoFits
<1>4. PICK a : a = [cid |-> current.cid, cmd |-> current.cmd,
                    payload |-> current.payload]
  OBVIOUS
<1>5. /\ a \in Addressed /\ a.cmd = current.cmd /\ a.payload = current.payload
      /\ NoMessage \in Addressed
  <2>1. 0 \in Byte /\ <<>> \in Seq(Byte)
    BY Sizes
  <2> QED
    BY <1>1, <1>4, <2>1, DeviceAssumption DEF ResponseInv, Addressed, NoMessage
<1>6. CASE ResponseWritten(response)
  <2>1. Take(a) /\ phase' = "reading" /\ current' = NoMessage /\ DOMAIN incoming' = {}
    BY <1>4, <1>6, WritePacketFacts
  <2>2. HostInv'
    BY <1>1, <1>5, <2>1, TakeInv DEF Writing
  <2> QED
    BY <1>2, <1>3, <1>5, <2>1, <2>2 DEF DInv, ResponseInv
<1>7. CASE ~ResponseWritten(response)
  <2>1. UNCHANGED <<hostVars, phase, current>> /\ Writing'
    BY <1>7, WritePacketFacts
  <2>2. HostInv'
    BY <1>1, <2>1, HostStutter DEF HostInv
  <2>3. DOMAIN incoming' \subseteq {current'.cid}
    BY <2>1 DEF Writing
  <2> QED
    BY <1>1, <1>2, <1>3, <2>1, <2>2, <2>3 DEF DInv, ResponseInv
<1> QED
  BY <1>6, <1>7

\* A status that is written takes one byte.
LEMMA StatusFits ==
  ASSUME NEW status \in {OK, OperationDenied}
  PROVE  <<status>> \in Seq(Byte) /\ Len(<<status>>) <= MaxPayload
<1>1. MaxPayload >= 1
  <2>1. SeqLimit * ContData >= 0
    BY Sizes
  <2> QED
    BY <2>1, Sizes
<1> QED
  BY <1>1, DeviceAssumption

\* The user answers.
LEMMA AnswerInv ==
  ASSUME DInv, Answer
  PROVE  DInv'
<1>1. /\ UNCHANGED <<channels, delivered, queue, answerVars, hostVars>>
      /\ phase = "prompting"
  BY DEF Answer, reassemblerVars
<1>2. PICK status \in {OK, OperationDenied} :
        Respond(current.cid, CborCommand, <<status>>)
  BY DEF Answer
<1>3. /\ current.cid \in Cids /\ DOMAIN incoming = {} /\ ResponseInv
      /\ CborCommand \in SeqLimit .. Base - 1 /\ CborCommand # InitCommand
  BY <1>1, DeviceAssumption DEF DInv, ResponseInv, Addressed
<1>4. ResponseInv'
  BY <1>1, <1>2, <1>3, StatusFits, RespondWrites
<1>5. DeviceInv'
  BY <1>1 DEF DInv, DeviceInv, ReassemblerTypeOK, ReassemblyBounded, EchoFits
<1>6. HostInv'
  BY <1>1, HostStutter DEF DInv, HostInv
<1> QED
  BY <1>4, <1>5, <1>6 DEF DInv

\* The other steps.
LEMMA QuietInv ==
  ASSUME DInv, KernelEvent \/ Skip \/ Fail \/ UNCHANGED vars
  PROVE  DInv'
<1>1. /\ UNCHANGED <<channels, delivered, current, response, answerVars, hostVars>>
      /\ phase' = phase \/ phase' = "stopped"
  BY DEF KernelEvent, Skip, ReadEvent, Fail, vars, deviceVars, reassemblerVars,
         answerVars, hostVars
<1>2. queue' \in Seq(Events)
  <2>1. CASE KernelEvent
    BY <2>1, EnqueueType DEF KernelEvent, DInv, Events
  <2>2. CASE Skip
    BY <2>2 DEF Skip, ReadEvent, DInv, HostInv
  <2>3. CASE Fail \/ UNCHANGED vars
    BY <2>3 DEF Fail, vars, DInv, HostInv
  <2> QED
    BY <2>1, <2>2, <2>3
<1>3. HostInv'
  BY <1>1, <1>2, HostStutter DEF DInv
<1>4. DeviceInv'
  BY <1>1 DEF DInv, DeviceInv, ReassemblerTypeOK, ReassemblyBounded, EchoFits
<1>5. ResponseInv'
  BY <1>1
     DEF DInv, ResponseInv, answerVars, Writing,
         Side!ReassemblerTypeOK, Side!ReassemblyBounded, Side!EchoFits
<1> QED
  BY <1>3, <1>4, <1>5 DEF DInv

\* DInv is inductive.
LEMMA DInvStep ==
  ASSUME DInv, [Next]_vars
  PROVE  DInv'
<1>1. ASSUME NEW h \in Hosts, NEW m \in Requests \cup {InitRequest(h)}, Begin(h, m)
      PROVE  DInv'
  BY <1>1, BeginInv
<1>2. ASSUME NEW h \in Hosts, WriteReport(h)
      PROVE  DInv'
  <2>1. HostInv' /\ UNCHANGED <<channels, delivered, phase, current, response,
                                incoming, answers>>
    BY <1>2, WriteReportFacts
  <2> QED
    BY <2>1
       DEF DInv, DeviceInv, ResponseInv, Writing,
           ReassemblerTypeOK, ReassemblyBounded, EchoFits,
           Side!ReassemblerTypeOK, Side!ReassemblyBounded, Side!EchoFits
<1>3. ASSUME NEW h \in Hosts, GiveUp(h)
      PROVE  DInv'
  BY <1>3, GiveUpInv
<1> QED
  BY <1>1, <1>2, <1>3, ReceiveInv, WritePacketInv, AnswerInv, QuietInv
     DEF Next, Loop

\* It holds at the start.
LEMMA DInvInit == Init => DInv
<1> SUFFICES ASSUME Init PROVE DInv
  OBVIOUS
<1>1. DOMAIN channels = {} /\ DOMAIN incoming = {} /\ DOMAIN sending = {}
  BY DEF Init, ReassemblerInit, HostSide!ReassemblerInit, HostSide!EmptyMap, EmptyMap
<1>2. delivered = [c \in Cids |-> <<>>] /\ answers = [c \in Cids |-> <<>>]
  BY DEF Init, ReassemblerInit, HostSide!ReassemblerInit
<1>3. DeviceInv
  BY <1>1, <1>2 DEF DeviceInv, ReassemblerTypeOK, ReassemblyBounded, EchoFits
<1>4. Side!ReassemblerTypeOK /\ Side!ReassemblyBounded /\ Side!EchoFits
  BY <1>1, <1>2
     DEF Side!ReassemblerTypeOK, Side!ReassemblyBounded, Side!EchoFits
<1>5. NoMessage \in Addressed
  <2>1. 0 \in Byte /\ <<>> \in Seq(Byte)
    BY Sizes
  <2> QED
    BY <2>1, DeviceAssumption DEF Addressed, NoMessage
<1>6. HostInv
  BY <1>1, DeviceAssumption DEF Init, HostInv
<1> QED
  BY <1>1, <1>3, <1>4, <1>5, <1>6 DEF Init, DInv, ResponseInv

\* What DInv says of the types.
LEMMA DInvTypes == DInv => TypeOK
  BY SameHandling DEF DInv, DeviceInv, HostInv, ResponseInv, TypeOK

\* DInv is an invariant.
THEOREM DInvAlways == Spec => []DInv
  BY DInvInit, DInvStep, PTL DEF Spec

\* The whole path keeps its types, and a response is never left incomplete on
\* the hosts' side once the loop of UhidAuthenticator::run goes on.
THEOREM TypeCorrect == Spec => []TypeOK
  BY DInvAlways, DInvTypes, PTL

\* Neither the device nor a host that reassembles its answers ever overflows a
\* length or a sequence number, and what either returns can be cut again.
THEOREM BothSidesBounded ==
  Spec => [](/\ ReassemblyBounded /\ EchoFits
             /\ Side!ReassemblyBounded /\ Side!EchoFits)
<1>1. DInv => /\ ReassemblyBounded /\ EchoFits
              /\ Side!ReassemblyBounded /\ Side!EchoFits
  BY DEF DInv, DeviceInv, ResponseInv
<1> QED
  BY <1>1, DInvAlways, PTL

-----------------------------------------------------------------------------
(***************************************************************************)
(* What is handled was declared by some host on its channel.               *)
(***************************************************************************)

\* What a host sends fits the sequence numbers of to_packets, as CTAPHID asks.
RequestsFit == \A m \in Requests : Len(m.payload) <= MaxPayload

\* What is sent is never unsent.
SentGrows ==
  \A h \in Hosts : \A j \in DOMAIN sent[h] :
    j \in DOMAIN sent'[h] /\ sent'[h][j] = sent[h][j]

\* A message that was sent is announced.
LEMMA SentAnnounced ==
  ASSUME NEW h \in Hosts, NEW j \in DOMAIN sent[h]
  PROVE  <<sent[h][j].cmd, Len(sent[h][j].payload)>> \in Announced(sent[h][j].cid)
  BY DEF Announced

\* What is announced stays announced.
LEMMA AnnouncedGrows ==
  ASSUME SentGrows, NEW c
  PROVE  Announced(c) \subseteq Announced(c)'
<1>1. PICK S, T : /\ S = UNION {{sent[h][j] : j \in DOMAIN sent[h]} : h \in Hosts}
                  /\ T = UNION {{sent'[h][j] : j \in DOMAIN sent'[h]} : h \in Hosts}
  OBVIOUS
<1>2. S \subseteq T
  BY <1>1 DEF SentGrows
<1>3. /\ Announced(c) = {<<m.cmd, Len(m.payload)>> : m \in {m \in S : m.cid = c}}
      /\ Announced(c)' = {<<m.cmd, Len(m.payload)>> : m \in {m \in T : m.cid = c}}
  BY <1>1 DEF Announced
<1> QED
  BY <1>2, <1>3

\* So is what an event, the table or the returned messages declare.
LEMMA DeclaredStays ==
  ASSUME SentGrows
  PROVE  /\ \A event : EventDeclared(event) => EventDeclared(event)'
         /\ \A c : DeclaredIn(c, Announced(c)) => DeclaredIn(c, Announced(c)')
<1>1. \A c : Announced(c) \subseteq Announced(c)'
  BY AnnouncedGrows
<1>2. ASSUME NEW event, EventDeclared(event)
      PROVE  EventDeclared(event)'
  <2>1. PICK p : p = Parse(event.report)
    OBVIOUS
  <2>2. EventDeclared(event)' <=>
          (event.kind = "output" =>
             (p.kind = "init" => <<p.cmd, p.bcnt>> \in Announced(p.cid)'))
    BY <2>1 DEF EventDeclared
  <2> QED
    BY <1>1, <1>2, <2>1, <2>2 DEF EventDeclared
<1>3. ASSUME NEW c, DeclaredIn(c, Announced(c))
      PROVE  DeclaredIn(c, Announced(c)')
  BY <1>1, <1>3 DEF DeclaredIn
<1> QED
  BY <1>2, <1>3

\* A queue that loses its head, or gains an event that declares something that
\* was sent, declares only what was sent.
LEMMA QueueStaysDeclared ==
  ASSUME queue \in Seq(Events), QueueDeclared, SentGrows,
         \/ UNCHANGED queue
         \/ queue # <<>> /\ queue' = Tail(queue)
         \/ \E event \in Events : Enqueue(event) /\ EventDeclared(event)'
  PROVE  QueueDeclared'
<1>1. PICK E : E = {queue[i] : i \in DOMAIN queue}
  OBVIOUS
<1>2. \A event \in E : EventDeclared(event)'
  BY <1>1, DeclaredStays DEF QueueDeclared
<1>3. ASSUME NEW X, X = {queue'[i] : i \in DOMAIN queue'},
             \A event \in X : EventDeclared(event)'
      PROVE  QueueDeclared'
  BY <1>3 DEF QueueDeclared
<1>4. CASE UNCHANGED queue
  BY <1>1, <1>2, <1>3, <1>4
<1>5. CASE queue # <<>> /\ queue' = Tail(queue)
  <2>1. \A i \in DOMAIN queue' : i + 1 \in DOMAIN queue /\ queue'[i] = queue[i + 1]
    BY <1>5
  <2> QED
    BY <1>1, <1>2, <1>3, <2>1
<1>6. ASSUME NEW event \in Events, Enqueue(event), EventDeclared(event)'
      PROVE  QueueDeclared'
  <2>1. CASE HasRoom
    <3>1. queue' = Append(queue, event)
      BY <1>6, <2>1 DEF Enqueue
    <3>2. \A i \in DOMAIN queue' :
            (i \in DOMAIN queue /\ queue'[i] = queue[i]) \/ queue'[i] = event
      BY <3>1
    <3> QED
      BY <1>1, <1>2, <1>3, <1>6, <3>2
  <2>2. CASE ~HasRoom
    BY <1>4, <1>6, <2>2 DEF Enqueue
  <2> QED
    BY <2>1, <2>2
<1> QED
  BY <1>4, <1>5, <1>6

\* A message that is begun is announced.
LEMMA BeginDeclared ==
  ASSUME DInv, DeclaredInv, NEW h \in Hosts, NEW m \in Message,
         Len(m.payload) <= MaxPayload, StartSending(h, m),
         UNCHANGED <<queue, channels, delivered, chan, got, lost>>,
         waiting' \subseteq Hosts, gaveUp' \subseteq Impatient
  PROVE  DeclaredInv'
<1>1. /\ DOMAIN sending' = DOMAIN sending \cup {h}
      /\ sending'[h] = StartCut(m)
      /\ \A k \in DOMAIN sending \ {h} : sending'[k] = sending[k]
      /\ \A k \in Hosts \ {h} : sent'[k] = sent[k]
      /\ sent'[h] = Append(sent[h], [cid |-> chan[h], cmd |-> m.cmd,
                                     payload |-> m.payload])
  BY StartSends DEF DInv
<1>2. sent \in [Hosts -> Seq(Addressed)] /\ queue \in Seq(Events)
  BY DEF DInv, HostInv
<1>3. SentGrows
  <2>1. SUFFICES ASSUME NEW k \in Hosts, NEW j \in DOMAIN sent[k]
                 PROVE  j \in DOMAIN sent'[k] /\ sent'[k][j] = sent[k][j]
    BY DEF SentGrows
  <2>2. CASE k = h
    BY <1>1, <1>2, <2>2
  <2>3. CASE k # h
    BY <1>1, <2>3
  <2> QED
    BY <2>2, <2>3
<1>4. QueueDeclared'
  BY <1>2, <1>3, QueueStaysDeclared DEF DeclaredInv
<1>5. StartCut(m).first /\ StartCut(m).msg = m
  BY StartProper
<1>6. SendingInProgress'
  BY <1>1, <1>5 DEF SendingInProgress, DeclaredInv, InProgress
<1>7. \A c \in Cids : DeclaredIn(c, Announced(c)')
  BY <1>3, DeclaredStays DEF DeclaredInv
<1>8. \A c \in Cids : DeclaredIn(c, Announced(c))'
  BY <1>7 DEF DeclaredIn
<1> QED
  BY <1>4, <1>6, <1>8 DEF DeclaredInv

\* A packet a host writes declares the message it is of, or nothing.
LEMMA WriteReportDeclared ==
  ASSUME DInv, DeclaredInv, NEW h \in Hosts, WriteReport(h)
  PROVE  DeclaredInv'
<1>1. PICK cid \in Cids :
        /\ cid = sent[h][Len(sent[h])].cid
        /\ Enqueue(OutputEvent(Serialize(CutPacket(sending[h], cid))))
  BY WriteReportFacts
<1>2. /\ UNCHANGED <<channels, delivered, sent>>
      /\ DOMAIN sending' \subseteq DOMAIN sending
      /\ \A k \in DOMAIN sending' :
           \/ k # h /\ sending'[k] = sending[k]
           \/ /\ k = h /\ sending'[k] = CutNext(sending[h])
              /\ ~CutDone(CutNext(sending[h]))
  BY WriteReportFacts
<1>3. h \in DOMAIN sending
  BY DEF WriteReport
<1>4. PICK cut \in ProperCuts : cut = sending[h]
  BY <1>3 DEF DInv, HostInv
<1>5. PICK last : last = Len(sent[h])
  OBVIOUS
<1>6. /\ last \in DOMAIN sent[h] /\ sent[h][last].cmd = cut.msg.cmd
      /\ sent[h][last].payload = cut.msg.payload /\ sent[h][last].cid = cid
  BY <1>1, <1>3, <1>4, <1>5 DEF DInv, HostInv
<1>7. InProgress(cut) /\ Len(cut.msg.payload) <= MaxPayload
  BY <1>3, <1>4 DEF DeclaredInv, SendingInProgress
<1>8. PICK event : event = OutputEvent(Serialize(CutPacket(cut, cid)))
  OBVIOUS
<1>9. event \in Events
  BY <1>8 DEF Events
<1>10. PICK p : p = Parse(Serialize(CutPacket(cut, cid)))
  OBVIOUS
<1>11. p.cid = cid
  BY <1>10, ProperFacts, CutReadable
<1>12. p.kind = "init" => p.cmd = cut.msg.cmd /\ p.bcnt = Len(cut.msg.payload)
  BY <1>7, <1>10, ProperFacts, CutDeclared
<1>13. <<cut.msg.cmd, Len(cut.msg.payload)>> \in Announced(cid)
  BY <1>6, SentAnnounced
<1>14. EventDeclared(event)
  BY <1>8, <1>10, <1>11, <1>12, <1>13 DEF EventDeclared, OutputEvent
<1>15. SentGrows
  BY <1>2 DEF SentGrows
<1>16. EventDeclared(event)'
  BY <1>14, <1>15, DeclaredStays
<1>17. QueueDeclared'
  BY <1>1, <1>4, <1>8, <1>9, <1>15, <1>16, QueueStaysDeclared
     DEF DeclaredInv, DInv, HostInv
<1>18. PICK next : next = CutNext(cut)
  OBVIOUS
<1>19. ASSUME ~CutDone(next)
       PROVE  InProgress(next) /\ next.msg = cut.msg
  BY <1>7, <1>18, <1>19, ProperFacts, NextOffset DEF InProgress
<1>20. SendingInProgress'
  BY <1>2, <1>4, <1>7, <1>18, <1>19 DEF SendingInProgress, DeclaredInv
<1>21. \A c \in Cids : DeclaredIn(c, Announced(c))'
  BY <1>2 DEF DeclaredIn, Announced, DeclaredInv
<1> QED
  BY <1>17, <1>20, <1>21 DEF DeclaredInv

\* What is received is put where it was declared.
LEMMA ReceiveDeclared ==
  ASSUME DInv, DeclaredInv, Receive
  PROVE  DeclaredInv'
<1>1. PICK p : p = Parse(Head(queue).report) /\ Readable(p) /\ HandlePacket(p)
  BY ReceiveFacts
<1>2. /\ queue # <<>> /\ queue' = Tail(queue) /\ UNCHANGED <<sent, sending>>
      /\ Head(queue).kind = "output"
  BY DEF Receive, ReadEvent, hostVars
<1>3. queue \in Seq(Events) /\ ReassemblerTypeOK /\ ReassemblyBounded
  BY DEF DInv, HostInv, DeviceInv
<1>4. QueueDeclared'
  BY <1>2, <1>3, QueueStaysDeclared DEF DeclaredInv, SentGrows
<1>5. SendingInProgress'
  BY <1>2 DEF DeclaredInv, SendingInProgress
<1>6. p.kind = "init" => <<p.cmd, p.bcnt>> \in Announced(p.cid)
  <2>1. 1 \in DOMAIN queue /\ Head(queue) = queue[1]
    BY <1>2, <1>3
  <2>2. EventDeclared(Head(queue))
    BY <2>1 DEF DeclaredInv, QueueDeclared
  <2> QED
    BY <1>1, <1>2, <2>2 DEF EventDeclared
<1>7. p.cid \in Cids
  BY <1>1 DEF Readable, Packet, InitPacket, ContPacket
<1>8. \A c : Announced(c)' = Announced(c)
  BY <1>2 DEF Announced
<1>9. ASSUME NEW c \in Cids
      PROVE  DeclaredIn(c, Announced(c))'
  <2>1. PICK D : D = Announced(c)
    OBVIOUS
  <2>2. DeclaredIn(c, D)
    BY <2>1 DEF DeclaredInv
  <2>3. CASE c = p.cid
    BY <1>1, <1>3, <1>6, <1>8, <2>1, <2>2, <2>3, HandlePacketDeclared DEF DeclaredIn
  <2>4. CASE c # p.cid
    <3>1. /\ c \in DOMAIN channels' <=> c \in DOMAIN channels
          /\ c \in DOMAIN channels => channels'[c] = channels[c]
          /\ delivered'[c] = delivered[c]
      BY <1>1, <1>3, <2>4, HandlePacketOthers
    <3> QED
      BY <1>8, <2>1, <2>2, <3>1 DEF DeclaredIn
  <2> QED
    BY <2>3, <2>4
<1> QED
  BY <1>4, <1>5, <1>9 DEF DeclaredInv

\* The other steps neither send nor deliver.
LEMMA OthersDeclared ==
  ASSUME DInv, DeclaredInv,
         KernelEvent \/ Skip \/ WritePacket \/ Answer \/ Fail \/ UNCHANGED vars
  PROVE  DeclaredInv'
<1>1. UNCHANGED <<channels, delivered, sending, sent>>
  BY DEF KernelEvent, Skip, ReadEvent, WritePacket, Take, Answer, Fail, vars,
         deviceVars, reassemblerVars, hostVars
<1>2. SentGrows
  BY <1>1 DEF SentGrows
<1>3. QueueDeclared'
  <2>1. CASE KernelEvent
    <3>1. OtherEvent \in Events /\ EventDeclared(OtherEvent)'
      BY DEF Events, EventDeclared, OtherEvent
    <3> QED
      BY <1>2, <2>1, <3>1, QueueStaysDeclared DEF KernelEvent, DInv, HostInv, DeclaredInv
  <2>2. CASE Skip
    BY <1>2, <2>2, QueueStaysDeclared DEF Skip, ReadEvent, DInv, HostInv, DeclaredInv
  <2>3. CASE WritePacket \/ Answer \/ Fail \/ UNCHANGED vars
    <3>1. UNCHANGED queue
      BY <2>3 DEF WritePacket, Answer, Fail, vars
    <3> QED
      BY <1>2, <3>1, QueueStaysDeclared DEF DInv, HostInv, DeclaredInv
  <2> QED
    BY <2>1, <2>2, <2>3
<1>4. SendingInProgress'
  BY <1>1 DEF DeclaredInv, SendingInProgress
<1>5. \A c \in Cids : DeclaredIn(c, Announced(c))'
  BY <1>1 DEF DeclaredIn, Announced, DeclaredInv
<1> QED
  BY <1>3, <1>4, <1>5 DEF DeclaredInv

\* DeclaredInv is inductive beside DInv.
LEMMA DeclaredStep ==
  ASSUME RequestsFit, DInv, DeclaredInv, [Next]_vars
  PROVE  DeclaredInv'
<1>1. ASSUME NEW h \in Hosts
      PROVE  /\ \A m \in Requests \cup {InitRequest(h)} :
                  m \in Message /\ Len(m.payload) <= MaxPayload
             /\ CancelMessage \in Message /\ Len(CancelMessage.payload) <= MaxPayload
  <2>1. MaxPayload >= 1
    <3>1. SeqLimit * ContData >= 0
      BY Sizes
    <3> QED
      BY <3>1, Sizes
  <2>2. Len(InitRequest(h).payload) = 1 /\ Len(CancelMessage.payload) = 0
    BY DEF InitRequest, CancelMessage
  <2>3. \A m \in Requests : Len(m.payload) <= MaxPayload
    BY DEF RequestsFit
  <2>4. Len(InitRequest(h).payload) <= MaxPayload
        /\ Len(CancelMessage.payload) <= MaxPayload
    BY <2>1, <2>2, Sizes
  <2>5. \A m \in Requests \cup {InitRequest(h)} : Len(m.payload) <= MaxPayload
    BY <2>3, <2>4
  <2> QED
    BY <2>4, <2>5, RequestType
<1>2. ASSUME NEW h \in Hosts, NEW m \in Requests \cup {InitRequest(h)}, Begin(h, m)
      PROVE  DeclaredInv'
  BY <1>1, <1>2, BeginDeclared DEF Begin, deviceVars, reassemblerVars, DInv, HostInv
<1>3. ASSUME NEW h \in Hosts, GiveUp(h)
      PROVE  DeclaredInv'
  BY <1>1, <1>3, BeginDeclared, DeviceAssumption
     DEF GiveUp, deviceVars, reassemblerVars, DInv, HostInv
<1>4. ASSUME NEW h \in Hosts, WriteReport(h)
      PROVE  DeclaredInv'
  BY <1>4, WriteReportDeclared
<1> QED
  BY <1>2, <1>3, <1>4, ReceiveDeclared, OthersDeclared DEF Next, Loop

\* What was declared by somebody is what SharedChannelDeclared says.
LEMMA DeclaredMessages == DeclaredInv => SharedChannelDeclared
<1> SUFFICES ASSUME DeclaredInv, NEW c \in Cids, NEW i \in DOMAIN delivered[c]
             PROVE  \E h \in Hosts : \E j \in DOMAIN sent[h] :
                      /\ sent[h][j].cid = c
                      /\ sent[h][j].cmd = delivered[c][i].cmd
                      /\ Len(sent[h][j].payload) = Len(delivered[c][i].payload)
  BY DEF SharedChannelDeclared
<1>1. <<delivered[c][i].cmd, Len(delivered[c][i].payload)>> \in Announced(c)
  BY DEF DeclaredInv, DeclaredIn
<1>2. PICK m \in UNION {{sent[h][j] : j \in DOMAIN sent[h]} : h \in Hosts} :
        /\ m.cid = c
        /\ <<delivered[c][i].cmd, Len(delivered[c][i].payload)>> =
             <<m.cmd, Len(m.payload)>>
  BY <1>1 DEF Announced
<1>3. PICK h \in Hosts : m \in {sent[h][j] : j \in DOMAIN sent[h]}
  BY <1>2
<1>4. PICK j \in DOMAIN sent[h] : m = sent[h][j]
  BY <1>3
<1> QED
  BY <1>2, <1>4

\* Nothing is declared at the start.
LEMMA DeclaredInit == Init => DeclaredInv
<1> SUFFICES ASSUME Init PROVE DeclaredInv
  OBVIOUS
<1>1. DOMAIN channels = {} /\ DOMAIN sending = {}
  BY DEF Init, ReassemblerInit, EmptyMap
<1>2. delivered = [c \in Cids |-> <<>>] /\ queue = <<>>
  BY DEF Init, ReassemblerInit
<1> QED
  BY <1>1, <1>2
     DEF DeclaredInv, QueueDeclared, SendingInProgress, DeclaredIn

\* Hosts that share a channel, give up and lose packets can have their messages
\* joined by the reassembler, but never into a command and a length that no
\* host sent on that channel, as long as no host sends more than the sequence
\* numbers can count.
THEOREM DeclaredOnChannel ==
  ASSUME RequestsFit
  PROVE  Spec => []SharedChannelDeclared
<1>1. DInv /\ DeclaredInv /\ [Next]_vars => DeclaredInv'
  BY DeclaredStep
<1> QED
  BY <1>1, DInvAlways, DeclaredInit, DeclaredMessages, PTL DEF Spec

-----------------------------------------------------------------------------
(***************************************************************************)
(* The answers on a channel are in the order of its messages.              *)
(***************************************************************************)

\* There are finitely many messages to answer, and the rank of each is at most
\* their number.
LEMMA RankFacts ==
  ASSUME NEW S, NEW s \in Seq(S)
  PROVE  /\ IsFiniteSet(AskingOf(s)) /\ Cardinality(AskingOf(s)) \in Nat
         /\ \A i \in AskingOf(s) :
              /\ i \in 1 .. Len(s)
              /\ RankOf(s, i) \in 1 .. Cardinality(AskingOf(s))
<1>1. Len(s) \in Nat /\ AskingOf(s) \subseteq 1 .. Len(s)
  BY DEF AskingOf
<1>2. IsFiniteSet(AskingOf(s)) /\ Cardinality(AskingOf(s)) \in Nat
  <2>1. IsFiniteSet(1 .. Len(s))
    BY <1>1, FS_Interval
  <2> QED
    BY <1>1, <2>1, FS_Subset, FS_CardinalityType
<1>3. ASSUME NEW i \in AskingOf(s)
      PROVE  RankOf(s, i) \in 1 .. Cardinality(AskingOf(s))
  <2>1. PICK R : R = {j \in AskingOf(s) : j <= i}
    OBVIOUS
  <2>2. R \subseteq AskingOf(s) /\ i \in R
    BY <1>1, <2>1
  <2>3. IsFiniteSet(R) /\ Cardinality(R) \in Nat
        /\ Cardinality(R) <= Cardinality(AskingOf(s))
    BY <1>2, <2>2, FS_Subset, FS_CardinalityType
  <2>4. Cardinality(R) # 0
    BY <2>2, <2>3, FS_EmptySet
  <2> QED
    BY <1>2, <2>1, <2>3, <2>4 DEF RankOf
<1> QED
  BY <1>1, <1>2, <1>3

\* A new message takes no rank from the ones before it.
LEMMA RankAppend ==
  ASSUME NEW S, NEW s \in Seq(S), NEW a \in S
  PROVE  /\ AskingOf(Append(s, a)) =
              IF NeedsAnswer(a) THEN AskingOf(s) \cup {Len(s) + 1} ELSE AskingOf(s)
         /\ \A i \in AskingOf(s) : /\ RankOf(Append(s, a), i) = RankOf(s, i)
                                   /\ Append(s, a)[i] = s[i]
         /\ NeedsAnswer(a) =>
              /\ Cardinality(AskingOf(Append(s, a))) = Cardinality(AskingOf(s)) + 1
              /\ RankOf(Append(s, a), Len(s) + 1) = Cardinality(AskingOf(s)) + 1
              /\ Append(s, a)[Len(s) + 1] = a
<1>1. PICK t : t = Append(s, a)
  OBVIOUS
<1>2. PICK n \in Nat : n = Len(s)
  OBVIOUS
<1>3. /\ DOMAIN t = 1 .. n + 1 /\ DOMAIN s = 1 .. n
      /\ t[n + 1] = a /\ \A i \in 1 .. n : t[i] = s[i]
  BY <1>1, <1>2
<1>4. AskingOf(t) = IF NeedsAnswer(a) THEN AskingOf(s) \cup {n + 1} ELSE AskingOf(s)
  <2>1. \A i \in 1 .. n + 1 : i = n + 1 \/ i \in 1 .. n
    BY <1>2
  <2>2. \A i \in 1 .. n : i \in 1 .. n + 1 /\ i # n + 1
    BY <1>2
  <2>3. n + 1 \in 1 .. n + 1
    BY <1>2
  <2>4. \A i : i \in AskingOf(t) <=> i \in 1 .. n + 1 /\ NeedsAnswer(t[i])
    BY <1>3 DEF AskingOf
  <2>5. \A i : i \in AskingOf(s) <=> i \in 1 .. n /\ NeedsAnswer(s[i])
    BY <1>3 DEF AskingOf
  <2> QED
    BY <1>3, <2>1, <2>2, <2>3, <2>4, <2>5
<1>5. AskingOf(s) \subseteq 1 .. n
  BY <1>3 DEF AskingOf
<1>6. ASSUME NEW i \in AskingOf(s)
      PROVE  RankOf(t, i) = RankOf(s, i)
  <2>1. i \in 1 .. n /\ ~(n + 1 <= i)
    BY <1>5
  <2>2. {j \in AskingOf(t) : j <= i} = {j \in AskingOf(s) : j <= i}
    BY <1>4, <2>1
  <2> QED
    BY <2>2 DEF RankOf
<1>7. ASSUME NeedsAnswer(a)
      PROVE  /\ Cardinality(AskingOf(t)) = Cardinality(AskingOf(s)) + 1
             /\ RankOf(t, n + 1) = Cardinality(AskingOf(s)) + 1
  <2>1. AskingOf(t) = AskingOf(s) \cup {n + 1} /\ n + 1 \notin AskingOf(s)
    BY <1>4, <1>5, <1>7
  <2>2. IsFiniteSet(AskingOf(s))
    BY RankFacts
  <2>3. Cardinality(AskingOf(t)) = Cardinality(AskingOf(s)) + 1
    BY <2>1, <2>2, FS_AddElement
  <2>4. {j \in AskingOf(t) : j <= n + 1} = AskingOf(t)
    BY <1>5, <2>1
  <2> QED
    BY <2>3, <2>4 DEF RankOf
<1> QED
  BY <1>1, <1>2, <1>3, <1>5, <1>6, <1>7, <1>4

\* A message that is returned joins the others of its channel: it is the only
\* one without an answer if something is sent back for it.
LEMMA OrderReceived ==
  ASSUME NEW S, NEW s \in Seq(S), NEW a \in S, NEW T, NEW t \in Seq(T), Order(s, t, 0)
  PROVE  /\ ~NeedsAnswer(a) => Order(Append(s, a), t, 0)
         /\ NeedsAnswer(a) =>
              /\ Order(Append(s, a), t, 1)
              /\ \A answer : AnswerTo(a, answer) => Pending(Append(s, a), t, answer)
<1>1. PICK u : u = Append(s, a)
  OBVIOUS
<1>2. PICK n \in Nat : n = Len(s)
  OBVIOUS
<1>3. PICK k \in Nat : k = Len(t)
  OBVIOUS
<1>4. /\ AskingOf(u) =
           IF NeedsAnswer(a) THEN AskingOf(s) \cup {n + 1} ELSE AskingOf(s)
      /\ \A i \in AskingOf(s) : RankOf(u, i) = RankOf(s, i) /\ u[i] = s[i]
      /\ NeedsAnswer(a) =>
           /\ Cardinality(AskingOf(u)) = Cardinality(AskingOf(s)) + 1
           /\ RankOf(u, n + 1) = Cardinality(AskingOf(s)) + 1
           /\ u[n + 1] = a
  BY <1>1, <1>2, RankAppend
<1>5. /\ Cardinality(AskingOf(s)) = k
      /\ \A i \in AskingOf(s) :
           /\ RankOf(s, i) \in 1 .. k
           /\ AnswerTo(s[i], t[RankOf(s, i)])
  BY <1>3, RankFacts DEF Order
<1>6. CASE ~NeedsAnswer(a)
  BY <1>1, <1>3, <1>4, <1>5, <1>6 DEF Order
<1>7. CASE NeedsAnswer(a)
  <2>1. Order(u, t, 1)
    BY <1>3, <1>4, <1>5, <1>7 DEF Order
  <2>2. ASSUME NEW answer, AnswerTo(a, answer)
        PROVE  Pending(u, t, answer)
    BY <1>3, <1>4, <1>5, <1>7, <2>2 DEF Pending
  <2> QED
    BY <1>1, <1>7, <2>1, <2>2
<1> QED
  BY <1>6, <1>7

\* The answer to it joins the others.
LEMMA OrderAnswered ==
  ASSUME NEW S, NEW s \in Seq(S), NEW T, NEW t \in Seq(T), NEW answer \in T,
         Order(s, t, 1), Pending(s, t, answer)
  PROVE  Order(s, Append(t, answer), 0)
<1>1. PICK u : u = Append(t, answer)
  OBVIOUS
<1>2. PICK k \in Nat : k = Len(t)
  OBVIOUS
<1>3. Len(u) = k + 1 /\ u[k + 1] = answer /\ \A i \in 1 .. k : u[i] = t[i]
  BY <1>1, <1>2
<1>4. Cardinality(AskingOf(s)) = k + 1
  BY <1>2 DEF Order
<1>5. ASSUME NEW i \in AskingOf(s)
      PROVE  AnswerTo(s[i], u[RankOf(s, i)])
  <2>1. RankOf(s, i) \in 1 .. k + 1
    BY <1>4, RankFacts
  <2>2. CASE RankOf(s, i) = k + 1
    BY <1>2, <1>3, <2>2 DEF Pending
  <2>3. CASE RankOf(s, i) \in 1 .. k
    BY <1>2, <1>3, <2>3 DEF Order
  <2> QED
    BY <2>1, <2>2, <2>3
<1>6. Order(s, u, 0)
  BY <1>3, <1>4, <1>5 DEF Order
<1> QED
  BY <1>1, <1>6

\* Whether something is sent back depends on the command and the payload alone,
\* and so does what.
LEMMA ByContent ==
  ASSUME NEW m, NEW a, a.cmd = m.cmd, a.payload = m.payload
  PROVE  /\ NeedsAnswer(a) <=> NeedsAnswer(m)
         /\ \A answer : AnswerTo(m, answer) => AnswerTo(a, answer)
  BY DEF NeedsAnswer, AnswerTo

\* The commands differ, and none is that of NoMessage.
LEMMA Commands ==
  /\ InitCommand # PingCommand /\ InitCommand # CborCommand
  /\ PingCommand # CborCommand
  /\ NoMessage.cmd = 0 /\ 0 \notin {InitCommand, PingCommand, CborCommand}
  /\ \A m \in Addressed :
       m.cmd \in {InitCommand, PingCommand, CborCommand} => m # NoMessage
<1>1. /\ InitCommand # 0 /\ PingCommand # 0 /\ CborCommand # 0
      /\ InitCommand # PingCommand /\ InitCommand # CborCommand
      /\ PingCommand # CborCommand
  BY Sizes, DeviceAssumption
<1>2. NoMessage.cmd = 0
  BY DEF NoMessage
<1> QED
  BY <1>1, <1>2

\* handle_message answers, prompts for an answer, or ignores what needs none.
LEMMA MessageAnswered ==
  ASSUME NEW m \in Addressed, HandleMessage(m)
  PROVE  \/ ~NeedsAnswer(m) /\ Ignore
         \/ /\ NeedsAnswer(m) /\ phase' = "prompting" /\ current' = m
            /\ m # NoMessage
            /\ \A status \in {OK, OperationDenied} :
                 AnswerTo(m, [cmd |-> CborCommand, payload |-> <<status>>])
         \/ /\ NeedsAnswer(m) /\ phase' = "writing" /\ current'.cid = m.cid
            /\ current' # NoMessage
            /\ AnswerTo(m, [cmd |-> current'.cmd, payload |-> current'.payload])
<1>1. ASSUME NEW cmd, NEW payload, Respond(m.cid, cmd, payload), cmd = m.cmd,
             cmd \in {InitCommand, PingCommand, CborCommand}, NeedsAnswer(m),
             AnswerTo(m, [cmd |-> cmd, payload |-> payload])
      PROVE  /\ NeedsAnswer(m) /\ phase' = "writing" /\ current'.cid = m.cid
             /\ current' # NoMessage
             /\ AnswerTo(m, [cmd |-> current'.cmd, payload |-> current'.payload])
  <2>1. PICK a : a = [cid |-> m.cid, cmd |-> cmd, payload |-> payload]
    OBVIOUS
  <2>2. a.cid = m.cid /\ a.cmd = cmd /\ a.payload = payload /\ current' = a
    BY <1>1, <2>1 DEF Respond
  <2>3. cmd # 0 /\ NoMessage.cmd = 0
    BY <1>1, Commands
  <2> QED
    BY <1>1, <2>2, <2>3 DEF Respond
<1>2. m.payload \in Seq(Byte)
  BY DEF Addressed
<1>3. CASE m.cmd = PingCommand /\ Respond(m.cid, PingCommand, m.payload)
  <2>1. NeedsAnswer(m) /\ AnswerTo(m, [cmd |-> PingCommand, payload |-> m.payload])
    BY <1>3, Commands DEF NeedsAnswer, AnswerTo
  <2> QED
    BY <1>1, <1>3, <2>1
<1>4. CASE m.cmd = InitCommand /\ HandleInit(m)
  <2>1. CASE Len(m.payload) < 1
    <3>1. m.payload = <<>> /\ Ignore
      BY <1>2, <1>4, <2>1 DEF HandleInit
    <3>2. ~NeedsAnswer(m)
      BY <1>4, <3>1, Commands DEF NeedsAnswer
    <3> QED
      BY <3>1, <3>2
  <2>2. CASE ~(Len(m.payload) < 1)
    <3>1. PICK cid \in Cids : Respond(m.cid, InitCommand, <<Head(m.payload), cid>>)
      BY <1>4, <2>2 DEF HandleInit
    <3>2. PICK nonce : nonce = Head(m.payload)
      OBVIOUS
    <3>3. PICK payload : payload = <<nonce, cid>>
      OBVIOUS
    <3>4. Len(payload) = 2 /\ Head(payload) = nonce
      BY <3>3
    <3>5. m.payload # <<>>
      BY <1>2, <2>2
    <3>6. NeedsAnswer(m) /\ AnswerTo(m, [cmd |-> InitCommand, payload |-> payload])
      BY <1>4, <3>2, <3>4, <3>5, Commands DEF NeedsAnswer, AnswerTo
    <3>7. Respond(m.cid, InitCommand, payload)
      BY <3>1, <3>2, <3>3
    <3> QED
      BY <1>1, <1>4, <3>6, <3>7
  <2> QED
    BY <2>1, <2>2
<1>5. CASE m.cmd = CborCommand /\ HandleCbor(m)
  <2>1. PICK Command : Command = IF m.payload = <<>> THEN -1 ELSE Head(m.payload)
    OBVIOUS
  <2>2. {GetInfo, Selection} \subseteq Nat /\ GetInfo # Selection
    BY Sizes, DeviceAssumption
  <2>3. \/ Command = GetInfo /\ Respond(m.cid, CborCommand, <<OK>> \o Info)
        \/ Command = Selection /\ Prompt(m)
        \/ Command \notin {GetInfo, Selection} /\ Ignore
    BY <1>5, <2>1 DEF HandleCbor
  <2>4. CASE Command = GetInfo /\ Respond(m.cid, CborCommand, <<OK>> \o Info)
    <3>1. m.payload # <<>> /\ Head(m.payload) = GetInfo
      BY <2>1, <2>2, <2>4
    <3>2. /\ NeedsAnswer(m)
          /\ AnswerTo(m, [cmd |-> CborCommand, payload |-> <<OK>> \o Info])
      BY <1>5, <3>1, Commands DEF NeedsAnswer, AnswerTo
    <3> QED
      BY <1>1, <1>5, <2>4, <3>2
  <2>5. CASE Command = Selection /\ Prompt(m)
    <3>1. m.payload # <<>> /\ Head(m.payload) = Selection
      BY <2>1, <2>2, <2>5
    <3>2. NeedsAnswer(m)
      BY <1>5, <3>1 DEF NeedsAnswer
    <3>3. \A status \in {OK, OperationDenied} :
            AnswerTo(m, [cmd |-> CborCommand, payload |-> <<status>>])
      BY <1>5, <2>2, <3>1, <3>2, Commands DEF AnswerTo
    <3> QED
      BY <1>5, <2>5, <3>2, <3>3, Commands DEF Prompt
  <2>6. CASE Command \notin {GetInfo, Selection} /\ Ignore
    <3>1. ~NeedsAnswer(m)
      BY <1>5, <2>1, <2>6, Commands DEF NeedsAnswer
    <3> QED
      BY <2>6, <3>1
  <2> QED
    BY <2>3, <2>4, <2>5, <2>6
<1>6. CASE m.cmd \notin {PingCommand, InitCommand, CborCommand} /\ Ignore
  <2>1. ~NeedsAnswer(m)
    BY <1>6 DEF NeedsAnswer
  <2> QED
    BY <1>6, <2>1
<1> QED
  BY <1>3, <1>4, <1>5, <1>6 DEF HandleMessage

\* What is sent back to whom does not change while these do not.
LEMMA OrderStays ==
  ASSUME OrderInv, UNCHANGED <<delivered, answers, current>>,
         phase' = phase \/ phase' = "stopped"
  PROVE  OrderInv'
<1>1. \A c : BusyWith(c)' <=> BusyWith(c)
  BY DEF BusyWith
<1> QED
  BY <1>1 DEF OrderInv

\* A message that is received.
LEMMA ReceiveOrder ==
  ASSUME DInv, OrderInv, Receive
  PROVE  OrderInv'
<1>1. /\ phase = "reading" /\ current = NoMessage /\ UNCHANGED answers
  BY DEF Receive, ReadEvent, OrderInv, answerVars
<1>2. CASE UNCHANGED delivered /\ Ignore
  BY <1>1, <1>2, OrderStays DEF Ignore
<1>3. ASSUME NEW m \in Addressed, m.cid \in Cids,
             delivered' = [delivered EXCEPT ![m.cid] =
                             Append(@, [cmd |-> m.cmd, payload |-> m.payload])],
             HandleMessage(m)
      PROVE  OrderInv'
  <2>1. PICK S, T : /\ S = [cmd : Byte, payload : Seq(Byte)]
                    /\ delivered \in [Cids -> Seq(S)] /\ answers \in [Cids -> Seq(T)]
    BY DEF DInv, DeviceInv, ReassemblerTypeOK, ResponseInv, Side!ReassemblerTypeOK
  <2>2. PICK c \in Cids : c = m.cid
    BY <1>3
  <2>3. PICK a \in S : a = [cmd |-> m.cmd, payload |-> m.payload]
    BY <2>1 DEF Addressed
  <2>4. a.cmd = m.cmd /\ a.payload = m.payload
    BY <2>3
  <2>5. /\ NeedsAnswer(a) <=> NeedsAnswer(m)
        /\ \A answer : AnswerTo(m, answer) => AnswerTo(a, answer)
    BY <2>4, ByContent
  <2>6. PICK s \in Seq(S), t \in Seq(T) : s = delivered[c] /\ t = answers[c]
    BY <2>1
  <2>7. /\ delivered'[c] = Append(s, a) /\ answers'[c] = t
        /\ \A d \in Cids : d # c => delivered'[d] = delivered[d]
    BY <1>1, <1>3, <2>1, <2>2, <2>3, <2>6
  <2>8. \A d \in Cids : Order(delivered[d], answers[d], 0)
    BY <1>1 DEF OrderInv, BusyWith
  <2>9. /\ ~NeedsAnswer(a) => Order(Append(s, a), t, 0)
        /\ NeedsAnswer(a) =>
             /\ Order(Append(s, a), t, 1)
             /\ \A answer : AnswerTo(a, answer) => Pending(Append(s, a), t, answer)
    BY <2>6, <2>8, OrderReceived
  <2>10. CASE ~NeedsAnswer(m) /\ Ignore
    <3>1. \A d : ~BusyWith(d)'
      BY <1>1, <2>10 DEF BusyWith, Ignore
    <3>2. \A d \in Cids : Order(delivered'[d], answers'[d], 0)
      BY <1>1, <2>5, <2>7, <2>8, <2>9, <2>10
    <3> QED
      BY <1>1, <2>10, <3>1, <3>2 DEF OrderInv, Ignore
  <2>11. CASE NeedsAnswer(m) /\ current'.cid = c /\ current' # NoMessage
    <3>1. \A d \in Cids : BusyWith(d)' <=> d = c
      BY <2>11 DEF BusyWith
    <3>2. \A d \in Cids : Order(delivered'[d], answers'[d], IF d = c THEN 1 ELSE 0)
      BY <1>1, <2>5, <2>7, <2>8, <2>9, <2>11
    <3>3. \A answer : AnswerTo(m, answer) =>
            Pending(delivered'[current'.cid], answers'[current'.cid], answer)
      BY <2>5, <2>7, <2>9, <2>11
    <3>4. CASE /\ phase' = "prompting"
               /\ \A status \in {OK, OperationDenied} :
                    AnswerTo(m, [cmd |-> CborCommand, payload |-> <<status>>])
      BY <2>11, <3>1, <3>2, <3>3, <3>4 DEF OrderInv
    <3>5. CASE /\ phase' = "writing"
               /\ AnswerTo(m, [cmd |-> current'.cmd, payload |-> current'.payload])
      BY <2>11, <3>1, <3>2, <3>3, <3>5 DEF OrderInv
    <3> QED
      BY <1>3, <2>2, <2>11, <3>4, <3>5, MessageAnswered
  <2> QED
    BY <1>3, <2>2, <2>10, <2>11, MessageAnswered
<1> QED
  BY <1>2, <1>3, ReceiveFacts

\* The user answers: what is sent back is one of the two that were possible.
LEMMA AnswerOrder ==
  ASSUME DInv, OrderInv, Answer
  PROVE  OrderInv'
<1>1. PICK status \in {OK, OperationDenied} :
        Respond(current.cid, CborCommand, <<status>>)
  BY DEF Answer
<1>2. phase = "prompting" /\ UNCHANGED <<delivered, answers>> /\ current # NoMessage
  BY DEF Answer, reassemblerVars, answerVars, OrderInv
<1>3. PICK payload : payload = <<status>>
  OBVIOUS
<1>4. /\ phase' = "writing"
      /\ current' = [cid |-> current.cid, cmd |-> CborCommand, payload |-> payload]
  BY <1>1, <1>3 DEF Respond
<1>5. current'.cid = current.cid /\ current'.cmd = CborCommand
      /\ current'.payload = payload
  BY <1>4
<1>6. current' # NoMessage
  BY <1>5, Commands
<1>7. \A c : BusyWith(c)' <=> BusyWith(c)
  BY <1>2, <1>5, <1>6 DEF BusyWith
<1>8. Pending(delivered[current.cid], answers[current.cid],
              [cmd |-> CborCommand, payload |-> payload])
  BY <1>2, <1>3 DEF OrderInv
<1> QED
  BY <1>2, <1>4, <1>5, <1>6, <1>7, <1>8 DEF OrderInv

\* A packet of a response, the last of which makes it an answer.
LEMMA WritePacketOrder ==
  ASSUME DInv, OrderInv, WritePacket
  PROVE  OrderInv'
<1>1. phase = "writing" /\ UNCHANGED delivered /\ current # NoMessage
  BY DEF WritePacket, reassemblerVars, OrderInv
<1>2. CASE ~ResponseWritten(response)
  BY <1>1, <1>2, WritePacketFacts, OrderStays
<1>3. CASE ResponseWritten(response)
  <2>1. PICK c \in Cids : c = current.cid
    BY DEF DInv, ResponseInv, Addressed
  <2>2. PICK S, T : /\ T = [cmd : Byte, payload : Seq(Byte)]
                    /\ delivered \in [Cids -> Seq(S)] /\ answers \in [Cids -> Seq(T)]
    BY SameSizes DEF DInv, DeviceInv, ReassemblerTypeOK, ResponseInv, Side!ReassemblerTypeOK
  <2>3. PICK a \in T : a = [cmd |-> current.cmd, payload |-> current.payload]
    BY <2>2 DEF DInv, ResponseInv, Addressed
  <2>4. /\ answers' = [answers EXCEPT ![c] = Append(@, a)]
        /\ phase' = "reading" /\ current' = NoMessage
    BY <1>3, <2>1, <2>3, WritePacketFacts
  <2>5. PICK s \in Seq(S), t \in Seq(T) : s = delivered[c] /\ t = answers[c]
    BY <2>2
  <2>6. Order(s, t, 1) /\ Pending(s, t, a)
    BY <1>1, <2>1, <2>3, <2>5 DEF OrderInv, BusyWith
  <2>7. Order(s, Append(t, a), 0)
    BY <2>6, OrderAnswered
  <2>8. /\ answers'[c] = Append(t, a) /\ delivered'[c] = s
        /\ \A d \in Cids : d # c => answers'[d] = answers[d] /\ delivered'[d] = delivered[d]
    BY <1>1, <2>2, <2>4, <2>5
  <2>9. \A d \in Cids : d # c => Order(delivered[d], answers[d], 0)
    BY <2>1 DEF OrderInv, BusyWith
  <2>10. \A d \in Cids : Order(delivered'[d], answers'[d], 0)
    BY <2>7, <2>8, <2>9
  <2>11. \A d : ~BusyWith(d)'
    BY <2>4 DEF BusyWith
  <2> QED
    BY <2>4, <2>10, <2>11 DEF OrderInv
<1> QED
  BY <1>2, <1>3

\* OrderInv is inductive beside DInv.
LEMMA OrderStep ==
  ASSUME DInv, OrderInv, [Next]_vars
  PROVE  OrderInv'
<1>1. ASSUME \/ KernelEvent \/ Skip \/ Fail \/ UNCHANGED vars
             \/ \E h \in Hosts : \/ \E m \in Requests \cup {InitRequest(h)} : Begin(h, m)
                                 \/ WriteReport(h)
                                 \/ GiveUp(h)
      PROVE  OrderInv'
  <2>1. /\ UNCHANGED <<delivered, answers, current>>
        /\ phase' = phase \/ phase' = "stopped"
    BY <1>1 DEF KernelEvent, Skip, ReadEvent, Fail, Begin, WriteReport, GiveUp, vars,
                deviceVars, reassemblerVars, answerVars
  <2> QED
    BY <2>1, OrderStays
<1> QED
  BY <1>1, ReceiveOrder, AnswerOrder, WritePacketOrder DEF Next, Loop

\* At the start there is nothing to answer.
LEMMA OrderInit == Init => OrderInv
<1> SUFFICES ASSUME Init PROVE OrderInv
  OBVIOUS
<1>1. /\ delivered = [c \in Cids |-> <<>>] /\ answers = [c \in Cids |-> <<>>]
      /\ phase = "reading" /\ current = NoMessage
  BY DEF Init, ReassemblerInit, HostSide!ReassemblerInit
<1>2. AskingOf(<<>>) = {} /\ Cardinality({}) = 0 /\ Len(<<>>) = 0
  BY FS_EmptySet DEF AskingOf
<1>3. \A c \in Cids : Order(delivered[c], answers[c], 0)
  BY <1>1, <1>2 DEF Order
<1> QED
  BY <1>1, <1>3 DEF OrderInv, BusyWith

\* OrderInv says what AnswersInOrder says.
LEMMA OrderedAnswers == OrderInv => AnswersInOrder
<1>1. \A c : /\ Asking(c) = AskingOf(delivered[c])
             /\ \A i : Rank(c, i) = RankOf(delivered[c], i)
  BY DEF Asking, AskingOf, Rank, RankOf
<1> QED
  BY <1>1 DEF OrderInv, Order, AnswersInOrder

\* On every channel the hosts can put together exactly one answer to each message
\* handle_message did not ignore, in their order, whole, on the channel they
\* came on: whatever is dropped, however hosts share channels and give up, and
\* whatever piles up behind a prompt.
THEOREM AnsweredInOrder == Spec => []AnswersInOrder
  BY DInvAlways, OrderInit, OrderStep, OrderedAnswers, PTL DEF Spec

-----------------------------------------------------------------------------
(***************************************************************************)
(* A host that is alone on its channel and waits gets its own answers.     *)
(***************************************************************************)

\* The packet of an event.
PacketOf(event) == Parse(event.report)

\* A packet that asks for a channel with a nonce.
AsksChannel(p) == p.kind = "init" /\ p.cmd = InitCommand /\ p.bcnt # 0

\* An event is a packet that asks for a channel with the nonce o.
Asks(event, o) ==
  /\ event.kind = "output"
  /\ AsksChannel(PacketOf(event))
  /\ PacketOf(event).data[1] = o

\* A packet of a host that has its channel.
OnChannel(event, c) ==
  /\ event.kind = "output"
  /\ PacketOf(event).cid = c
  /\ ~AsksChannel(PacketOf(event))

\* A channel somebody was given.
Owned(c) == \E o \in Hosts : HasChannel(o) /\ chan[o] = c

\* Packets ask for a channel, or are on one that was given to somebody.
EventOwned(event) ==
  event.kind = "output" =>
    IF AsksChannel(PacketOf(event)) THEN PacketOf(event).bcnt = 1
                                    ELSE Owned(PacketOf(event).cid)

\* Whatever is queued or half assembled is of a channel that was given.
OwnedInv ==
  /\ \A event \in {queue[i] : i \in DOMAIN queue} : EventOwned(event)
  /\ \A c \in DOMAIN channels : channels[c].cmd # InitCommand /\ Owned(c)

\* The answer to the INIT of host o is being written.
InitAnswered(o) ==
  /\ phase = "writing" /\ current.cmd = InitCommand
  /\ Head(current.payload) = o

\* Where the INIT of host o is in the queue.
InitQueued(o) == {i \in DOMAIN queue : Asks(queue[i], o)}

\* Host o has not written its INIT yet, or has got the answer.
NotAsking(o) == HasChannel(o) \/ sent[o] = <<>> \/ o \in DOMAIN sending

\* The one INIT of a host is in one place.
OneInit(o) ==
  /\ NotAsking(o) => InitQueued(o) = {} /\ ~InitAnswered(o)
  /\ InitAnswered(o) => InitQueued(o) = {}
  /\ \A i, j \in InitQueued(o) : i = j

\* No INIT is in two places.
AskingInv == \A o \in Hosts : OneInit(o)

\* The payload of the INIT of host o.
NonceOf(payload, o) == Len(payload) = 1 /\ payload[1] = o

\* The request a host sent last.
LastSent(h) == sent[h][Len(sent[h])]

\* What a host sent last, before and after it has its channel.
SentInv ==
  \A o \in Hosts :
    /\ sent[o] = <<>> => o \notin waiting /\ o \notin DOMAIN sending
    /\ ~HasChannel(o) =>
         /\ o \notin gaveUp
         /\ sent[o] # <<>> =>
              /\ LastSent(o).cmd = InitCommand
              /\ NonceOf(LastSent(o).payload, o)
    /\ HasChannel(o) =>
         /\ sent[o] # <<>>
         /\ o \in waiting \cup DOMAIN sending =>
              /\ LastSent(o).cid = chan[o]
              /\ LastSent(o).cmd = InitCommand => LastSent(o).payload = <<>>

\* The part of the invariant about how hosts come by their channels.
ChannelInv == OwnedInv /\ AskingInv /\ SentInv

\* The packets of channel c in the queue.
Own(c) == {i \in DOMAIN queue : OnChannel(queue[i], c)}

\* Nothing of the channel of h is on its way to handle_message.
Quiet(h) ==
  /\ h \notin DOMAIN sending /\ chan[h] \notin DOMAIN channels
  /\ Own(chan[h]) = {}

\* A message of the channel of h is being answered.
Answering(h) ==
  /\ phase = "prompting" \/ (phase = "writing" /\ current.cmd # InitCommand)
  /\ current.cid = chan[h]

\* The answer that is decided or written is one to m.
Answers(m) ==
  /\ phase = "prompting" =>
       \A status \in {OK, OperationDenied} :
         AnswerTo(m, [cmd |-> CborCommand, payload |-> <<status>>])
  /\ phase = "writing" =>
       AnswerTo(m, [cmd |-> current.cmd, payload |-> current.payload])

\* The places of packets and cuts within a message.
Place(p)      == IF p.kind = "init" THEN 0 ELSE p.seq + 1
CutPlace(cut) == IF cut.first THEN 0 ELSE cut.seq + 1

\* A cut of m between two packets.
CutOf(cut, m) ==
  /\ cut \in ProperCuts /\ InProgress(cut)
  /\ cut.msg.cmd = m.cmd /\ cut.msg.payload = m.payload
  /\ Len(cut.msg.payload) <= MaxPayload

PacketIn(p, m, c) ==
  \E cut : CutOf(cut, m) /\ p = Parse(Serialize(CutPacket(cut, c)))

\* Packets of the last message of h are in the queue, in their order, some may
\* be missing; the device's table is not ahead of them.
Underway(h) ==
  LET m == LastSent(h)
      c == chan[h]
  IN  /\ \A i \in Own(c) : PacketIn(PacketOf(queue[i]), m, c)
      /\ \A i, j \in Own(c) :
           i < j => Place(PacketOf(queue[i])) < Place(PacketOf(queue[j]))
      /\ h \in DOMAIN sending =>
           \A i \in Own(c) : Place(PacketOf(queue[i])) < CutPlace(sending[h])
      /\ c \in DOMAIN channels =>
           /\ \E cut : CutOf(cut, m) /\ ~cut.first /\ channels[c] = EntryOf(cut)
           /\ \A i \in Own(c) : channels[c].next_seq < Place(PacketOf(queue[i]))
           /\ h \in DOMAIN sending => channels[c].next_seq < CutPlace(sending[h])

\* Where the last request of such a host is.
Stage(h) ==
  \/ /\ Quiet(h)
     /\ Answering(h) => h \in waiting /\ Answers(LastSent(h))
  \/ /\ h \in waiting /\ ~Answering(h)
     /\ Underway(h)

\* What a host took was for it.
GotOwn(h) ==
  \A k \in DOMAIN got[h] :
    /\ got[h][k].to \in DOMAIN sent[h]
    /\ AnswerTo(sent[h][got[h][k].to], got[h][k].answer)

\* A host alone on its channel has its last request in one stage.
Paired(h) == Alone(h) => (HasChannel(h) => Stage(h)) /\ GotOwn(h)

\* So it is for every host that waits for its answers.
PairedInv == \A h \in Hosts \ gaveUp : Paired(h)

\* What is read of a packet of a cut within the limit.
LEMMA PacketRead ==
  ASSUME NEW cut \in ProperCuts, InProgress(cut), Len(cut.msg.payload) <= MaxPayload,
         NEW c \in Cids, NEW event, event = OutputEvent(Serialize(CutPacket(cut, c))),
         NEW p, p = PacketOf(event)
  PROVE  /\ event.kind = "output" /\ p = Parse(Serialize(CutPacket(cut, c)))
         /\ p.cid = c
         /\ cut.first => /\ p.kind = "init" /\ p.cmd = cut.msg.cmd
                         /\ p.bcnt = Len(cut.msg.payload)
                         /\ p.data = Chunk(cut.msg.payload, 0, InitData)
         /\ ~cut.first => p.kind = "cont" /\ p.seq = cut.seq /\ cut.seq < SeqLimit
         /\ Place(p) = CutPlace(cut)
<1>1. event.kind = "output" /\ event.report = Serialize(CutPacket(cut, c))
  BY DEF OutputEvent
<1>2. PICK q : q = CutPacket(cut, c)
  OBVIOUS
<1>3. p = Parse(Serialize(q))
  BY <1>1, <1>2 DEF PacketOf
<1>4. cut \in AnyCut
  BY ProperFacts
<1>5. CASE cut.first
  <2>1. /\ p = q /\ q.kind = "init" /\ q.cid = c /\ q.cmd = cut.msg.cmd
        /\ q.bcnt = Len(cut.msg.payload) % (Base * Base)
        /\ q.data = Chunk(cut.msg.payload, 0, InitData)
    BY <1>2, <1>3, <1>4, <1>5, FirstPacketFacts
  <2>2. q.bcnt = Len(cut.msg.payload)
    BY <1>4, <2>1, LengthAnnounced
  <2> QED
    BY <1>1, <1>2, <1>3, <1>5, <2>1, <2>2 DEF Place, CutPlace
<1>6. CASE ~cut.first
  <2>1. cut.seq < SeqLimit
    BY <1>4, <1>6, NextOffset, ProperFacts DEF InProgress
  <2>2. p = q /\ q.kind = "cont" /\ q.cid = c /\ q.seq = cut.seq
    BY <1>2, <1>3, <1>4, <1>6, <2>1, LaterPacketFacts
  <2> QED
    BY <1>1, <1>2, <1>3, <1>6, <2>1, <2>2 DEF Place, CutPlace
<1> QED
  BY <1>4, <1>5, <1>6, CutFacts

\* An INIT is one packet with its nonce.
LEMMA InitPacketRead ==
  ASSUME NEW cut \in ProperCuts, InProgress(cut), Len(cut.msg.payload) <= MaxPayload,
         NEW c \in Cids, NEW event, event = OutputEvent(Serialize(CutPacket(cut, c))),
         NEW o, cut.msg.cmd = InitCommand,
         NonceOf(cut.msg.payload, o)
  PROVE  /\ CutDone(CutNext(cut)) /\ PacketOf(event).bcnt = 1
         /\ Asks(event, o) /\ \A k \in Hosts : Asks(event, k) => k = o
<1>1. Len(cut.msg.payload) = 1 /\ cut.msg.payload[1] = o
  BY DEF NonceOf
<1>2. cut.offset \in Nat /\ cut.seq \in Nat /\ cut.first \in BOOLEAN /\ cut \in AnyCut
  BY ProperFacts, CutFacts, Sizes
<1>3. cut.first
  <2>1. SUFFICES ASSUME ~cut.first PROVE FALSE
    BY <1>2
  <2>2. cut.offset = InitData + cut.seq * ContData /\ cut.offset < 1
    BY <1>1, <2>1 DEF InProgress
  <2>3. cut.seq * ContData >= 0
    BY <1>2, Sizes
  <2> QED
    BY <1>2, <2>2, <2>3, Sizes
<1>4. PICK p : p = PacketOf(event)
  OBVIOUS
<1>5. /\ event.kind = "output" /\ p.kind = "init" /\ p.cmd = InitCommand /\ p.bcnt = 1
      /\ p.data = Chunk(cut.msg.payload, 0, InitData)
  <2>2. cut.first => /\ p.kind = "init" /\ p.cmd = cut.msg.cmd
                         /\ p.bcnt = Len(cut.msg.payload)
                         /\ p.data = Chunk(cut.msg.payload, 0, InitData)
    BY <1>4, PacketRead
  <2>3. event.kind = "output"
    BY DEF OutputEvent
  <2>1. /\ event.kind = "output" /\ p.kind = "init" /\ p.cmd = cut.msg.cmd
        /\ p.bcnt = Len(cut.msg.payload)
        /\ p.data = Chunk(cut.msg.payload, 0, InitData)
    BY <1>3, <2>2, <2>3
  <2> QED
    BY <1>1, <2>1
<1>6. p.data[1] = o
  <2>1. 1 \in 1 .. InitData
    BY Sizes
  <2>2. Chunk(cut.msg.payload, 0, InitData)[1] = cut.msg.payload[1]
    BY <1>1, <2>1 DEF Chunk
  <2> QED
    BY <1>1, <1>5, <2>2
<1>7. CutDone(CutNext(cut))
  <2>1. PICK next : next = CutNext(cut)
    OBVIOUS
  <2>2. ~next.first /\ next.msg = cut.msg
        /\ next.offset = cut.offset + MinOf(Len(cut.msg.payload) - cut.offset, InitData)
    BY <1>2, <1>3, <2>1, CutNextFacts, ProperFacts
  <2>3. cut.offset = 0
    BY <1>3, ProperFacts
  <2>4. MinOf(1, InitData) = 1
    BY Sizes DEF MinOf
  <2>5. next.offset = 1 /\ Len(next.msg.payload) = 1
    BY <1>1, <2>2, <2>3, <2>4
  <2>6. CutDone(next)
    <3>1. ~next.first
      BY <2>2
    <3>2. next.offset >= Len(next.msg.payload)
      BY <2>5
    <3> QED
      BY <3>1, <3>2 DEF CutDone
  <2> QED
    BY <2>1, <2>6
<1> QED
  BY <1>4, <1>5, <1>6, <1>7 DEF Asks, AsksChannel

\* No other message of a host asks for a channel.
LEMMA OtherPacketRead ==
  ASSUME NEW cut \in ProperCuts, InProgress(cut), Len(cut.msg.payload) <= MaxPayload,
         NEW c \in Cids, NEW event, event = OutputEvent(Serialize(CutPacket(cut, c))),
         cut.msg.cmd = InitCommand => cut.msg.payload = <<>>
  PROVE  OnChannel(event, c) /\ \A k : ~Asks(event, k)
<1>1. PICK p : p = PacketOf(event)
  OBVIOUS
<1>2. /\ event.kind = "output" /\ p.cid = c /\ cut.first \in BOOLEAN
      /\ cut.first => /\ p.kind = "init" /\ p.cmd = cut.msg.cmd
                      /\ p.bcnt = Len(cut.msg.payload)
      /\ ~cut.first => p.kind = "cont"
  BY <1>1, PacketRead, ProperFacts
<1>3. ~AsksChannel(p)
  BY <1>2 DEF AsksChannel
<1> QED
  BY <1>1, <1>2, <1>3 DEF OnChannel, Asks

\* The queue as it is, without its head, or with one more event.
QueueStep(event) ==
  \/ UNCHANGED queue
  \/ queue # <<>> /\ queue' = Tail(queue)
  \/ Enqueue(event)

\* Where the events of the queue come from.
LEMMA QueueShift ==
  ASSUME queue \in Seq(Events), NEW event, QueueStep(event)
  PROVE  \E d \in {0, 1} : \A i \in DOMAIN queue' :
           /\ i \in Nat
           /\ \/ i + d \in DOMAIN queue /\ queue'[i] = queue[i + d]
              \/ /\ d = 0 /\ queue'[i] = event /\ Enqueue(event)
                 /\ \A j \in DOMAIN queue : j < i
                 /\ i = Len(queue) + 1
<1>1. CASE UNCHANGED queue
  <2>1. \A i \in DOMAIN queue' : i \in Nat /\ i + 0 \in DOMAIN queue /\ queue'[i] = queue[i + 0]
    BY <1>1
  <2> QED
    BY <2>1
<1>2. CASE queue # <<>> /\ queue' = Tail(queue)
  <2>1. \A i \in DOMAIN queue' : i \in Nat /\ i + 1 \in DOMAIN queue /\ queue'[i] = queue[i + 1]
    BY <1>2
  <2> QED
    BY <2>1
<1>3. CASE Enqueue(event) /\ HasRoom
  <2>1. queue' = Append(queue, event)
    BY <1>3 DEF Enqueue
  <2>2. \A i \in DOMAIN queue' :
          /\ i \in Nat
          /\ \/ i + 0 \in DOMAIN queue /\ queue'[i] = queue[i + 0]
             \/ queue'[i] = event /\ i = Len(queue) + 1 /\ \A j \in DOMAIN queue : j < i
    BY <2>1
  <2> QED
    BY <1>3, <2>2
<1>4. CASE Enqueue(event) /\ ~HasRoom
  BY <1>1, <1>4 DEF Enqueue
<1> QED
  BY <1>1, <1>2, <1>3, <1>4 DEF QueueStep

\* A channel once given stays.
ChannelsKept ==
  \A o \in Hosts : HasChannel(o) => HasChannel(o)' /\ chan'[o] = chan[o]

\* What belongs to a channel keeps belonging to it.
LEMMA OwnedStays ==
  ASSUME ChannelsKept
  PROVE  /\ \A c : Owned(c) => Owned(c)'
         /\ \A event : EventOwned(event) => EventOwned(event)'
<1>1. ASSUME NEW c, Owned(c)
      PROVE  Owned(c)'
  <2>1. PICK o \in Hosts : HasChannel(o) /\ chan[o] = c
    BY <1>1 DEF Owned
  <2>2. HasChannel(o)' /\ chan'[o] = c
    BY <2>1 DEF ChannelsKept
  <2> QED
    BY <2>2 DEF Owned
<1>2. ASSUME NEW event, EventOwned(event)
      PROVE  EventOwned(event)'
  <2>1. PICK p : p = PacketOf(event)
    OBVIOUS
  <2>2. EventOwned(event)' <=>
          (event.kind = "output" =>
             IF AsksChannel(p) THEN p.bcnt = 1 ELSE Owned(p.cid)')
    BY <2>1 DEF EventOwned
  <2>3. event.kind = "output" => IF AsksChannel(p) THEN p.bcnt = 1 ELSE Owned(p.cid)
    BY <1>2, <2>1 DEF EventOwned
  <2> QED
    BY <1>1, <2>2, <2>3
<1> QED
  BY <1>1, <1>2

\* The queue stays owned when an owned event joins it.
LEMMA QueueOwned ==
  ASSUME queue \in Seq(Events), OwnedInv, ChannelsKept, NEW event, QueueStep(event),
         Enqueue(event) => EventOwned(event)'
  PROVE  \A e \in {queue'[i] : i \in DOMAIN queue'} : EventOwned(e)'
<1>1. SUFFICES ASSUME NEW i \in DOMAIN queue', NEW e, e = queue'[i]
               PROVE  EventOwned(e)'
  OBVIOUS
<1>2. \/ \E j \in DOMAIN queue : e = queue[j]
      \/ e = event /\ Enqueue(event)
  BY <1>1, QueueShift
<1>3. CASE \E j \in DOMAIN queue : e = queue[j]
  <2>1. EventOwned(e)
    BY <1>3 DEF OwnedInv
  <2> QED
    BY <2>1, OwnedStays
<1> QED
  BY <1>2, <1>3

\* The INIT of a host moves up in the queue.
LEMMA InitQueuedShift ==
  ASSUME queue \in Seq(Events), NEW event, QueueStep(event),
         NEW o, Enqueue(event) => ~Asks(event, o)
  PROVE  \E d \in {0, 1} : \A i \in InitQueued(o)' : i \in Nat /\ i + d \in InitQueued(o)
<1>1. PICK d \in {0, 1} : \A i \in DOMAIN queue' :
        /\ i \in Nat
        /\ \/ i + d \in DOMAIN queue /\ queue'[i] = queue[i + d]
           \/ queue'[i] = event /\ Enqueue(event)
  BY QueueShift
<1>2. InitQueued(o)' = {i \in DOMAIN queue' : Asks(queue'[i], o)}
  BY DEF InitQueued
<1>3. ASSUME NEW i \in InitQueued(o)'
      PROVE  i \in Nat /\ i + d \in InitQueued(o)
  BY <1>1, <1>2, <1>3 DEF InitQueued
<1> QED
  BY <1>3

\* A step in which host o does not ask keeps its one INIT in one place.
LEMMA AskingStays ==
  ASSUME queue \in Seq(Events), AskingInv, NEW event, QueueStep(event),
         NEW o \in Hosts,
         Enqueue(event) => ~Asks(event, o),
         NotAsking(o)' => NotAsking(o),
         InitAnswered(o)' => InitAnswered(o)
  PROVE  OneInit(o)'
<1>1. PICK d \in {0, 1} :
        \A i \in InitQueued(o)' : i \in Nat /\ i + d \in InitQueued(o)
  BY InitQueuedShift
<1>2. /\ NotAsking(o) => InitQueued(o) = {} /\ ~InitAnswered(o)
      /\ InitAnswered(o) => InitQueued(o) = {}
      /\ \A i, j \in InitQueued(o) : i = j
  BY DEF AskingInv, OneInit
<1>3. InitQueued(o) = {} => InitQueued(o)' = {}
  BY <1>1
<1>4. \A i, j \in InitQueued(o)' : i = j
  <2>1. SUFFICES ASSUME NEW i \in InitQueued(o)', NEW j \in InitQueued(o)'
                 PROVE  i = j
    OBVIOUS
  <2>2. i + d = j + d /\ i \in Nat /\ j \in Nat
    BY <1>1, <1>2
  <2> QED
    BY <2>2
<1> QED
  BY <1>2, <1>3, <1>4 DEF OneInit

\* While hosts do nothing, what they sent last stays what it is.
LEMMA HostsIdle ==
  ASSUME UNCHANGED <<chan, sending, waiting, sent, got, gaveUp>>
  PROVE  /\ SentInv => SentInv'
         /\ ChannelsKept
         /\ \A o : NotAsking(o)' <=> NotAsking(o)
  BY DEF SentInv, ChannelsKept, NotAsking, HasChannel, LastSent, NonceOf

\* Steps in which no packet moves.
LEMMA IdleChannel ==
  ASSUME DInv, ChannelInv, KernelEvent \/ Skip \/ Answer \/ Fail \/ UNCHANGED vars
  PROVE  ChannelInv' /\ QueueStep(OtherEvent) /\ UNCHANGED <<channels, hostVars>>
<1>1. UNCHANGED <<channels, hostVars>>
  BY DEF KernelEvent, Skip, ReadEvent, Answer, Fail, vars, deviceVars,
         reassemblerVars, hostVars
<1>2. QueueStep(OtherEvent)
  BY DEF KernelEvent, Skip, ReadEvent, Answer, Fail, vars, QueueStep
<1>3. /\ SentInv' /\ ChannelsKept
      /\ \A o : NotAsking(o)' <=> NotAsking(o)
  BY <1>1, HostsIdle DEF hostVars, ChannelInv
<1>4. OtherEvent.kind # "output"
  BY DEF OtherEvent
<1>5. \A o : InitAnswered(o)' => InitAnswered(o)
  <2>1. CASE Answer
    <3>1. PICK status : Respond(current.cid, CborCommand, <<status>>)
      BY <2>1 DEF Answer
    <3>2. current'.cmd = CborCommand
      BY <3>1 DEF Respond
    <3> QED
      BY <3>2, Commands DEF InitAnswered
  <2>2. CASE KernelEvent \/ Skip \/ Fail \/ UNCHANGED vars
    <3>1. current' = current /\ (phase' = phase \/ phase' = "stopped")
      BY <2>2 DEF KernelEvent, Skip, Fail, vars, deviceVars
    <3> QED
      BY <3>1 DEF InitAnswered
  <2> QED
    BY <2>1, <2>2
<1>6. queue \in Seq(Events) /\ OwnedInv /\ AskingInv
  BY DEF DInv, HostInv, ChannelInv
<1>7. AskingInv'
  BY <1>2, <1>3, <1>4, <1>5, <1>6, AskingStays DEF Asks, AskingInv
<1>8. EventOwned(OtherEvent)'
  BY <1>4 DEF EventOwned
<1>9. \A e \in {queue'[i] : i \in DOMAIN queue'} : EventOwned(e)'
  BY <1>2, <1>3, <1>6, <1>8, QueueOwned
<1>10. OwnedInv'
  BY <1>1, <1>3, <1>6, <1>9, OwnedStays DEF OwnedInv
<1> QED
  BY <1>1, <1>2, <1>3, <1>7, <1>10 DEF ChannelInv

\* A message that is begun: a request on the host's channel, or its one INIT.
Begins(h, m) ==
  /\ StartSending(h, m)
  /\ \/ HasChannel(h) /\ (m.cmd = InitCommand => m.payload = <<>>)
     \/ /\ ~HasChannel(h) /\ sent[h] = <<>> /\ gaveUp' = gaveUp
        /\ m.cmd = InitCommand /\ NonceOf(m.payload, h)
  /\ waiting' \subseteq Hosts /\ waiting' \cup {h} = waiting \cup {h}
  /\ gaveUp' \subseteq Impatient /\ gaveUp' \cup {h} = gaveUp \cup {h}
  /\ gaveUp \subseteq gaveUp'
  /\ UNCHANGED <<channels, delivered, phase, current, queue, chan, got, lost>>

\* Begin and GiveUp do so.
LEMMA BeginsMessage ==
  ASSUME DInv, NEW h \in Hosts
  PROVE  /\ \A m \in Requests \cup {InitRequest(h)} :
              Begin(h, m) => Begins(h, m) /\ m \in Message
         /\ GiveUp(h) => Begins(h, CancelMessage) /\ CancelMessage \in Message
<1>1. /\ \A m \in Requests \cup {InitRequest(h)} : m \in Message
      /\ CancelMessage \in Message
  BY RequestType
<1>2. waiting \in SUBSET Hosts /\ gaveUp \in SUBSET Impatient
  BY DEF DInv, HostInv
<1>3. ASSUME NEW m \in Requests \cup {InitRequest(h)}, Begin(h, m)
      PROVE  Begins(h, m)
  <2>1. /\ StartSending(h, m) /\ waiting' = waiting \cup {h}
        /\ UNCHANGED <<channels, delivered, phase, current, queue, chan, got, lost, gaveUp>>
    BY <1>3 DEF Begin, deviceVars, reassemblerVars
  <2>2. CASE HasChannel(h)
    <3>1. m \in Requests
      BY <1>3, <2>2 DEF Begin
    <3>2. m.cmd = InitCommand => m.payload = <<>>
      BY <3>1, DeviceAssumption
    <3> QED
      BY <1>2, <2>1, <2>2, <3>2 DEF Begins
  <2>3. CASE ~HasChannel(h)
    <3>1. m = InitRequest(h) /\ sent[h] = <<>>
      BY <1>3, <2>3 DEF Begin
    <3>2. m.cmd = InitCommand /\ NonceOf(m.payload, h)
      BY <3>1 DEF InitRequest, NonceOf
    <3> QED
      BY <1>2, <2>1, <2>3, <3>1, <3>2 DEF Begins
  <2> QED
    BY <2>2, <2>3
<1>4. ASSUME GiveUp(h)
      PROVE  Begins(h, CancelMessage)
  <2>1. /\ StartSending(h, CancelMessage) /\ waiting' = waiting \ {h}
        /\ gaveUp' = gaveUp \cup {h} /\ HasChannel(h) /\ h \in Impatient
        /\ UNCHANGED <<channels, delivered, phase, current, queue, chan, got, lost>>
    BY <1>4 DEF GiveUp, deviceVars, reassemblerVars
  <2>2. CancelMessage.payload = <<>>
    BY DEF CancelMessage
  <2> QED
    BY <1>2, <2>1, <2>2 DEF Begins
<1> QED
  BY <1>1, <1>3, <1>4

\* What a host has sent when it begins a message.
LEMMA BeginsFacts ==
  ASSUME DInv, NEW h \in Hosts, NEW m \in Message, Begins(h, m)
  PROVE  /\ DOMAIN sending' = DOMAIN sending \cup {h}
         /\ sending'[h] = StartCut(m)
         /\ \A o \in DOMAIN sending \ {h} : sending'[o] = sending[o]
         /\ \A o \in Hosts \ {h} : sent'[o] = sent[o]
         /\ sent'[h] # <<>> /\ LastSent(h)'.cid = chan[h]
         /\ LastSent(h)'.cmd = m.cmd /\ LastSent(h)'.payload = m.payload
         /\ \A j \in DOMAIN sent[h] : j \in DOMAIN sent'[h] /\ sent'[h][j] = sent[h][j]
         /\ Len(sent'[h]) = Len(sent[h]) + 1
<1>1. PICK a : a = [cid |-> chan[h], cmd |-> m.cmd, payload |-> m.payload]
  OBVIOUS
<1>2. a.cid = chan[h] /\ a.cmd = m.cmd /\ a.payload = m.payload
  BY <1>1
<1>3. /\ DOMAIN sending' = DOMAIN sending \cup {h}
      /\ sending'[h] = StartCut(m)
      /\ \A k \in DOMAIN sending \ {h} : sending'[k] = sending[k]
      /\ \A k \in Hosts \ {h} : sent'[k] = sent[k]
      /\ sent'[h] = Append(sent[h], a)
  BY <1>1, StartSends DEF DInv, Begins
<1>4. sent[h] \in Seq(Addressed)
  BY DEF DInv, HostInv
<1>5. /\ sent'[h] # <<>> /\ sent'[h][Len(sent'[h])] = a
      /\ \A j \in DOMAIN sent[h] : j \in DOMAIN sent'[h] /\ sent'[h][j] = sent[h][j]
      /\ Len(sent'[h]) = Len(sent[h]) + 1
  BY <1>3, <1>4
<1>6. LastSent(h)' = a
  BY <1>5 DEF LastSent
<1> QED
  BY <1>2, <1>3, <1>5, <1>6

\* Beginning a message moves no packet.
LEMMA BeginsChannel ==
  ASSUME DInv, ChannelInv, NEW h \in Hosts, NEW m \in Message, Begins(h, m)
  PROVE  ChannelInv'
<1>1. /\ DOMAIN sending' = DOMAIN sending \cup {h}
      /\ \A o \in Hosts \ {h} : sent'[o] = sent[o]
      /\ sent'[h] # <<>> /\ LastSent(h)'.cid = chan[h]
      /\ LastSent(h)'.cmd = m.cmd /\ LastSent(h)'.payload = m.payload
  BY BeginsFacts
<1>2. /\ UNCHANGED <<channels, phase, current, queue, chan, got>>
      /\ \A o : HasChannel(o)' <=> HasChannel(o)
  BY DEF Begins, HasChannel
<1>3. ChannelsKept
  BY <1>2 DEF ChannelsKept
<1>5. queue \in Seq(Events) /\ OwnedInv /\ AskingInv /\ SentInv
  BY DEF DInv, HostInv, ChannelInv
<1>6. OwnedInv'
  BY <1>2, <1>3, <1>5, OwnedStays DEF OwnedInv
<1>7. ASSUME NEW o \in Hosts
      PROVE  /\ NotAsking(o)' => NotAsking(o)
             /\ InitAnswered(o)' <=> InitAnswered(o)
             /\ InitQueued(o)' = InitQueued(o)
  <2>1. NotAsking(o)' => NotAsking(o)
    <3>1. CASE o = h
      BY <1>2, <3>1 DEF NotAsking, Begins
    <3>2. CASE o # h
      BY <1>1, <1>2, <3>2 DEF NotAsking
    <3> QED
      BY <3>1, <3>2
  <2> QED
    BY <1>2, <2>1 DEF InitAnswered, InitQueued
<1>8. AskingInv'
  BY <1>5, <1>7 DEF AskingInv, OneInit
<1>9. ASSUME NEW o \in Hosts
      PROVE  /\ sent'[o] = <<>> => o \notin waiting' /\ o \notin DOMAIN sending'
             /\ ~HasChannel(o)' =>
                  /\ o \notin gaveUp'
                  /\ sent'[o] # <<>> =>
                       /\ LastSent(o)'.cmd = InitCommand
                       /\ NonceOf(LastSent(o)'.payload, o)
             /\ HasChannel(o)' =>
                  /\ sent'[o] # <<>>
                  /\ o \in waiting' \cup DOMAIN sending' =>
                       /\ LastSent(o)'.cid = chan'[o]
                       /\ LastSent(o)'.cmd = InitCommand => LastSent(o)'.payload = <<>>
  <2>1. CASE o = h
    BY <1>1, <1>2, <1>5, <2>1 DEF Begins, SentInv
  <2>2. CASE o # h
    <3>1. /\ sent'[o] = sent[o] /\ LastSent(o)' = LastSent(o)
          /\ o \in waiting' => o \in waiting
          /\ o \in DOMAIN sending' <=> o \in DOMAIN sending
          /\ o \in gaveUp' => o \in gaveUp
      BY <1>1, <2>2 DEF Begins, LastSent
    <3> QED
      BY <1>2, <1>5, <3>1 DEF SentInv
  <2> QED
    BY <2>1, <2>2
<1>10. SentInv'
  BY <1>9 DEF SentInv, NonceOf
<1> QED
  BY <1>6, <1>8, <1>10 DEF ChannelInv

-----------------------------------------------------------------------------

\* What the next packet of host h is: of the message it sent last, on its channel,
\* or its one INIT.
Written(h, event, cut, next) ==
  /\ cut \in ProperCuts /\ cut = sending[h] /\ next = CutNext(cut)
  /\ event \in Events /\ event.kind = "output" /\ Enqueue(event)
  /\ h \in DOMAIN sending /\ CutOf(cut, LastSent(h))
  /\ HasChannel(h) =>
       /\ OnChannel(event, chan[h]) /\ \A k : ~Asks(event, k)
       /\ PacketIn(PacketOf(event), LastSent(h), chan[h])
       /\ Place(PacketOf(event)) = CutPlace(cut)
  /\ ~HasChannel(h) =>
       /\ CutDone(next) /\ PacketOf(event).bcnt = 1
       /\ Asks(event, h) /\ \A k \in Hosts : Asks(event, k) => k = h
  /\ DOMAIN sending' = IF CutDone(next) THEN DOMAIN sending \ {h} ELSE DOMAIN sending
  /\ ~CutDone(next) =>
       sending'[h] = next /\ CutPlace(next) = CutPlace(cut) + 1
  /\ \A o \in DOMAIN sending \ {h} : sending'[o] = sending[o]
  /\ UNCHANGED <<channels, delivered, phase, current, chan, waiting, sent, got, gaveUp>>

\* Every WriteReport of a host is one.
LEMMA WrittenPacket ==
  ASSUME DInv, DeclaredInv, ChannelInv, NEW h \in Hosts, WriteReport(h)
  PROVE  \E event, cut, next : Written(h, event, cut, next)
<1>1. PICK cid \in Cids :
        /\ cid = sent[h][Len(sent[h])].cid
        /\ Enqueue(OutputEvent(Serialize(CutPacket(sending[h], cid))))
  BY WriteReportFacts
<1>2. h \in DOMAIN sending
  BY DEF WriteReport
<1>3. PICK cut \in ProperCuts : cut = sending[h]
  BY <1>2 DEF DInv, HostInv
<1>4. PICK next : next = CutNext(cut)
  OBVIOUS
<1>5. PICK event : event = OutputEvent(Serialize(CutPacket(cut, cid)))
  OBVIOUS
<1>6. event \in Events /\ Enqueue(event) /\ event.kind = "output"
  BY <1>1, <1>3, <1>5 DEF Events, OutputEvent
<1>7. PICK m : m = LastSent(h)
  OBVIOUS
<1>8. /\ cut.msg.cmd = m.cmd /\ cut.msg.payload = m.payload /\ m.cid = cid
      /\ InProgress(cut) /\ Len(cut.msg.payload) <= MaxPayload
  BY <1>1, <1>2, <1>3, <1>7 DEF DInv, HostInv, LastSent, DeclaredInv, SendingInProgress
<1>9. CutOf(cut, m)
  BY <1>8 DEF CutOf
<1>10. ASSUME HasChannel(h)
       PROVE  /\ OnChannel(event, chan[h]) /\ \A k : ~Asks(event, k)
              /\ PacketIn(PacketOf(event), m, chan[h])
              /\ Place(PacketOf(event)) = CutPlace(cut)
  <2>1. m.cid = chan[h] /\ (m.cmd = InitCommand => m.payload = <<>>)
    BY <1>2, <1>7, <1>10 DEF ChannelInv, SentInv
  <2>2. PICK p : p = PacketOf(event)
    OBVIOUS
  <2>3. p = Parse(Serialize(CutPacket(cut, cid))) /\ Place(p) = CutPlace(cut)
    BY <1>5, <1>8, <2>2, PacketRead
  <2>4. OnChannel(event, cid) /\ \A k : ~Asks(event, k)
    BY <1>5, <1>8, <2>1, OtherPacketRead
  <2>5. cid = chan[h]
    BY <1>8, <2>1
  <2>6. PacketIn(p, m, cid)
    BY <1>9, <2>3 DEF PacketIn
  <2> QED
    BY <2>2, <2>3, <2>4, <2>5, <2>6
<1>11. ASSUME ~HasChannel(h)
       PROVE  /\ CutDone(next) /\ PacketOf(event).bcnt = 1
              /\ Asks(event, h) /\ \A k \in Hosts : Asks(event, k) => k = h
  <2>1. sent[h] # <<>>
    BY <1>2 DEF ChannelInv, SentInv
  <2>2. m.cmd = InitCommand /\ NonceOf(m.payload, h)
    BY <1>7, <1>11, <2>1 DEF ChannelInv, SentInv
  <2>3. cut.msg.cmd = InitCommand /\ NonceOf(cut.msg.payload, h)
    BY <1>8, <2>2
  <2> QED
    BY <1>4, <1>5, <1>8, <2>3, InitPacketRead
<1>12. /\ sending' = IF CutDone(next) THEN Remove(sending, h) ELSE Put(sending, h, next)
       /\ UNCHANGED <<channels, delivered, phase, current, chan, waiting, sent, got, gaveUp>>
  BY <1>3, <1>4 DEF WriteReport, deviceVars, reassemblerVars
<1>13. /\ DOMAIN sending' = IF CutDone(next) THEN DOMAIN sending \ {h} ELSE DOMAIN sending
       /\ ~CutDone(next) => sending'[h] = next
       /\ \A o \in DOMAIN sending \ {h} : sending'[o] = sending[o]
  <2>1. CASE CutDone(next)
    BY <1>2, <1>12, <2>1 DEF Remove
  <2>2. CASE ~CutDone(next)
    <3>1. sending' = Put(sending, h, next)
      BY <1>12, <2>2
    <3>2. /\ DOMAIN sending' = DOMAIN sending \cup {h}
          /\ sending'[h] = next
          /\ \A k \in DOMAIN sending : k # h => sending'[k] = sending[k]
      BY <3>1 DEF Put
    <3>3. DOMAIN sending \cup {h} = DOMAIN sending
      BY <1>2
    <3> QED
      BY <2>2, <3>2, <3>3
  <2> QED
    BY <2>1, <2>2
<1>14. ~CutDone(next) => CutPlace(next) = CutPlace(cut) + 1
  <2>1. cut \in AnyCut /\ ~next.first /\ cut.first \in BOOLEAN /\ cut.seq \in Nat
    BY <1>4, ProperFacts, CutFacts, Sizes
  <2>2. ~CutDone(next) => next.seq = IF cut.first THEN 0 ELSE cut.seq + 1
    BY <1>4, <1>8, ProperFacts, NextOffset DEF InProgress
  <2> QED
    BY <2>1, <2>2 DEF CutPlace
<1>15. /\ CutOf(cut, LastSent(h))
       /\ HasChannel(h) => PacketIn(PacketOf(event), LastSent(h), chan[h])
  BY <1>7, <1>9, <1>10
<1>16. HasChannel(h) =>
         /\ OnChannel(event, chan[h]) /\ \A k : ~Asks(event, k)
         /\ PacketIn(PacketOf(event), LastSent(h), chan[h])
         /\ Place(PacketOf(event)) = CutPlace(cut)
  BY <1>10, <1>15
<1>17. ~HasChannel(h) =>
         /\ CutDone(next) /\ PacketOf(event).bcnt = 1
         /\ Asks(event, h) /\ \A k \in Hosts : Asks(event, k) => k = h
  BY <1>11
<1>18. Written(h, event, cut, next)
  BY <1>2, <1>3, <1>4, <1>6, <1>12, <1>13, <1>14, <1>15, <1>16, <1>17 DEF Written
<1> QED
  BY <1>18

\* The packets of hosts with a channel are on it, and INIT is asked once.
LEMMA WriteReportChannel ==
  ASSUME DInv, DeclaredInv, ChannelInv, NEW h \in Hosts, WriteReport(h)
  PROVE  ChannelInv'
<1>1. PICK event, cut, next : Written(h, event, cut, next)
  BY WrittenPacket
<1>2. /\ UNCHANGED <<channels, phase, current, chan, waiting, sent, got, gaveUp>>
      /\ DOMAIN sending' \subseteq DOMAIN sending
      /\ h \in DOMAIN sending
      /\ Enqueue(event)
  BY <1>1 DEF Written
<1>3. QueueStep(event) /\ queue \in Seq(Events)
  BY <1>2 DEF QueueStep, DInv, HostInv
<1>4. OwnedInv /\ AskingInv /\ SentInv
  BY DEF ChannelInv
<1>5. \A o : HasChannel(o)' <=> HasChannel(o)
  BY <1>2 DEF HasChannel
<1>6. ChannelsKept
  BY <1>2, <1>5 DEF ChannelsKept
<1>7. EventOwned(event)
  <2>1. CASE HasChannel(h)
    <3>1. OnChannel(event, chan[h])
      BY <1>1, <2>1 DEF Written
    <3> QED
      BY <2>1, <3>1 DEF OnChannel, EventOwned, Owned
  <2>2. CASE ~HasChannel(h)
    <3>1. PacketOf(event).bcnt = 1 /\ Asks(event, h)
      BY <1>1, <2>2 DEF Written
    <3> QED
      BY <3>1 DEF Asks, EventOwned
  <2> QED
    BY <2>1, <2>2
<1>8. OwnedInv'
  <2>1. EventOwned(event)'
    BY <1>6, <1>7, OwnedStays
  <2>2. \A e \in {queue'[i] : i \in DOMAIN queue'} : EventOwned(e)'
    BY <1>3, <1>4, <1>6, <2>1, QueueOwned
  <2> QED
    BY <1>2, <1>4, <1>6, <2>2, OwnedStays DEF OwnedInv
<1>9. ASSUME NEW o \in Hosts
      PROVE  OneInit(o)'
  <2>1. NotAsking(o)' => NotAsking(o)
    BY <1>2, <1>5 DEF NotAsking
  <2>2. InitAnswered(o)' <=> InitAnswered(o)
    BY <1>2 DEF InitAnswered
  <2>3. CASE ~Asks(event, o)
    BY <1>3, <1>4, <2>1, <2>2, <2>3, AskingStays
  <2>4. CASE Asks(event, o)
    <3>1. ~HasChannel(h) /\ o = h
      BY <1>1, <2>4 DEF Written
    <3>2. NotAsking(h) /\ h \notin DOMAIN sending' /\ sent[h] # <<>>
      BY <1>1, <1>2, <1>4, <3>1 DEF Written, NotAsking, SentInv
    <3>3. InitQueued(h) = {} /\ ~InitAnswered(h) /\ ~NotAsking(h)'
      BY <1>2, <1>4, <1>5, <3>1, <3>2 DEF AskingInv, OneInit, NotAsking
    <3>4. \A i \in InitQueued(h)' : i = Len(queue) + 1
      <4>1. SUFFICES ASSUME NEW i \in DOMAIN queue', Asks(queue'[i], h)
                     PROVE  i = Len(queue) + 1
        BY DEF InitQueued
      <4>2. HasRoom
        BY <1>2, <3>3, <4>1 DEF Enqueue, InitQueued
      <4>3. queue' = Append(queue, event)
        BY <1>2, <4>2 DEF Enqueue
      <4>4. i = Len(queue) + 1 \/ (i \in DOMAIN queue /\ queue'[i] = queue[i])
        BY <1>3, <4>1, <4>3
      <4> QED
        BY <3>3, <4>1, <4>4 DEF InitQueued
    <3> QED
      BY <2>2, <3>1, <3>3, <3>4 DEF OneInit
  <2> QED
    BY <2>3, <2>4
<1>10. SentInv'
  BY <1>2, <1>4, <1>5 DEF SentInv, LastSent, NonceOf
<1> QED
  BY <1>8, <1>9, <1>10 DEF ChannelInv, AskingInv

\* What Receive hands to handle_message: INIT with a nonce only from a packet
\* that asks.
Received(event, p) ==
  /\ queue # <<>> /\ event = Head(queue) /\ queue' = Tail(queue)
  /\ event.kind = "output" /\ p = PacketOf(event)
  /\ Readable(p) /\ p.cid \in Cids /\ HandlePacket(p) /\ EventOwned(event)
  /\ phase = "reading" /\ UNCHANGED hostVars

\* A packet makes no message, or one that is handled.
Outcome(p) ==
  \/ UNCHANGED delivered /\ Ignore
  \/ \E m \in Addressed :
       /\ m.cid = p.cid
       /\ delivered' = [delivered EXCEPT ![m.cid] =
            Append(@, [cmd |-> m.cmd, payload |-> m.payload])]
       /\ HandleMessage(m)

\* What Receive takes from the queue: it is ignored or handled as one message.
LEMMA ReceivedPacket ==
  ASSUME DInv, ChannelInv, Receive
  PROVE  \E event, p : Received(event, p) /\ Outcome(p)
<1>1. PICK event : event = Head(queue)
  OBVIOUS
<1>2. PICK p :
        /\ p = Parse(Head(queue).report)
        /\ Readable(p) /\ HandlePacket(p)
        /\ \/ UNCHANGED delivered /\ Ignore
           \/ \E m \in Addressed :
                /\ m.cid = p.cid /\ m.cid \in Cids
                /\ Len(m.payload) <= MaxPayload
                /\ delivered' = [delivered EXCEPT ![m.cid] =
                     Append(@, [cmd |-> m.cmd, payload |-> m.payload])]
                /\ HandleMessage(m)
  BY ReceiveFacts
<1>3. /\ queue # <<>> /\ queue' = Tail(queue) /\ event.kind = "output"
      /\ phase = "reading" /\ UNCHANGED hostVars
  BY <1>1 DEF Receive, ReadEvent
<1>4. p = PacketOf(event)
  BY <1>1, <1>2 DEF PacketOf
<1>5. event \in {queue[i] : i \in DOMAIN queue}
  BY <1>1, <1>3 DEF DInv, HostInv
<1>6. EventOwned(event)
  BY <1>5 DEF ChannelInv, OwnedInv
<1>7. p.cid \in Cids
  BY <1>2 DEF Readable, Packet, InitPacket, ContPacket
<1>8. Received(event, p)
  BY <1>1, <1>2, <1>3, <1>4, <1>6, <1>7 DEF Received
<1> QED
  BY <1>2, <1>8 DEF Outcome

\* The table has messages of channels that were given, and never INIT.
LEMMA TableOwned ==
  ASSUME DInv, ChannelInv, NEW event, NEW p, Received(event, p), NEW c \in DOMAIN channels'
  PROVE  channels'[c].cmd # InitCommand /\ Owned(c)
<1>1. /\ \A d \in DOMAIN channels : channels[d].cmd # InitCommand /\ Owned(d)
      /\ IF AsksChannel(p) THEN p.bcnt = 1 ELSE Owned(p.cid)
      /\ HandlePacket(p)
  BY DEF Received, EventOwned, ChannelInv, OwnedInv
<1>2. \A d \in DOMAIN channels : channels[d] \in IncompleteMessage
  BY DEF DInv, DeviceInv, ReassemblerTypeOK
<1>3. CASE SinglePacket(p) \/ StrayPacket(p)
  BY <1>1, <1>3 DEF SinglePacket, StrayPacket, reassemblerVars
<1>4. CASE FirstPacket(p)
  <2>1. PICK e : e = [cmd |-> p.cmd, bcnt |-> p.bcnt, payload |-> p.data, next_seq |-> 0]
    OBVIOUS
  <2>2. channels' = Put(channels, p.cid, e) /\ e.cmd = p.cmd
    BY <1>4, <2>1 DEF FirstPacket
  <2>3. p.kind = "init" /\ p.bcnt # 0 /\ p.bcnt # 1
    BY <1>4, Sizes DEF FirstPacket, FitsInOnePacket
  <2>4. p.cmd # InitCommand /\ Owned(p.cid)
    BY <1>1, <2>3 DEF AsksChannel
  <2> QED
    BY <1>1, <2>2, <2>4 DEF Put
<1>5. CASE OutOfOrder(p) \/ LastPacket(p)
  BY <1>1, <1>5 DEF OutOfOrder, LastPacket, Remove
<1>6. CASE MiddlePacket(p)
  <2>1. p.cid \in DOMAIN channels
    BY <1>6 DEF MiddlePacket
  <2>2. PICK e : /\ channels' = Put(channels, p.cid, e)
                 /\ e = [channels[p.cid] EXCEPT !.payload = Extended(channels[p.cid], p),
                                                !.next_seq = (@ + 1) % Base]
    BY <1>6 DEF MiddlePacket
  <2>3. e.cmd = channels[p.cid].cmd
    BY <1>2, <2>1, <2>2 DEF IncompleteMessage
  <2>4. /\ DOMAIN channels' = DOMAIN channels \cup {p.cid}
        /\ channels'[p.cid] = e
        /\ \A d \in DOMAIN channels \ {p.cid} : channels'[d] = channels[d]
    BY <2>2 DEF Put
  <2> QED
    BY <1>1, <2>1, <2>3, <2>4
<1> QED
  BY <1>1, <1>3, <1>4, <1>5, <1>6 DEF HandlePacket

\* What is returned is one message.
LEMMA OneReturned ==
  ASSUME DInv, NEW c \in Cids, NEW cmd, NEW payload, NEW cmd2, NEW payload2,
         Return(c, cmd, payload), Return(c, cmd2, payload2)
  PROVE  cmd = cmd2 /\ payload = payload2 /\ delivered' # delivered
<1>1. PICK S : delivered \in [Cids -> Seq(S)]
  BY DEF DInv, DeviceInv, ReassemblerTypeOK
<1>2. PICK a, b : a = [cmd |-> cmd2, payload |-> payload2]
                  /\ b = [cmd |-> cmd, payload |-> payload]
  OBVIOUS
<1>3. PICK n \in Nat : n = Len(delivered[c]) + 1
  BY <1>1
<1>4. delivered'[c][n] = a /\ Len(delivered'[c]) = n
  BY <1>1, <1>2, <1>3 DEF Return
<1>5. delivered'[c][n] = b
  BY <1>1, <1>2, <1>3 DEF Return
<1>6. a.cmd = cmd2 /\ a.payload = payload2 /\ b.cmd = cmd /\ b.payload = payload
  BY <1>2
<1>7. a = b
  BY <1>4, <1>5
<1>8. delivered' # delivered
  BY <1>1, <1>3, <1>4
<1> QED
  BY <1>6, <1>7, <1>8

\* A message that is returned has the command and the payload of a packet, or of
\* the table.
LEMMA ReturnedInit ==
  ASSUME DInv, ChannelInv, NEW event, NEW p, Received(event, p),
         NEW m \in Addressed, m.cid = p.cid,
         delivered' = [delivered EXCEPT ![m.cid] =
           Append(@, [cmd |-> m.cmd, payload |-> m.payload])],
         m.cmd = InitCommand, m.payload # <<>>
  PROVE  Asks(event, Head(m.payload))
<1>1. PICK c \in Cids : c = p.cid /\ c = m.cid
  BY DEF Received
<1>2. PICK S : delivered \in [Cids -> Seq(S)]
  BY DEF DInv, DeviceInv, ReassemblerTypeOK
<1>3. ASSUME NEW cmd, NEW payload, Return(c, cmd, payload)
      PROVE  cmd = m.cmd /\ payload = m.payload
  <2>1. Return(c, m.cmd, m.payload)
    BY <1>1 DEF Return
  <2> QED
    BY <1>3, <2>1, OneReturned
<1>4. delivered' # delivered
  <2>1. Len(delivered'[c]) = Len(delivered[c]) + 1 /\ Len(delivered[c]) \in Nat
    BY <1>1, <1>2
  <2> QED
    BY <2>1
<1>5. CASE SinglePacket(p)
  <2>1. /\ p.cmd = m.cmd /\ SubSeq(p.data, 1, p.bcnt) = m.payload
        /\ p.kind = "init" /\ p.bcnt <= InitData
    BY <1>1, <1>3, <1>5 DEF SinglePacket, FitsInOnePacket
  <2>2. p \in InitPacket(Cids)
    BY <2>1 DEF Received, Readable, Packet, ContPacket
  <2>3. p.bcnt \in Nat /\ p.data \in Bytes(InitData)
    BY <2>2, Sizes DEF InitPacket
  <2>4. p.data \in Seq(Byte) /\ Len(p.data) = InitData
    BY <2>3, Sizes, BytesSeq
  <2>5. p.bcnt # 0
    BY <2>1, <2>4
  <2>6. AsksChannel(p)
    BY <2>1, <2>5 DEF AsksChannel
  <2>7. Head(m.payload) = p.data[1]
    BY <2>1, <2>3, <2>4, <2>5, Sizes
  <2> QED
    BY <2>6, <2>7 DEF Asks, Received
<1>6. CASE LastPacket(p)
  <2>1. c \in DOMAIN channels /\ channels[c].cmd = m.cmd
    BY <1>1, <1>3, <1>6 DEF LastPacket
  <2> QED
    BY <2>1 DEF ChannelInv, OwnedInv
<1> QED
  BY <1>4, <1>5, <1>6
     DEF Received, HandlePacket, FirstPacket, StrayPacket, OutOfOrder, MiddlePacket,
         reassemblerVars

\* An INIT that is answered has left the queue.
LEMMA ReceiveChannel ==
  ASSUME DInv, ChannelInv, Receive
  PROVE  ChannelInv'
<1>1. PICK event, p : Received(event, p) /\ Outcome(p)
  BY ReceivedPacket
<1>2. /\ UNCHANGED <<chan, sending, waiting, sent, got, gaveUp>>
      /\ phase = "reading" /\ queue # <<>> /\ queue' = Tail(queue)
      /\ event = Head(queue)
  BY <1>1 DEF Received, hostVars
<1>3. SentInv' /\ ChannelsKept /\ \A o : NotAsking(o)' <=> NotAsking(o)
  BY <1>2, HostsIdle DEF ChannelInv
<1>4. OwnedInv /\ AskingInv /\ queue \in Seq(Events) /\ QueueStep(OtherEvent)
  BY <1>2 DEF ChannelInv, DInv, HostInv, QueueStep
<1>5. ~Enqueue(OtherEvent)
  BY <1>2, <1>4 DEF Enqueue
<1>6. OwnedInv'
  <2>1. \A e \in {queue'[i] : i \in DOMAIN queue'} : EventOwned(e)'
    BY <1>3, <1>4, <1>5, QueueOwned
  <2>2. \A c \in DOMAIN channels' : channels'[c].cmd # InitCommand /\ Owned(c)
    BY <1>1, TableOwned
  <2> QED
    BY <1>3, <2>1, <2>2, OwnedStays DEF OwnedInv
<1>7. ASSUME NEW o \in Hosts, InitAnswered(o)'
      PROVE  Asks(event, o)
  <2>1. phase' = "writing" /\ current'.cmd = InitCommand /\ Head(current'.payload) = o
    BY <1>7 DEF InitAnswered
  <2>2. PICK m \in Addressed :
          /\ m.cid = p.cid
          /\ delivered' = [delivered EXCEPT ![m.cid] =
               Append(@, [cmd |-> m.cmd, payload |-> m.payload])]
          /\ HandleMessage(m)
    BY <1>1, <1>2, <2>1 DEF Ignore, Outcome
  <2>3. AnswerTo(m, [cmd |-> current'.cmd, payload |-> current'.payload])
    BY <1>2, <2>1, <2>2, MessageAnswered DEF Ignore
  <2>4. PICK answer : answer = [cmd |-> current'.cmd, payload |-> current'.payload]
    OBVIOUS
  <2>5. answer.cmd = InitCommand /\ Head(answer.payload) = o /\ AnswerTo(m, answer)
    BY <2>1, <2>3, <2>4
  <2>6. m.cmd = InitCommand /\ m.payload # <<>> /\ Head(m.payload) = o
    BY <2>5, Commands DEF AnswerTo, NeedsAnswer
  <2> QED
    BY <1>1, <2>2, <2>6, ReturnedInit
<1>8. ASSUME NEW o \in Hosts
      PROVE  OneInit(o)'
  <2>1. CASE ~InitAnswered(o)'
    BY <1>3, <1>4, <1>5, <2>1, AskingStays
  <2>2. CASE InitAnswered(o)'
    <3>1. 1 \in InitQueued(o)
      BY <1>2, <1>4, <1>7, <2>2 DEF InitQueued
    <3>2. ~NotAsking(o) /\ \A i \in InitQueued(o) : i = 1
      BY <1>4, <3>1 DEF AskingInv, OneInit
    <3>3. InitQueued(o)' = {}
      <4>1. SUFFICES ASSUME NEW i \in InitQueued(o)' PROVE FALSE
        OBVIOUS
      <4>2. i \in DOMAIN queue' /\ Asks(queue'[i], o)
        BY <4>1 DEF InitQueued
      <4>3. i \in Nat /\ i # 0 /\ i + 1 \in DOMAIN queue /\ queue'[i] = queue[i + 1]
        BY <1>2, <1>4, <4>2
      <4>4. i + 1 = 1
        BY <3>2, <4>2, <4>3 DEF InitQueued
      <4> QED
        BY <4>3, <4>4
    <3> QED
      BY <1>3, <3>2, <3>3 DEF OneInit
  <2> QED
    BY <2>1, <2>2
<1> QED
  BY <1>3, <1>6, <1>8 DEF ChannelInv, AskingInv

\* What a host makes of the answer that was written: it takes one to its last
\* request on its channel, or the one to its INIT, which gives it a channel.
Heard(o) ==
  IF Takes(o, current)
  THEN /\ o \in waiting /\ waiting' = waiting' \ {o} /\ sent[o] # <<>>
       /\ LastSent(o).cid = current.cid /\ LastSent(o).cmd = current.cmd
       /\ HasChannel(o)'
       /\ got'[o] = Append(got[o], [to |-> Len(sent[o]), answer |-> current])
       /\ HasChannel(o) => /\ current.cmd # InitCommand
                           /\ chan'[o] = chan[o] /\ chan[o] = current.cid
       /\ ~HasChannel(o) => InitAnswered(o) /\ chan'[o] = current.payload[2]
  ELSE /\ o \in waiting' <=> o \in waiting
       /\ got'[o] = got[o] /\ chan'[o] = chan[o]
       /\ HasChannel(o)' <=> HasChannel(o)

\* The last packet of a response is heard by every host, as Heard says.
LEMMA HeardAnswer ==
  ASSUME DInv, ChannelInv, WritePacket, ResponseWritten(response)
  PROVE  /\ phase = "writing" /\ phase' = "reading" /\ current' = NoMessage
         /\ UNCHANGED <<channels, delivered, queue, sending, sent, gaveUp, lost>>
         /\ \A o \in Hosts : Heard(o)
<1>1. current \in Addressed
  BY DEF DInv, ResponseInv
<1>2. current = [cid |-> current.cid, cmd |-> current.cmd, payload |-> current.payload]
  BY <1>1 DEF Addressed
<1>3. Take(current) /\ phase' = "reading" /\ current' = NoMessage
  BY <1>2, WritePacketFacts
<1>4. phase = "writing" /\ UNCHANGED <<channels, delivered, queue>>
  BY DEF WritePacket, reassemblerVars
<1>5. PICK takers : takers = {h \in Hosts : Takes(h, current)}
  OBVIOUS
<1>6. /\ waiting' = waiting \ takers
      /\ got' = [h \in Hosts |->
                   IF h \in takers
                   THEN Append(got[h], [to |-> Len(sent[h]), answer |-> current])
                   ELSE got[h]]
      /\ chan' = [h \in Hosts |->
                    IF h \in takers /\ current.cmd = InitCommand
                    THEN current.payload[2] ELSE chan[h]]
      /\ UNCHANGED <<sending, sent, gaveUp, lost>>
  BY <1>3, <1>5 DEF Take
<1>7. ASSUME NEW o \in Hosts, Takes(o, current)
      PROVE  Heard(o)
  <2>1. o \in takers /\ o \in waiting
    BY <1>5, <1>7 DEF Takes
  <2>2. sent[o] # <<>> /\ (HasChannel(o) => LastSent(o).cid = chan[o])
    BY <2>1 DEF ChannelInv, SentInv
  <2>3. /\ LastSent(o).cid = current.cid /\ LastSent(o).cmd = current.cmd
        /\ LastSent(o).cmd = InitCommand => Head(current.payload) = o
    BY <1>7 DEF Takes, Seqs!Last, LastSent
  <2>4. PICK g : g = [to |-> Len(sent[o]), answer |-> current]
    OBVIOUS
  <2>5. PICK G : G = [to : Nat, answer : Addressed]
    OBVIOUS
  <2>6. got[o] \in Seq(G)
    BY <2>5 DEF DInv, HostInv
  <2>7. got'[o] = Append(got[o], g) /\ got'[o] # <<>>
    BY <1>6, <2>1, <2>4, <2>6
  <2>8. HasChannel(o)'
    BY <2>7 DEF HasChannel
  <2>9. current.cmd = InitCommand => InitAnswered(o)
    BY <1>4, <2>3 DEF InitAnswered
  <2>10. HasChannel(o) => current.cmd # InitCommand
    BY <2>9 DEF ChannelInv, AskingInv, OneInit, NotAsking
  <2>11. ~HasChannel(o) => current.cmd = InitCommand
    BY <2>2, <2>3 DEF ChannelInv, SentInv
  <2>12. chan'[o] = IF current.cmd = InitCommand THEN current.payload[2] ELSE chan[o]
    BY <1>6, <2>1
  <2>13. waiting' = waiting' \ {o}
    BY <1>6, <2>1
  <2> QED
    BY <1>7, <2>1, <2>2, <2>3, <2>4, <2>7, <2>8, <2>9, <2>10, <2>11, <2>12, <2>13 DEF Heard
<1>8. ASSUME NEW o \in Hosts, ~Takes(o, current)
      PROVE  Heard(o)
  <2>1. o \notin takers
    BY <1>5, <1>8
  <2>2. (o \in waiting' <=> o \in waiting) /\ got'[o] = got[o] /\ chan'[o] = chan[o]
    BY <1>6, <2>1
  <2> QED
    BY <1>8, <2>2 DEF Heard, HasChannel
<1> QED
  BY <1>3, <1>4, <1>6, <1>7, <1>8

\* An answer gives channels, and changes nothing of who owns what else.
LEMMA WritePacketChannel ==
  ASSUME DInv, ChannelInv, WritePacket
  PROVE  ChannelInv'
<1>1. OwnedInv /\ AskingInv /\ SentInv /\ UNCHANGED <<channels, queue>>
  BY DEF ChannelInv, WritePacket, reassemblerVars
<1>2. CASE ~ResponseWritten(response)
  <2>1. UNCHANGED <<chan, sending, waiting, sent, got, gaveUp, phase, current>>
    BY <1>2, WritePacketFacts DEF hostVars
  <2>2. SentInv' /\ ChannelsKept /\ \A o : NotAsking(o)' <=> NotAsking(o)
    BY <1>1, <2>1, HostsIdle
  <2>3. OwnedInv'
    BY <1>1, <2>2, OwnedStays DEF OwnedInv
  <2>4. AskingInv'
    BY <1>1, <2>1, <2>2 DEF AskingInv, OneInit, InitQueued, InitAnswered
  <2> QED
    BY <2>2, <2>3, <2>4 DEF ChannelInv
<1>3. CASE ResponseWritten(response)
  <2>1. /\ phase' = "reading" /\ UNCHANGED <<sending, sent, gaveUp>>
        /\ \A o \in Hosts : Heard(o)
    BY <1>3, HeardAnswer
  <2>2. ChannelsKept
    BY <2>1 DEF Heard, ChannelsKept
  <2>3. OwnedInv'
    BY <1>1, <2>2, OwnedStays DEF OwnedInv
  <2>4. ASSUME NEW o \in Hosts
        PROVE  OneInit(o)'
    <3>1. ~InitAnswered(o)' /\ InitQueued(o)' = InitQueued(o)
      BY <1>1, <2>1 DEF InitAnswered, InitQueued
    <3>2. NotAsking(o)' => NotAsking(o) \/ InitAnswered(o)
      BY <2>1 DEF NotAsking, Heard
    <3> QED
      BY <1>1, <3>1, <3>2 DEF AskingInv, OneInit
  <2>5. ASSUME NEW o \in Hosts
        PROVE  /\ sent'[o] = <<>> => o \notin waiting' /\ o \notin DOMAIN sending'
               /\ ~HasChannel(o)' =>
                    /\ o \notin gaveUp'
                    /\ sent'[o] # <<>> =>
                         /\ LastSent(o)'.cmd = InitCommand
                         /\ NonceOf(LastSent(o)'.payload, o)
               /\ HasChannel(o)' =>
                    /\ sent'[o] # <<>>
                    /\ o \in waiting' \cup DOMAIN sending' =>
                         /\ LastSent(o)'.cid = chan'[o]
                         /\ LastSent(o)'.cmd = InitCommand => LastSent(o)'.payload = <<>>
    <3>1. LastSent(o)' = LastSent(o) /\ Heard(o)
      BY <2>1 DEF LastSent
    <3>2. CASE ~Takes(o, current)
      BY <1>1, <2>1, <3>1, <3>2 DEF Heard, SentInv
    <3>3. CASE Takes(o, current) /\ HasChannel(o)
      BY <1>1, <2>1, <3>1, <3>3 DEF Heard, SentInv
    <3>4. CASE Takes(o, current) /\ ~HasChannel(o)
      <4>1. InitAnswered(o) /\ o \notin waiting' /\ HasChannel(o)' /\ sent[o] # <<>>
        BY <3>1, <3>4 DEF Heard
      <4>2. o \notin DOMAIN sending
        BY <1>1, <4>1 DEF AskingInv, OneInit, NotAsking
      <4> QED
        BY <2>1, <4>1, <4>2
    <3> QED
      BY <3>2, <3>3, <3>4
  <2>6. SentInv'
    BY <2>5 DEF SentInv, NonceOf
  <2> QED
    BY <2>3, <2>4, <2>6 DEF ChannelInv, AskingInv
<1> QED
  BY <1>2, <1>3

-----------------------------------------------------------------------------

\* Who is alone was alone before.
LEMMA AloneBefore ==
  ASSUME ChannelsKept, NEW h \in Hosts, Alone(h)'
  PROVE  Alone(h)
<1>1. SUFFICES ASSUME NEW o \in Hosts \ {h}, HasChannel(o), HasChannel(h)
               PROVE  chan[o] # chan[h]
  BY DEF Alone
<1>2. /\ HasChannel(o)' /\ chan'[o] = chan[o]
      /\ HasChannel(h)' /\ chan'[h] = chan[h]
  BY <1>1 DEF ChannelsKept
<1>3. chan'[o] # chan'[h]
  BY <1>1, <1>2 DEF Alone
<1> QED
  BY <1>2, <1>3

\* The packets of a channel move up in the queue.
LEMMA OwnShift ==
  ASSUME queue \in Seq(Events), NEW event, QueueStep(event), NEW c,
         Enqueue(event) => ~OnChannel(event, c)
  PROVE  \E d \in {0, 1} : \A i \in Own(c)' :
           i \in Nat /\ i + d \in Own(c) /\ queue'[i] = queue[i + d]
<1>1. PICK d \in {0, 1} : \A i \in DOMAIN queue' :
        /\ i \in Nat
        /\ \/ i + d \in DOMAIN queue /\ queue'[i] = queue[i + d]
           \/ queue'[i] = event /\ Enqueue(event)
  BY QueueShift
<1>2. Own(c)' = {i \in DOMAIN queue' : OnChannel(queue'[i], c)}
  BY DEF Own
<1>3. ASSUME NEW i \in Own(c)'
      PROVE  i \in Nat /\ i + d \in Own(c) /\ queue'[i] = queue[i + d]
  BY <1>1, <1>2, <1>3 DEF Own
<1> QED
  BY <1>3

\* A step that does nothing with host h and its channel.
Elsewhere(h) ==
  /\ chan'[h] = chan[h] /\ sent'[h] = sent[h]
  /\ h \in waiting' <=> h \in waiting
  /\ h \in DOMAIN sending' <=> h \in DOMAIN sending
  /\ h \in DOMAIN sending => sending'[h] = sending[h]
  /\ chan[h] \in DOMAIN channels' <=> chan[h] \in DOMAIN channels
  /\ chan[h] \in DOMAIN channels => channels'[chan[h]] = channels[chan[h]]
  /\ Answering(h)' => Answering(h)
  /\ Answering(h)' => (Answers(LastSent(h)) => Answers(LastSent(h))')

\* What is written or prompted for as an answer to a message stays one.
AnswerKept(h) == Answering(h)' => \A m : Answers(m) => Answers(m)'

\* A request stays in its stage while the step is elsewhere.
LEMMA StageStays ==
  ASSUME queue \in Seq(Events), NEW h \in Hosts, Stage(h), Elsewhere(h),
         NEW event, QueueStep(event), Enqueue(event) => ~OnChannel(event, chan[h])
  PROVE  Stage(h)'
<1>1. PICK c, m : c = chan[h] /\ m = LastSent(h)
  OBVIOUS
<1>2. chan'[h] = c /\ LastSent(h)' = m
  BY <1>1 DEF Elsewhere, LastSent
<1>3. PICK d \in {0, 1} : \A i \in Own(c)' :
        i \in Nat /\ i + d \in Own(c) /\ queue'[i] = queue[i + d]
  BY <1>1, OwnShift
<1>4. CASE Quiet(h) /\ (Answering(h) => h \in waiting /\ Answers(LastSent(h)))
  <2>1. Own(c) = {}
    BY <1>1, <1>4 DEF Quiet
  <2>2. Own(c)' = {}
    BY <1>3, <2>1
  <2>3. h \notin DOMAIN sending' /\ c \notin DOMAIN channels'
    BY <1>1, <1>4 DEF Elsewhere, Quiet
  <2>4. Quiet(h)'
    BY <1>2, <2>2, <2>3 DEF Quiet, Own
  <2>5. Answering(h)' => h \in waiting' /\ Answers(LastSent(h))'
    BY <1>4 DEF Elsewhere
  <2> QED
    BY <2>4, <2>5 DEF Stage
<1>5. CASE h \in waiting /\ ~Answering(h) /\ Underway(h)
  <2>1. h \in waiting' /\ ~Answering(h)'
    BY <1>5 DEF Elsewhere
  <2>2. /\ \A i \in Own(c) : PacketIn(PacketOf(queue[i]), m, c)
        /\ \A i, j \in Own(c) :
             i < j => Place(PacketOf(queue[i])) < Place(PacketOf(queue[j]))
        /\ h \in DOMAIN sending =>
             \A i \in Own(c) : Place(PacketOf(queue[i])) < CutPlace(sending[h])
        /\ c \in DOMAIN channels =>
             /\ \E cut : CutOf(cut, m) /\ ~cut.first /\ channels[c] = EntryOf(cut)
             /\ \A i \in Own(c) : channels[c].next_seq < Place(PacketOf(queue[i]))
             /\ h \in DOMAIN sending => channels[c].next_seq < CutPlace(sending[h])
    BY <1>1, <1>5 DEF Underway
  <2>3. \A i \in Own(c)' : /\ PacketIn(PacketOf(queue'[i]), m, c)
                           /\ h \in DOMAIN sending =>
                                Place(PacketOf(queue'[i])) < CutPlace(sending[h])
                           /\ c \in DOMAIN channels =>
                                channels[c].next_seq < Place(PacketOf(queue'[i]))
    BY <1>3, <2>2
  <2>4. ASSUME NEW i \in Own(c)', NEW j \in Own(c)', i < j
        PROVE  Place(PacketOf(queue'[i])) < Place(PacketOf(queue'[j]))
    <3>1. /\ i \in Nat /\ i + d \in Own(c) /\ queue'[i] = queue[i + d]
          /\ j \in Nat /\ j + d \in Own(c) /\ queue'[j] = queue[j + d]
      BY <1>3
    <3>2. i + d < j + d
      BY <2>4, <3>1
    <3> QED
      BY <2>2, <3>1, <3>2
  <2>5. /\ h \in DOMAIN sending' => h \in DOMAIN sending /\ sending'[h] = sending[h]
        /\ c \in DOMAIN channels' => c \in DOMAIN channels /\ channels'[c] = channels[c]
    BY <1>1 DEF Elsewhere
  <2>6. /\ \A i \in Own(c)' : PacketIn(PacketOf(queue'[i]), m, c)
        /\ \A i, j \in Own(c)' :
             i < j => Place(PacketOf(queue'[i])) < Place(PacketOf(queue'[j]))
        /\ h \in DOMAIN sending' =>
             \A i \in Own(c)' : Place(PacketOf(queue'[i])) < CutPlace(sending'[h])
        /\ c \in DOMAIN channels' =>
             /\ \E cut : CutOf(cut, m) /\ ~cut.first /\ channels'[c] = EntryOf(cut)
             /\ \A i \in Own(c)' : channels'[c].next_seq < Place(PacketOf(queue'[i]))
             /\ h \in DOMAIN sending' => channels'[c].next_seq < CutPlace(sending'[h])
    BY <2>2, <2>3, <2>4, <2>5
  <2>7. Underway(h)'
    BY <1>2, <2>6 DEF Underway, Own
  <2> QED
    BY <2>1, <2>7 DEF Stage
<1> QED
  BY <1>4, <1>5 DEF Stage

\* What was taken stays what it is while more is sent.
LEMMA GotStays ==
  ASSUME NEW h \in Hosts, GotOwn(h), got'[h] = got[h],
         \A j \in DOMAIN sent[h] : j \in DOMAIN sent'[h] /\ sent'[h][j] = sent[h][j]
  PROVE  GotOwn(h)'
  BY DEF GotOwn

\* Nor is its pairing disturbed, whoever is alone then.
LEMMA PairedStays ==
  ASSUME queue \in Seq(Events), ChannelsKept, NEW h \in Hosts, Paired(h),
         got'[h] = got[h], sent'[h] = sent[h],
         NEW event, QueueStep(event),
         Alone(h) /\ HasChannel(h) =>
           Elsewhere(h) /\ (Enqueue(event) => ~OnChannel(event, chan[h]))
  PROVE  Paired(h)'
<1>1. SUFFICES ASSUME Alone(h)'
               PROVE  (HasChannel(h)' => Stage(h)') /\ GotOwn(h)'
  BY DEF Paired
<1>2. Alone(h) /\ (HasChannel(h)' <=> HasChannel(h))
  BY <1>1, AloneBefore DEF HasChannel
<1>3. GotOwn(h)'
  BY <1>2, GotStays DEF Paired
<1>4. HasChannel(h) => Stage(h)'
  BY <1>2, StageStays DEF Paired
<1> QED
  BY <1>2, <1>3, <1>4

\* Steps in which no packet moves are elsewhere.
LEMMA IdleElsewhere ==
  ASSUME DInv, ChannelInv, KernelEvent \/ Skip \/ Answer \/ Fail \/ UNCHANGED vars,
         NEW h \in Hosts
  PROVE  /\ Elsewhere(h) /\ AnswerKept(h)
         /\ got'[h] = got[h] /\ sent'[h] = sent[h] /\ lost' = lost
<1>1. UNCHANGED <<channels, hostVars>>
  BY IdleChannel
<1>2. /\ Answering(h)' => Answering(h)
      /\ AnswerKept(h)
  <2>1. chan'[h] = chan[h] /\ LastSent(h)' = LastSent(h)
    BY <1>1 DEF hostVars, LastSent
  <2>2. CASE Answer
    <3>1. PICK status \in {OK, OperationDenied} :
            Respond(current.cid, CborCommand, <<status>>)
      BY <2>2 DEF Answer
    <3>2. PICK payload : payload = <<status>>
      OBVIOUS
    <3>3. /\ phase = "prompting" /\ phase' = "writing"
          /\ current'.cid = current.cid /\ current'.cmd = CborCommand
          /\ current'.payload = payload
      BY <2>2, <3>1, <3>2 DEF Answer, Respond
    <3>4. Answering(h)' => Answering(h)
      BY <2>1, <3>3 DEF Answering
    <3>5. ASSUME NEW m, Answers(m)
          PROVE  Answers(m)'
      <4>1. AnswerTo(m, [cmd |-> CborCommand, payload |-> payload])
        BY <3>2, <3>3, <3>5 DEF Answers
      <4> QED
        BY <3>3, <4>1 DEF Answers
    <3> QED
      BY <3>4, <3>5 DEF AnswerKept
  <2>3. CASE Fail
    <3>1. ~Answering(h)'
      BY <2>3 DEF Fail, Answering
    <3> QED
      BY <3>1 DEF AnswerKept
  <2>4. CASE KernelEvent \/ Skip \/ UNCHANGED vars
    <3>1. UNCHANGED <<phase, current>>
      BY <2>4 DEF KernelEvent, Skip, vars, deviceVars
    <3> QED
      BY <2>1, <3>1 DEF Answering, Answers, AnswerKept
  <2> QED
    BY <2>2, <2>3, <2>4
<1>3. LastSent(h)' = LastSent(h)
  BY <1>1 DEF hostVars, LastSent
<1>4. Answering(h)' => (Answers(LastSent(h)) => Answers(LastSent(h))')
  <2>1. PICK m : m = LastSent(h)
    OBVIOUS
  <2>2. Answers(LastSent(h))' <=> Answers(m)'
    BY <1>3, <2>1 DEF Answers
  <2> QED
    BY <1>2, <2>1, <2>2 DEF AnswerKept
<1> QED
  BY <1>1, <1>2, <1>4 DEF Elsewhere, hostVars

\* Steps in which no packet moves disturb no pairing.
LEMMA IdlePaired ==
  ASSUME DInv, ChannelInv, KernelEvent \/ Skip \/ Answer \/ Fail \/ UNCHANGED vars,
         NEW h \in Hosts, Paired(h)
  PROVE  Paired(h)'
<1>1. QueueStep(OtherEvent) /\ UNCHANGED <<channels, hostVars>>
  BY IdleChannel
<1>2. ~OnChannel(OtherEvent, chan[h])
  BY DEF OtherEvent, OnChannel
<1>3. ChannelsKept /\ queue \in Seq(Events)
  BY <1>1, HostsIdle DEF hostVars, DInv, HostInv
<1> QED
  BY <1>1, <1>2, <1>3, IdleElsewhere, PairedStays

\* A message that is begun is elsewhere for the other hosts.
LEMMA BeginElsewhere ==
  ASSUME DInv, NEW o \in Hosts, NEW m \in Message, Begins(o, m),
         NEW h \in Hosts \ {o}
  PROVE  Elsewhere(h) /\ AnswerKept(h) /\ sent'[h] = sent[h]
<1>1. /\ DOMAIN sending' = DOMAIN sending \cup {o}
      /\ \A k \in DOMAIN sending \ {o} : sending'[k] = sending[k]
      /\ \A k \in Hosts \ {o} : sent'[k] = sent[k]
  BY BeginsFacts
<1>2. UNCHANGED <<channels, phase, current, queue, chan, got>>
  BY DEF Begins
<1>3. h \in waiting' <=> h \in waiting
  BY DEF Begins
<1>4. sent'[h] = sent[h] /\ LastSent(h)' = LastSent(h)
  BY <1>1 DEF LastSent
<1>5. /\ h \in DOMAIN sending' <=> h \in DOMAIN sending
      /\ h \in DOMAIN sending => sending'[h] = sending[h]
  BY <1>1
<1>6. Answering(h)' <=> Answering(h)
  BY <1>2 DEF Answering
<1>7. AnswerKept(h)
  BY <1>2 DEF AnswerKept, Answers
<1>8. Answers(LastSent(h))' <=> Answers(LastSent(h))
  BY <1>2, <1>4 DEF Answers
<1> QED
  BY <1>2, <1>3, <1>4, <1>5, <1>6, <1>7, <1>8 DEF Elsewhere

\* A host that begins has nothing on its way.
LEMMA BeginPaired ==
  ASSUME DInv, ChannelInv, PairedInv, NEW o \in Hosts, NEW m \in Message, Begins(o, m),
         o \in gaveUp' \/ (waiting' = waiting \cup {o} /\ o \notin waiting),
         NEW h \in Hosts \ gaveUp'
  PROVE  Paired(h)'
<1>1. \A j \in DOMAIN sent[o] : j \in DOMAIN sent'[o] /\ sent'[o][j] = sent[o][j]
  BY BeginsFacts
<1>2. /\ UNCHANGED <<channels, phase, current, queue, chan, got>>
      /\ \A k : HasChannel(k)' <=> HasChannel(k)
      /\ queue \in Seq(Events)
  BY DEF Begins, HasChannel, DInv, HostInv
<1>3. ChannelsKept
  BY <1>2 DEF ChannelsKept
<1>4. h \notin gaveUp /\ Paired(h)
  BY DEF Begins, PairedInv
<1>5. CASE h # o
  <2>1. Elsewhere(h) /\ sent'[h] = sent[h]
    BY <1>5, BeginElsewhere
  <2>2. QueueStep(OtherEvent) /\ ~OnChannel(OtherEvent, chan[h])
    BY <1>2 DEF QueueStep, OtherEvent, OnChannel
  <2> QED
    BY <1>2, <1>3, <1>4, <2>1, <2>2, PairedStays
<1>6. CASE h = o
  <2>1. SUFFICES ASSUME Alone(h)'
                 PROVE  (HasChannel(h)' => Stage(h)') /\ GotOwn(h)'
    BY DEF Paired
  <2>2. Alone(h)
    BY <1>3, <2>1, AloneBefore
  <2>3. GotOwn(h)'
    BY <1>1, <1>2, <1>4, <1>6, <2>2, GotStays DEF Paired
  <2>4. ASSUME HasChannel(h)
        PROVE  Stage(h)'
    <3>1. Stage(h) /\ h \notin waiting /\ waiting' = waiting \cup {h}
      BY <1>4, <1>6, <2>2, <2>4 DEF Paired
    <3>2. Quiet(h) /\ ~Answering(h)
      BY <3>1 DEF Stage
    <3>3. h \in waiting' /\ ~Answering(h)'
      BY <1>2, <3>1, <3>2 DEF Answering
    <3>4. Own(chan[h])' = {} /\ chan'[h] \notin DOMAIN channels'
      BY <1>2, <3>2 DEF Quiet, Own
    <3>5. Underway(h)'
      BY <3>4 DEF Underway
    <3> QED
      BY <3>3, <3>5 DEF Stage
  <2> QED
    BY <1>2, <2>3, <2>4
<1> QED
  BY <1>5, <1>6

\* Places are numbers.
LEMMA CutPlaces ==
  ASSUME NEW cut \in ProperCuts
  PROVE  CutPlace(cut) \in Nat /\ EntryOf(cut).next_seq = cut.seq /\ cut.seq \in Nat
         /\ EntryOf(cut).cmd = cut.msg.cmd
<1>1. cut.seq \in Nat /\ cut.first \in BOOLEAN
  BY ProperFacts, CutFacts, Sizes
<1>2. CutPlace(cut) \in Nat
  BY <1>1 DEF CutPlace
<1>3. EntryOf(cut).next_seq = cut.seq /\ EntryOf(cut).cmd = cut.msg.cmd
  BY DEF EntryOf
<1> QED
  BY <1>1, <1>2, <1>3

\* What is read of the packet of a cut.
LEMMA CutRead ==
  ASSUME NEW cut \in ProperCuts, InProgress(cut), Len(cut.msg.payload) <= MaxPayload,
         NEW c \in Cids, NEW p, p = Parse(Serialize(CutPacket(cut, c)))
  PROVE  /\ p.cid = c /\ Place(p) = CutPlace(cut)
         /\ ~cut.first => p.kind = "cont" /\ p.seq = cut.seq
<1>1. PICK event : event = OutputEvent(Serialize(CutPacket(cut, c)))
  OBVIOUS
<1>2. p = PacketOf(event)
  BY <1>1 DEF PacketOf, OutputEvent
<1> QED
  BY <1>1, <1>2, PacketRead

\* The places of the packets of a message are numbers too.
LEMMA PacketPlace ==
  ASSUME NEW c \in Cids, NEW p, NEW m, PacketIn(p, m, c)
  PROVE  Place(p) \in Nat
<1>1. PICK cut : CutOf(cut, m) /\ p = Parse(Serialize(CutPacket(cut, c)))
  BY DEF PacketIn
<1>2. cut \in ProperCuts /\ InProgress(cut) /\ Len(cut.msg.payload) <= MaxPayload
  BY <1>1 DEF CutOf
<1> QED
  BY <1>1, <1>2, CutRead, CutPlaces

\* The next packet of a host is elsewhere for the other hosts.
LEMMA WrittenElsewhere ==
  ASSUME NEW o \in Hosts, NEW event, NEW cut, NEW next, Written(o, event, cut, next),
         NEW h \in Hosts \ {o}
  PROVE  /\ Elsewhere(h)
         /\ Alone(h) /\ HasChannel(h) => ~OnChannel(event, chan[h])
<1>1. /\ h \in DOMAIN sending' <=> h \in DOMAIN sending
      /\ h \in DOMAIN sending => sending'[h] = sending[h]
      /\ UNCHANGED <<channels, phase, current, chan, waiting, sent>>
  BY DEF Written
<1>2. LastSent(h)' = LastSent(h) /\ (Answering(h)' <=> Answering(h))
      /\ (Answers(LastSent(h))' <=> Answers(LastSent(h)))
  BY <1>1 DEF LastSent, Answering, Answers
<1>3. Elsewhere(h)
  BY <1>1, <1>2 DEF Elsewhere
<1>4. Alone(h) /\ HasChannel(h) => ~OnChannel(event, chan[h])
  <2>1. CASE HasChannel(o)
    <3>1. PacketOf(event).cid = chan[o]
      BY <2>1 DEF Written, OnChannel
    <3> QED
      BY <2>1, <3>1 DEF Alone, OnChannel
  <2>2. CASE ~HasChannel(o)
    BY <2>2 DEF Written, Asks, OnChannel
  <2> QED
    BY <2>1, <2>2
<1> QED
  BY <1>3, <1>4

\* The next packet of a host joins those on their way.
LEMMA WriteReportPaired ==
  ASSUME DInv, DeclaredInv, ChannelInv, PairedInv, NEW o \in Hosts, WriteReport(o),
         NEW h \in Hosts \ gaveUp'
  PROVE  Paired(h)'
<1>1. PICK event, cut, next : Written(o, event, cut, next)
  BY WrittenPacket
<1>2. /\ UNCHANGED <<channels, phase, current, chan, waiting, sent, got, gaveUp>>
      /\ Enqueue(event) /\ QueueStep(event) /\ queue \in Seq(Events)
  BY <1>1 DEF Written, QueueStep, DInv, HostInv
<1>3. ChannelsKept
  BY <1>2 DEF ChannelsKept, HasChannel
<1>4. Paired(h)
  BY <1>2 DEF PairedInv
<1>5. LastSent(h)' = LastSent(h) /\ (Answering(h)' <=> Answering(h))
      /\ (Answers(LastSent(h))' <=> Answers(LastSent(h)))
  BY <1>2 DEF LastSent, Answering, Answers
<1>6. CASE h # o
  BY <1>1, <1>2, <1>3, <1>4, <1>6, WrittenElsewhere, PairedStays
<1>7. CASE h = o
  <2>1. SUFFICES ASSUME Alone(h)'
                 PROVE  (HasChannel(h)' => Stage(h)') /\ GotOwn(h)'
    BY DEF Paired
  <2>2. Alone(h)
    BY <1>3, <2>1, AloneBefore
  <2>3. GotOwn(h)'
    BY <1>2, <1>4, <2>2, GotStays DEF Paired
  <2>4. HasChannel(h)' <=> HasChannel(h)
    BY <1>2 DEF HasChannel
  <2>5. ASSUME HasChannel(h)
        PROVE  Stage(h)'
    <3>1. PICK c, m : c \in Cids /\ c = chan[h] /\ m = LastSent(h)
      BY DEF DInv, HostInv
    <3>2. /\ cut \in ProperCuts /\ cut = sending[h] /\ h \in DOMAIN sending
          /\ OnChannel(event, c) /\ PacketIn(PacketOf(event), m, c)
          /\ Place(PacketOf(event)) = CutPlace(cut)
          /\ h \in DOMAIN sending' => /\ sending'[h] = next
                                      /\ CutPlace(next) = CutPlace(cut) + 1
      BY <1>1, <1>7, <2>5, <3>1 DEF Written
    <3>3. h \in waiting /\ ~Answering(h) /\ Underway(h)
      BY <1>4, <2>2, <2>5, <3>2 DEF Paired, Stage, Quiet
    <3>4. /\ \A i \in Own(c) : /\ PacketIn(PacketOf(queue[i]), m, c)
                               /\ Place(PacketOf(queue[i])) < CutPlace(cut)
          /\ \A i, j \in Own(c) :
               i < j => Place(PacketOf(queue[i])) < Place(PacketOf(queue[j]))
          /\ c \in DOMAIN channels =>
               /\ \E entry : CutOf(entry, m) /\ ~entry.first /\ channels[c] = EntryOf(entry)
               /\ \A i \in Own(c) : channels[c].next_seq < Place(PacketOf(queue[i]))
               /\ channels[c].next_seq < CutPlace(cut)
      BY <3>1, <3>2, <3>3 DEF Underway
    <3>5. PICK d \in {0, 1} : \A i \in DOMAIN queue' :
            /\ i \in Nat
            /\ \/ i + d \in DOMAIN queue /\ queue'[i] = queue[i + d]
               \/ /\ d = 0 /\ queue'[i] = event
                  /\ \A j \in DOMAIN queue : j < i
                  /\ i = Len(queue) + 1
      BY <1>2, QueueShift
    <3>6. ASSUME NEW i \in Own(c)'
          PROVE  /\ i \in Nat
                 /\ \/ i + d \in Own(c) /\ queue'[i] = queue[i + d]
                    \/ /\ d = 0 /\ queue'[i] = event
                       /\ \A j \in DOMAIN queue : j < i
                       /\ i = Len(queue) + 1
      <4>1. i \in DOMAIN queue' /\ OnChannel(queue'[i], c)
        BY <3>6 DEF Own
      <4> QED
        BY <3>5, <4>1 DEF Own
    <3>7. CutPlace(cut) \in Nat
      BY <3>2, CutPlaces
    <3>8. ASSUME NEW i \in Own(c)'
          PROVE  /\ PacketIn(PacketOf(queue'[i]), m, c)
                 /\ Place(PacketOf(queue'[i])) \in Nat
                 /\ Place(PacketOf(queue'[i])) < CutPlace(cut) + 1
                 /\ c \in DOMAIN channels =>
                      channels[c].next_seq < Place(PacketOf(queue'[i]))
      <4>1. PICK p : p = PacketOf(queue'[i])
        OBVIOUS
      <4>2. PacketIn(p, m, c)
        BY <3>2, <3>4, <3>6, <4>1
      <4>3. Place(p) \in Nat
        BY <3>1, <4>2, PacketPlace
      <4>4. Place(p) < CutPlace(cut) \/ Place(p) = CutPlace(cut)
        BY <3>2, <3>4, <3>6, <4>1
      <4>5. c \in DOMAIN channels => channels[c].next_seq < Place(p)
        BY <3>2, <3>4, <3>6, <4>1
      <4> QED
        BY <3>7, <4>1, <4>2, <4>3, <4>4, <4>5
    <3>9. ASSUME NEW i \in Own(c)', NEW j \in Own(c)', i < j
          PROVE  Place(PacketOf(queue'[i])) < Place(PacketOf(queue'[j]))
      <4>1. /\ i \in Nat /\ j \in Nat
            /\ (j + d \in Own(c) => j + d \in DOMAIN queue)
        BY <3>6 DEF Own
      <4>2. i + d \in Own(c) /\ queue'[i] = queue[i + d]
        <5>1. SUFFICES ASSUME d = 0, \A k \in DOMAIN queue : k < i, i = Len(queue) + 1
                       PROVE  FALSE
          BY <3>6
        <5>2. j + 0 \notin DOMAIN queue
          BY <3>9, <4>1, <5>1
        <5>3. j = Len(queue) + 1
          BY <3>6, <4>1, <5>1, <5>2
        <5> QED
          BY <3>9, <5>1, <5>3
      <4>3. CASE j + d \in Own(c) /\ queue'[j] = queue[j + d]
        BY <3>4, <3>9, <4>1, <4>2, <4>3
      <4>4. CASE queue'[j] = event
        BY <3>2, <3>4, <4>2, <4>4
      <4> QED
        BY <3>6, <4>3, <4>4
    <3>10. c \in DOMAIN channels => channels[c].next_seq \in Nat
      BY <3>4, CutPlaces DEF CutOf
    <3>11. /\ \A i \in Own(c)' : PacketIn(PacketOf(queue'[i]), m, c)
           /\ \A i, j \in Own(c)' :
                i < j => Place(PacketOf(queue'[i])) < Place(PacketOf(queue'[j]))
           /\ h \in DOMAIN sending' =>
                \A i \in Own(c)' : Place(PacketOf(queue'[i])) < CutPlace(sending'[h])
           /\ c \in DOMAIN channels' =>
                /\ \E entry : CutOf(entry, m) /\ ~entry.first
                                /\ channels'[c] = EntryOf(entry)
                /\ \A i \in Own(c)' : channels'[c].next_seq < Place(PacketOf(queue'[i]))
                /\ h \in DOMAIN sending' => channels'[c].next_seq < CutPlace(sending'[h])
      <4>1. \A i \in Own(c)' : /\ PacketIn(PacketOf(queue'[i]), m, c)
                               /\ Place(PacketOf(queue'[i])) < CutPlace(cut) + 1
                               /\ c \in DOMAIN channels =>
                                    channels[c].next_seq < Place(PacketOf(queue'[i]))
        BY <3>8
      <4>2. c \in DOMAIN channels => channels[c].next_seq < CutPlace(cut) + 1
        BY <3>4, <3>7, <3>10
      <4>3. \A i, j \in Own(c)' :
              i < j => Place(PacketOf(queue'[i])) < Place(PacketOf(queue'[j]))
        BY <3>9
      <4>4. h \in DOMAIN sending' => CutPlace(sending'[h]) = CutPlace(cut) + 1
        BY <3>2
      <4>5. channels' = channels
        BY <1>2
      <4> QED
        BY <3>4, <4>1, <4>2, <4>3, <4>4, <4>5
    <3>12. LastSent(h)' = m /\ chan'[h] = c
      BY <1>2, <1>5, <3>1
    <3>13. Underway(h)'
      BY <3>11, <3>12 DEF Underway, Own
    <3> QED
      BY <1>2, <1>5, <3>3, <3>13 DEF Stage
  <2> QED
    BY <2>3, <2>4, <2>5
<1> QED
  BY <1>6, <1>7

-----------------------------------------------------------------------------

\* What the table knows of a packet's message follows from the packet's place.
LEMMA SameCut ==
  ASSUME NEW m, NEW a, NEW b, CutOf(a, m), CutOf(b, m), ~a.first, ~b.first,
         a.seq = b.seq
  PROVE  EntryOf(a) = EntryOf(b)
<1>1. /\ a.offset = InitData + a.seq * ContData /\ b.offset = InitData + b.seq * ContData
      /\ a.msg.cmd = b.msg.cmd /\ a.msg.payload = b.msg.payload
  BY DEF CutOf, InProgress
<1>2. a.offset = b.offset
  BY <1>1
<1> QED
  BY <1>1, <1>2 DEF EntryOf

\* What comes after a cut of a message, and that nothing comes after its last.
LEMMA CutAfter ==
  ASSUME NEW m, NEW cut, CutOf(cut, m), NEW next, next = CutNext(cut)
  PROVE  /\ ~CutDone(next) => /\ CutOf(next, m) /\ ~next.first
                              /\ next.seq = CutPlace(cut)
         /\ CutDone(next) =>
              \A later : CutOf(later, m) => ~(CutPlace(cut) < CutPlace(later))
<1>1. /\ cut \in ProperCuts /\ cut \in AnyCut /\ InProgress(cut)
      /\ cut.msg.cmd = m.cmd /\ cut.msg.payload = m.payload
      /\ Len(cut.msg.payload) <= MaxPayload /\ cut.first \in BOOLEAN
  BY ProperFacts DEF CutOf
<1>2. /\ next \in ProperCuts /\ next.msg = cut.msg /\ ~next.first
      /\ CutDone(next) <=> next.offset = Len(cut.msg.payload)
      /\ ~CutDone(next) =>
           /\ next.seq = IF cut.first THEN 0 ELSE cut.seq + 1
           /\ next.offset = InitData + next.seq * ContData
           /\ next.offset < Len(cut.msg.payload)
      /\ next.offset =
           cut.offset + MinOf(Len(cut.msg.payload) - cut.offset,
                              IF cut.first THEN InitData ELSE ContData)
  BY <1>1, NextOffset, CutNextFacts, ProperFacts DEF InProgress
<1>3. ~CutDone(next) => CutOf(next, m)
  BY <1>1, <1>2 DEF CutOf, InProgress
<1>4. ASSUME CutDone(next), NEW later, CutOf(later, m), CutPlace(cut) < CutPlace(later)
      PROVE  FALSE
  <2>1. /\ later \in ProperCuts /\ InProgress(later) /\ later.msg.payload = m.payload
        /\ later.seq \in Nat /\ cut.seq \in Nat /\ cut.offset \in Nat
        /\ CutPlace(cut) \in Nat
    BY <1>1, <1>4, CutPlaces, CutFacts DEF CutOf
  <2>2. ~later.first
    BY <1>4, <2>1 DEF CutPlace
  <2>3. PICK l \in Nat : l = Len(m.payload)
    BY <1>1, CutFacts
  <2>4. later.offset = InitData + later.seq * ContData /\ later.offset < l
    BY <2>1, <2>2, <2>3 DEF InProgress
  <2>5. CASE cut.first
    <3>1. cut.offset = 0
      BY <1>1, <2>5, ProperFacts
    <3>2. l <= InitData
      BY <1>1, <1>2, <1>4, <2>3, <2>5, <3>1, Sizes DEF MinOf
    <3>3. later.seq * ContData >= 0
      BY <2>1, Sizes
    <3> QED
      BY <2>1, <2>3, <2>4, <3>2, <3>3, Sizes
  <2>6. CASE ~cut.first
    <3>1. cut.offset = InitData + cut.seq * ContData /\ cut.offset < l
      BY <1>1, <2>3, <2>6 DEF InProgress
    <3>2. l <= cut.offset + ContData
      BY <1>1, <1>2, <1>4, <2>1, <2>3, <2>6, Sizes DEF MinOf
    <3>3. later.seq >= cut.seq + 1
      BY <1>4, <2>1, <2>2, <2>6 DEF CutPlace
    <3>4. PICK k \in Nat : later.seq = cut.seq + 1 + k
      <4>1. later.seq - cut.seq - 1 \in Nat
        BY <2>1, <3>3
      <4> QED
        BY <2>1, <4>1
    <3>5. ContData \in Nat /\ InitData \in Nat
      BY Sizes
    <3>6. PICK e \in Nat, q \in Nat : e = k * ContData /\ q = cut.seq * ContData
      <4>1. k * ContData \in Nat
        BY <3>5
      <4>2. cut.seq * ContData \in Nat
        BY <2>1, <3>5
      <4> QED
        BY <4>1, <4>2
    <3>7. (cut.seq + 1 + k) * ContData = cut.seq * ContData + ContData + k * ContData
      BY <2>1, <3>5
    <3>8. later.offset = InitData + (q + ContData + e) /\ cut.offset = InitData + q
      BY <2>4, <3>1, <3>4, <3>6, <3>7
    <3>9. InitData + (q + ContData + e) < l /\ l <= InitData + q + ContData
      BY <2>4, <3>2, <3>8
    <3> QED
      BY <3>5, <3>9
  <2> QED
    BY <1>1, <2>5, <2>6
<1> QED
  BY <1>2, <1>3, <1>4 DEF CutPlace

\* The table has part of the message m of channel c, and not more than comes
\* before a place.
Behind(table, m, c) ==
  c \in DOMAIN table => \E entry : CutOf(entry, m) /\ ~entry.first /\ table[c] = EntryOf(entry)

\* What the device makes of a packet of message m that begins the message, or that
\* comes next: the last one completes it, any other becomes part of it.
LEMMA NextPacket ==
  ASSUME DInv, NEW c \in Cids, NEW m, NEW cut, CutOf(cut, m),
         NEW p, p = Parse(Serialize(CutPacket(cut, c))), HandlePacket(p), Readable(p),
         cut.first \/ (c \in DOMAIN channels /\ channels[c] = EntryOf(cut))
  PROVE  \/ /\ delivered' = [delivered EXCEPT ![c] =
                 Append(@, [cmd |-> m.cmd, payload |-> m.payload])]
            /\ c \in DOMAIN channels' => cut.first /\ UNCHANGED channels
            /\ \A later : CutOf(later, m) => ~(Place(p) < CutPlace(later))
         \/ /\ UNCHANGED delivered
            /\ c \in DOMAIN channels' /\ Behind(channels', m, c)
            /\ channels'[c].next_seq = Place(p)
<1>1. /\ cut \in ProperCuts /\ cut \in AnyCut /\ InProgress(cut)
      /\ cut.msg.cmd = m.cmd /\ cut.msg.payload = m.payload
      /\ Len(cut.msg.payload) <= MaxPayload
      /\ cut.offset <= Len(cut.msg.payload)
      /\ cut.first => cut.offset = 0 /\ cut.seq = 0
      /\ cut.first \in BOOLEAN
  BY ProperFacts DEF CutOf
<1>2. PICK next : next = CutNext(cut)
  OBVIOUS
<1>3. /\ p.cid = c /\ Place(p) = CutPlace(cut)
      /\ ~cut.first => p.kind = "cont"
  BY <1>1, CutRead
<1>4. /\ ~CutDone(next) => /\ CutOf(next, m) /\ ~next.first /\ next.seq = Place(p)
      /\ CutDone(next) =>
           \A later : CutOf(later, m) => ~(Place(p) < CutPlace(later))
  BY <1>2, <1>3, CutAfter
<1>5. cut.msg = [cmd |-> m.cmd, payload |-> m.payload]
  <2>1. cut.msg \in Message
    BY <1>1, CutFacts
  <2> QED
    BY <1>1, <2>1 DEF Message
<1>6. PICK s : s = [cut |-> cut, intact |-> TRUE]
  OBVIOUS
<1>7. s.cut = cut /\ s.intact = TRUE
  BY <1>6
<1>8. Tracked(s, channels, c)
  BY <1>1, <1>7 DEF Tracked, InProgress
<1>9. Handling(c, s, p, next)
  BY <1>1, <1>2, <1>7, <1>8 DEF Handling
<1>10. Handled(c, s, next)
  BY <1>7, <1>9, HandledFirst, HandledIntact
<1>11. CASE CutDone(next)
  <2>1. delivered' = [delivered EXCEPT ![c] =
                  Append(@, [cmd |-> m.cmd, payload |-> m.payload])]
    BY <1>5, <1>7, <1>10, <1>11 DEF Handled
  <2>2. delivered' # delivered
    <3>1. PICK S : delivered \in [Cids -> Seq(S)]
      BY DEF DInv, DeviceInv, ReassemblerTypeOK
    <3>2. Len(delivered'[c]) = Len(delivered[c]) + 1 /\ Len(delivered[c]) \in Nat
      BY <2>1, <3>1
    <3> QED
      BY <3>2
  <2>3. c \in DOMAIN channels' => p.kind = "init" /\ UNCHANGED channels
    BY <1>3, <2>2, HandlePacketReturns DEF DInv, DeviceInv
  <2>4. c \in DOMAIN channels' => cut.first /\ UNCHANGED channels
    BY <1>1, <1>3, <2>3
  <2> QED
    BY <1>4, <1>11, <2>1, <2>4
<1>12. CASE ~CutDone(next)
  <2>1. PICK t : t = [cut |-> next, intact |-> s.intact]
    OBVIOUS
  <2>2. UNCHANGED delivered /\ Tracked(t, channels', c)
    BY <1>10, <1>12, <2>1 DEF Handled
  <2>3. t.cut = next /\ t.intact = TRUE
    BY <1>7, <2>1
  <2>4. c \in DOMAIN channels' /\ channels'[c] = EntryOf(next)
    BY <1>4, <1>12, <2>2, <2>3 DEF Tracked
  <2>5. EntryOf(next).next_seq = next.seq
    BY <1>1, <1>2, ProperFacts, CutPlaces
  <2> QED
    BY <1>4, <1>12, <2>2, <2>4, <2>5 DEF Behind
<1> QED
  BY <1>11, <1>12

\* What the device makes of a packet of message m when its table is behind: the
\* last packet completes the message, any other leaves a part of it or nothing.
LEMMA OwnPacket ==
  ASSUME DInv, NEW c \in Cids, NEW m, NEW p, HandlePacket(p), Readable(p),
         PacketIn(p, m, c), Behind(channels, m, c),
         c \in DOMAIN channels => channels[c].next_seq < Place(p)
  PROVE  /\ p.cid = c
         /\ \/ /\ delivered' = [delivered EXCEPT ![c] =
                    Append(@, [cmd |-> m.cmd, payload |-> m.payload])]
               /\ c \notin DOMAIN channels'
               /\ \A later : CutOf(later, m) => ~(Place(p) < CutPlace(later))
            \/ /\ UNCHANGED delivered
               /\ Behind(channels', m, c)
               /\ c \in DOMAIN channels' => channels'[c].next_seq = Place(p)
<1>1. PICK cut : CutOf(cut, m) /\ p = Parse(Serialize(CutPacket(cut, c)))
  BY DEF PacketIn
<1>2. cut \in ProperCuts /\ InProgress(cut) /\ Len(cut.msg.payload) <= MaxPayload
  BY <1>1 DEF CutOf
<1>3. /\ p.cid = c /\ Place(p) = CutPlace(cut)
      /\ ~cut.first => p.kind = "cont" /\ p.seq = cut.seq
  BY <1>1, <1>2, CutRead
<1>4. CutPlace(cut) \in Nat /\ cut.seq \in Nat
  BY <1>2, CutPlaces
<1>5. cut.first => c \notin DOMAIN channels
  <2>1. SUFFICES ASSUME cut.first, c \in DOMAIN channels PROVE FALSE
    OBVIOUS
  <2>2. PICK entry : CutOf(entry, m) /\ channels[c] = EntryOf(entry)
    BY <2>1 DEF Behind
  <2>3. channels[c].next_seq \in Nat
    BY <2>2, CutPlaces DEF CutOf
  <2> QED
    BY <1>3, <2>1, <2>3 DEF CutPlace
<1>6. CASE cut.first
  BY <1>1, <1>3, <1>5, <1>6, NextPacket
<1>7. CASE ~cut.first /\ c \in DOMAIN channels /\ channels[c].next_seq = cut.seq
  <2>1. PICK entry : CutOf(entry, m) /\ ~entry.first /\ channels[c] = EntryOf(entry)
    BY <1>7 DEF Behind
  <2>2. entry.seq = cut.seq
    BY <1>7, <2>1, CutPlaces DEF CutOf
  <2>3. channels[c] = EntryOf(cut)
    BY <1>1, <1>7, <2>1, <2>2, SameCut
  <2> QED
    BY <1>1, <1>3, <1>7, <2>3, NextPacket
<1>8. CASE ~cut.first /\ ~(c \in DOMAIN channels /\ channels[c].next_seq = cut.seq)
  <2>1. StrayPacket(p) \/ OutOfOrder(p)
    BY <1>3, <1>8
       DEF HandlePacket, SinglePacket, FirstPacket, MiddlePacket, LastPacket, InSequence
  <2>2. UNCHANGED delivered /\ c \notin DOMAIN channels'
    BY <1>3, <2>1 DEF StrayPacket, OutOfOrder, Remove, reassemblerVars
  <2> QED
    BY <1>3, <2>2 DEF Behind
<1> QED
  BY <1>6, <1>7, <1>8

\* A packet that is not of the host's channel does nothing with the host.
LEMMA OthersPacket ==
  ASSUME DInv, ChannelInv, NEW event, NEW p, Received(event, p),
         Outcome(p),
         NEW h \in Hosts, ~OnChannel(event, chan[h])
  PROVE  Elsewhere(h)
<1>1. PICK c \in Cids : c = chan[h]
  BY DEF DInv, HostInv
<1>2. /\ UNCHANGED <<chan, sending, waiting, sent>> /\ phase = "reading"
      /\ HandlePacket(p) /\ event.kind = "output" /\ p = PacketOf(event)
      /\ p.cid \in Cids
      /\ IF AsksChannel(p) THEN p.bcnt = 1 ELSE Owned(p.cid)
  BY DEF Received, hostVars, EventOwned
<1>3. p.cid # c \/ AsksChannel(p)
  BY <1>1, <1>2 DEF OnChannel
<1>4. AsksChannel(p) => SinglePacket(p)
  <2>1. SUFFICES ASSUME AsksChannel(p) PROVE SinglePacket(p)
    OBVIOUS
  <2>2. p.kind = "init" /\ p.bcnt = 1
    BY <1>2, <2>1 DEF AsksChannel
  <2>3. FitsInOnePacket(p)
    BY <2>2, Sizes DEF FitsInOnePacket
  <2> QED
    BY <1>2, <2>2, <2>3
       DEF HandlePacket, FirstPacket, StrayPacket, OutOfOrder, MiddlePacket, LastPacket
<1>5. /\ c \in DOMAIN channels' <=> c \in DOMAIN channels
      /\ c \in DOMAIN channels => channels'[c] = channels[c]
  <2>1. CASE p.cid # c
    BY <1>2, <2>1, HandlePacketOthers DEF DInv, DeviceInv
  <2>2. CASE AsksChannel(p)
    BY <1>4, <2>2 DEF SinglePacket
  <2> QED
    BY <1>3, <2>1, <2>2
<1>6. ASSUME NEW m \in Addressed, m.cid = p.cid,
             delivered' = [delivered EXCEPT ![m.cid] =
               Append(@, [cmd |-> m.cmd, payload |-> m.payload])],
             HandleMessage(m)
      PROVE  ~Answering(h)'
  <2>1. AsksChannel(p) => m.cmd = InitCommand
    <3>1. SUFFICES ASSUME AsksChannel(p) PROVE m.cmd = InitCommand
      OBVIOUS
    <3>2. Return(p.cid, p.cmd, SubSeq(p.data, 1, p.bcnt)) /\ p.cmd = InitCommand
      BY <1>4, <3>1 DEF SinglePacket, AsksChannel
    <3>3. PICK d \in Cids : d = p.cid
      BY <1>2
    <3>4. Return(d, m.cmd, m.payload)
      BY <1>6, <3>3 DEF Return
    <3>5. Return(d, p.cmd, SubSeq(p.data, 1, p.bcnt))
      BY <3>2, <3>3
    <3>6. p.cmd = m.cmd
      BY <3>4, <3>5, OneReturned
    <3> QED
      BY <3>2, <3>6
  <2>2. CASE ~NeedsAnswer(m) /\ Ignore
    BY <1>2, <2>2 DEF Answering, Ignore
  <2>3. CASE /\ phase' = "prompting" /\ current' = m
             /\ \A status \in {OK, OperationDenied} :
                  AnswerTo(m, [cmd |-> CborCommand, payload |-> <<status>>])
    <3>1. PICK answer : answer = [cmd |-> CborCommand, payload |-> <<OK>>]
      OBVIOUS
    <3>2. AnswerTo(m, answer) /\ answer.cmd = CborCommand
      BY <2>3, <3>1
    <3>3. m.cmd # InitCommand
      BY <3>2, Commands DEF AnswerTo
    <3>4. current'.cid # chan'[h]
      BY <1>1, <1>2, <1>3, <1>6, <2>1, <2>3, <3>3
    <3> QED
      BY <3>4 DEF Answering
  <2>4. CASE /\ phase' = "writing" /\ current'.cid = m.cid
             /\ AnswerTo(m, [cmd |-> current'.cmd, payload |-> current'.payload])
    <3>1. PICK answer : answer = [cmd |-> current'.cmd, payload |-> current'.payload]
      OBVIOUS
    <3>2. AnswerTo(m, answer) /\ answer.cmd = current'.cmd
      BY <2>4, <3>1
    <3>3. current'.cmd = m.cmd
      BY <3>2 DEF AnswerTo
    <3>4. current'.cid # chan'[h] \/ current'.cmd = InitCommand
      BY <1>1, <1>2, <1>3, <1>6, <2>1, <2>4, <3>3
    <3> QED
      BY <2>4, <3>4 DEF Answering
  <2> QED
    BY <1>6, <2>2, <2>3, <2>4, MessageAnswered
<1>7. ~Answering(h)'
  <2>1. CASE Ignore
    BY <1>2, <2>1 DEF Answering, Ignore
  <2> QED
    BY <1>6, <2>1 DEF Outcome
<1> QED
  BY <1>1, <1>2, <1>5, <1>7 DEF Elsewhere

\* The packets of the host that are left in the queue come after its packet at
\* the head.
LEMMA OwnLeft ==
  ASSUME queue \in Seq(Events), queue # <<>>, queue' = Tail(queue),
         NEW c, NEW p, p = PacketOf(Head(queue)), OnChannel(Head(queue), c),
         \A i, j \in Own(c) :
           i < j => Place(PacketOf(queue[i])) < Place(PacketOf(queue[j]))
  PROVE  /\ 1 \in Own(c) /\ queue[1] = Head(queue)
         /\ \A i \in Own(c)' : /\ i \in Nat /\ i + 1 \in Own(c) /\ queue'[i] = queue[i + 1]
                               /\ Place(p) < Place(PacketOf(queue'[i]))
<1>1. 1 \in Own(c) /\ queue[1] = Head(queue)
  BY DEF Own
<1>2. ASSUME NEW i \in Own(c)'
      PROVE  /\ i \in Nat /\ i + 1 \in Own(c) /\ queue'[i] = queue[i + 1]
             /\ Place(p) < Place(PacketOf(queue'[i]))
  <2>1. i \in DOMAIN queue' /\ OnChannel(queue'[i], c)
    BY <1>2 DEF Own
  <2>2. i \in Nat /\ 1 < i + 1 /\ i + 1 \in DOMAIN queue /\ queue'[i] = queue[i + 1]
    BY <2>1
  <2>3. i + 1 \in Own(c)
    BY <2>1, <2>2 DEF Own
  <2>4. Place(PacketOf(queue[1])) < Place(PacketOf(queue[i + 1]))
    BY <1>1, <2>2, <2>3
  <2> QED
    BY <1>1, <2>2, <2>3, <2>4
<1> QED
  BY <1>1, <1>2

\* The message a packet completes is the one that is answered.
LEMMA OwnAnswered ==
  ASSUME DInv, NEW event, NEW p, Received(event, p), Outcome(p),
         NEW c \in Cids, c = p.cid, NEW m,
         delivered' = [delivered EXCEPT ![c] =
           Append(@, [cmd |-> m.cmd, payload |-> m.payload])]
  PROVE  \A h : Answering(h)' => Answers(m)'
<1>1. phase = "reading"
  BY DEF Received
<1>2. Return(c, m.cmd, m.payload)
  BY DEF Return
<1>3. ASSUME NEW a \in Addressed, a.cid = p.cid,
             delivered' = [delivered EXCEPT ![a.cid] =
               Append(@, [cmd |-> a.cmd, payload |-> a.payload])],
             HandleMessage(a)
      PROVE  \A h : Answering(h)' => Answers(m)'
  <2>1. Return(c, a.cmd, a.payload)
    BY <1>3 DEF Return
  <2>2. m.cmd = a.cmd /\ m.payload = a.payload
    BY <1>2, <2>1, OneReturned
  <2>3. \A answer : AnswerTo(a, answer) => AnswerTo(m, answer)
    BY <2>2, ByContent
  <2>4. \/ phase' = "reading"
        \/ /\ phase' = "prompting"
           /\ \A status \in {OK, OperationDenied} :
                AnswerTo(a, [cmd |-> CborCommand, payload |-> <<status>>])
        \/ /\ phase' = "writing"
           /\ AnswerTo(a, [cmd |-> current'.cmd, payload |-> current'.payload])
    BY <1>1, <1>3, MessageAnswered DEF Ignore
  <2> QED
    BY <2>3, <2>4 DEF Answering, Answers
<1>4. CASE Ignore
  BY <1>1, <1>4 DEF Answering, Ignore
<1> QED
  BY <1>3, <1>4 DEF Outcome

\* While no message is complete nothing is answered.
LEMMA NoneAnswered ==
  ASSUME DInv, NEW event, NEW p, Received(event, p), Outcome(p), UNCHANGED delivered
  PROVE  \A h : ~Answering(h)'
<1>1. phase = "reading" /\ p.cid \in Cids
  BY DEF Received
<1>2. ASSUME NEW a \in Addressed, a.cid = p.cid,
             delivered' = [delivered EXCEPT ![a.cid] =
               Append(@, [cmd |-> a.cmd, payload |-> a.payload])]
      PROVE  FALSE
  <2>1. PICK c \in Cids : c = p.cid
    BY <1>1
  <2>2. Return(c, a.cmd, a.payload)
    BY <1>2, <2>1 DEF Return
  <2> QED
    BY <2>2, OneReturned
<1>3. Ignore
  BY <1>2 DEF Outcome
<1> QED
  BY <1>1, <1>3 DEF Answering, Ignore

\* A packet of a host that is alone completes its request, which is then all
\* that is answered, or the request stays on its way.
LEMMA OwnReceived ==
  ASSUME DInv, DeclaredInv, ChannelInv, NEW event, NEW p, Received(event, p),
         Outcome(p),
         NEW h \in Hosts, OnChannel(event, chan[h]), Stage(h)
  PROVE  Stage(h)'
<1>1. PICK c, m : c \in Cids /\ c = chan[h] /\ m = LastSent(h)
  BY DEF DInv, HostInv
<1>2. /\ UNCHANGED <<chan, sending, waiting, sent>> /\ phase = "reading"
      /\ HandlePacket(p) /\ Readable(p) /\ p.cid \in Cids
      /\ queue # <<>> /\ queue' = Tail(queue) /\ event = Head(queue) /\ p = PacketOf(event)
      /\ queue \in Seq(Events)
  BY DEF Received, hostVars, DInv, HostInv
<1>3. LastSent(h)' = m /\ chan'[h] = c
  BY <1>1, <1>2 DEF LastSent
<1>4. h \in waiting /\ ~Answering(h) /\ Underway(h)
  <2>1. 1 \in Own(c)
    BY <1>1, <1>2 DEF Own
  <2> QED
    BY <1>1, <2>1 DEF Stage, Quiet
<1>5. /\ \A i \in Own(c) : PacketIn(PacketOf(queue[i]), m, c)
      /\ \A i, j \in Own(c) :
           i < j => Place(PacketOf(queue[i])) < Place(PacketOf(queue[j]))
      /\ h \in DOMAIN sending =>
           \A i \in Own(c) : Place(PacketOf(queue[i])) < CutPlace(sending[h])
      /\ c \in DOMAIN channels =>
           /\ \E cut : CutOf(cut, m) /\ ~cut.first /\ channels[c] = EntryOf(cut)
           /\ \A i \in Own(c) : channels[c].next_seq < Place(PacketOf(queue[i]))
  BY <1>1, <1>4 DEF Underway
<1>6. /\ 1 \in Own(c) /\ queue[1] = event
      /\ \A i \in Own(c)' : /\ i \in Nat /\ i + 1 \in Own(c) /\ queue'[i] = queue[i + 1]
                            /\ Place(p) < Place(PacketOf(queue'[i]))
  BY <1>1, <1>2, <1>5, OwnLeft
<1>7. /\ PacketIn(p, m, c) /\ Behind(channels, m, c)
      /\ c \in DOMAIN channels => channels[c].next_seq < Place(p)
      /\ h \in DOMAIN sending => Place(p) < CutPlace(sending[h])
  BY <1>2, <1>5, <1>6 DEF Behind
<1>8. /\ p.cid = c
      /\ \/ /\ delivered' = [delivered EXCEPT ![c] =
                 Append(@, [cmd |-> m.cmd, payload |-> m.payload])]
            /\ c \notin DOMAIN channels'
            /\ \A later : CutOf(later, m) => ~(Place(p) < CutPlace(later))
         \/ /\ UNCHANGED delivered
            /\ Behind(channels', m, c)
            /\ c \in DOMAIN channels' => channels'[c].next_seq = Place(p)
  BY <1>1, <1>2, <1>7, OwnPacket
<1>9. h \in DOMAIN sending => CutOf(sending[h], m)
  BY <1>1 DEF DInv, HostInv, LastSent, DeclaredInv, SendingInProgress, CutOf
<1>10. ASSUME NEW i \in Own(c)'
       PROVE  /\ PacketIn(PacketOf(queue'[i]), m, c)
              /\ \E cut : CutOf(cut, m) /\ CutPlace(cut) = Place(PacketOf(queue'[i]))
  <2>1. PICK q : q = PacketOf(queue'[i])
    OBVIOUS
  <2>2. PacketIn(q, m, c)
    BY <1>5, <1>6, <2>1
  <2>3. PICK cut : CutOf(cut, m) /\ q = Parse(Serialize(CutPacket(cut, c)))
    BY <2>2 DEF PacketIn
  <2>4. cut \in ProperCuts /\ InProgress(cut) /\ Len(cut.msg.payload) <= MaxPayload
    BY <2>3 DEF CutOf
  <2>5. CutPlace(cut) = Place(q)
    BY <1>1, <2>3, <2>4, CutRead
  <2> QED
    BY <2>1, <2>2, <2>3, <2>5
<1>11. CASE /\ delivered' = [delivered EXCEPT ![c] =
                 Append(@, [cmd |-> m.cmd, payload |-> m.payload])]
            /\ c \notin DOMAIN channels'
            /\ \A later : CutOf(later, m) => ~(Place(p) < CutPlace(later))
  <2>1. Own(c)' = {}
    BY <1>6, <1>10, <1>11
  <2>2. h \notin DOMAIN sending'
    BY <1>2, <1>7, <1>9, <1>11
  <2>3. Quiet(h)'
    BY <1>3, <1>11, <2>1, <2>2 DEF Quiet, Own
  <2>4. Answering(h)' => Answers(m)'
    BY <1>1, <1>8, <1>11, OwnAnswered
  <2>5. Answers(LastSent(h))' <=> Answers(m)'
    BY <1>3 DEF Answers
  <2> QED
    BY <1>2, <1>4, <2>3, <2>4, <2>5 DEF Stage
<1>12. CASE /\ UNCHANGED delivered
            /\ Behind(channels', m, c)
            /\ c \in DOMAIN channels' => channels'[c].next_seq = Place(p)
  <2>1. ~Answering(h)'
    BY <1>12, NoneAnswered
  <2>2. ASSUME NEW i \in Own(c)', NEW j \in Own(c)', i < j
        PROVE  Place(PacketOf(queue'[i])) < Place(PacketOf(queue'[j]))
    <3>1. /\ i \in Nat /\ i + 1 \in Own(c) /\ queue'[i] = queue[i + 1]
          /\ j \in Nat /\ j + 1 \in Own(c) /\ queue'[j] = queue[j + 1]
      BY <1>6
    <3>2. i + 1 < j + 1
      BY <2>2, <3>1
    <3> QED
      BY <1>5, <3>1, <3>2
  <2>3. /\ \A i \in Own(c)' : PacketIn(PacketOf(queue'[i]), m, c)
        /\ \A i, j \in Own(c)' :
             i < j => Place(PacketOf(queue'[i])) < Place(PacketOf(queue'[j]))
        /\ h \in DOMAIN sending' =>
             \A i \in Own(c)' : Place(PacketOf(queue'[i])) < CutPlace(sending'[h])
        /\ c \in DOMAIN channels' =>
             /\ \E cut : CutOf(cut, m) /\ ~cut.first /\ channels'[c] = EntryOf(cut)
             /\ \A i \in Own(c)' : channels'[c].next_seq < Place(PacketOf(queue'[i]))
             /\ h \in DOMAIN sending' => channels'[c].next_seq < CutPlace(sending'[h])
    <3>1. \A i \in Own(c)' : PacketIn(PacketOf(queue'[i]), m, c)
      BY <1>10
    <3>2. h \in DOMAIN sending =>
            \A i \in Own(c)' : Place(PacketOf(queue'[i])) < CutPlace(sending[h])
      BY <1>5, <1>6
    <3>3. c \in DOMAIN channels' =>
            /\ \E cut : CutOf(cut, m) /\ ~cut.first /\ channels'[c] = EntryOf(cut)
            /\ \A i \in Own(c)' : channels'[c].next_seq < Place(PacketOf(queue'[i]))
            /\ h \in DOMAIN sending => channels'[c].next_seq < CutPlace(sending[h])
      BY <1>6, <1>7, <1>12 DEF Behind
    <3> QED
      BY <1>2, <2>2, <3>1, <3>2, <3>3
  <2>4. Underway(h)'
    BY <1>3, <2>3 DEF Underway, Own
  <2> QED
    BY <1>2, <1>4, <2>1, <2>4 DEF Stage
<1> QED
  BY <1>8, <1>11, <1>12

\* What is received concerns the host whose packet it is.
LEMMA ReceivePaired ==
  ASSUME DInv, DeclaredInv, ChannelInv, PairedInv, Receive, NEW h \in Hosts \ gaveUp'
  PROVE  Paired(h)'
<1>1. PICK event, p : Received(event, p) /\ Outcome(p)
  BY ReceivedPacket
<1>2. /\ UNCHANGED <<chan, sending, waiting, sent, got, gaveUp>>
      /\ queue # <<>> /\ queue' = Tail(queue) /\ queue \in Seq(Events)
  BY <1>1 DEF Received, hostVars, DInv, HostInv
<1>3. ChannelsKept /\ Paired(h)
  BY <1>2, HostsIdle DEF PairedInv
<1>4. QueueStep(OtherEvent) /\ ~OnChannel(OtherEvent, chan[h])
  BY <1>2 DEF QueueStep, OtherEvent, OnChannel
<1>5. CASE ~OnChannel(event, chan[h])
  <2>1. Elsewhere(h)
    BY <1>1, <1>5, OthersPacket
  <2> QED
    BY <1>2, <1>3, <1>4, <2>1, PairedStays
<1>6. CASE OnChannel(event, chan[h])
  <2>1. SUFFICES ASSUME Alone(h)'
                 PROVE  (HasChannel(h)' => Stage(h)') /\ GotOwn(h)'
    BY DEF Paired
  <2>2. Alone(h) /\ (HasChannel(h)' <=> HasChannel(h))
    BY <1>2, <1>3, <2>1, AloneBefore DEF HasChannel
  <2>3. GotOwn(h)'
    BY <1>2, <1>3, <2>2, GotStays DEF Paired
  <2>4. HasChannel(h) => Stage(h)'
    BY <1>1, <1>3, <1>6, <2>2, OwnReceived DEF Paired
  <2> QED
    BY <2>2, <2>3, <2>4
<1> QED
  BY <1>5, <1>6

\* An answer to the last request joins those a host took.
LEMMA GotGrows ==
  ASSUME DInv, NEW h \in Hosts, GotOwn(h), sent'[h] = sent[h], sent[h] # <<>>,
         got'[h] = Append(got[h], [to |-> Len(sent[h]), answer |-> current]),
         AnswerTo(LastSent(h), current)
  PROVE  GotOwn(h)'
<1>1. PICK g : g = [to |-> Len(sent[h]), answer |-> current]
  OBVIOUS
<1>2. g.to = Len(sent[h]) /\ g.answer = current /\ got'[h] = Append(got[h], g)
  BY <1>1
<1>3. PICK G : got[h] \in Seq(G)
  BY DEF DInv, HostInv
<1>4. sent[h] \in Seq(Addressed)
  BY DEF DInv, HostInv
<1>5. g.to \in DOMAIN sent[h] /\ AnswerTo(sent[h][g.to], g.answer)
  BY <1>2, <1>4 DEF LastSent
<1>6. \A k \in DOMAIN got'[h] :
        (k \in DOMAIN got[h] /\ got'[h][k] = got[h][k]) \/ got'[h][k] = g
  BY <1>2, <1>3
<1>7. \A k \in DOMAIN got'[h] :
        /\ got'[h][k].to \in DOMAIN sent[h]
        /\ AnswerTo(sent[h][got'[h][k].to], got'[h][k].answer)
  BY <1>5, <1>6 DEF GotOwn
<1> QED
  BY <1>7 DEF GotOwn

\* A host that is alone takes the answer to its own request.
LEMMA HeardOwn ==
  ASSUME DInv, ChannelInv, NEW h \in Hosts, Alone(h), Paired(h),
         phase = "writing", phase' = "reading",
         UNCHANGED <<channels, queue, sending, sent>>,
         Heard(h), Takes(h, current), HasChannel(h)
  PROVE  Stage(h)' /\ GotOwn(h)'
<1>1. /\ h \in waiting /\ sent[h] # <<>> /\ current.cmd # InitCommand
      /\ got'[h] = Append(got[h], [to |-> Len(sent[h]), answer |-> current])
      /\ chan'[h] = chan[h] /\ chan[h] = current.cid
  BY DEF Heard
<1>2. Answering(h) /\ Stage(h) /\ GotOwn(h)
  BY <1>1 DEF Answering, Paired
<1>3. Quiet(h) /\ Answers(LastSent(h))
  BY <1>2 DEF Stage
<1>4. PICK answer : answer = [cmd |-> current.cmd, payload |-> current.payload]
  OBVIOUS
<1>5. answer.cmd = current.cmd /\ answer.payload = current.payload
      /\ AnswerTo(LastSent(h), answer)
  BY <1>3, <1>4 DEF Answers
<1>6. AnswerTo(LastSent(h), current)
  BY <1>5 DEF AnswerTo
<1>7. GotOwn(h)'
  BY <1>1, <1>2, <1>6, GotGrows
<1>8. Quiet(h)' /\ ~Answering(h)'
  BY <1>1, <1>3 DEF Quiet, Own, Answering
<1> QED
  BY <1>7, <1>8 DEF Stage

\* A host that is alone gets a channel nobody uses.
LEMMA HeardQuiet ==
  ASSUME DInv, ChannelInv, ChannelsKept, NEW h \in Hosts, Alone(h)',
         phase = "writing", phase' = "reading",
         UNCHANGED <<channels, queue, sending, sent>>,
         Heard(h), Takes(h, current), ~HasChannel(h)
  PROVE  AnswerTo(LastSent(h), current) /\ Quiet(h)' /\ ~Answering(h)'
<1>1. /\ h \in waiting /\ sent[h] # <<>> /\ LastSent(h).cmd = current.cmd
      /\ HasChannel(h)' /\ InitAnswered(h) /\ chan'[h] = current.payload[2]
      /\ got'[h] = Append(got[h], [to |-> Len(sent[h]), answer |-> current])
  BY DEF Heard
<1>2. LastSent(h).cmd = InitCommand /\ NonceOf(LastSent(h).payload, h)
  BY <1>1 DEF ChannelInv, SentInv
<1>3. PICK m : m = LastSent(h)
  OBVIOUS
<1>4. m \in Addressed
  BY <1>1, <1>3 DEF LastSent, DInv, HostInv
<1>5. m.payload # <<>> /\ Head(m.payload) = h
  BY <1>2, <1>3, <1>4 DEF NonceOf, Addressed
<1>6. Len(current.payload) = 2 /\ Head(current.payload) = h /\ current.cmd = InitCommand
  BY <1>1 DEF InitAnswered, DInv, ResponseInv, Writing
<1>7. AnswerTo(m, current)
  BY <1>2, <1>3, <1>5, <1>6, Commands DEF AnswerTo, NeedsAnswer
<1>8. h \notin DOMAIN sending
  BY <1>1 DEF ChannelInv, AskingInv, OneInit, NotAsking
<1>9. PICK c : c = chan'[h]
  OBVIOUS
<1>10. ~Owned(c)
  <2>1. SUFFICES ASSUME NEW o \in Hosts, HasChannel(o), chan[o] = c PROVE FALSE
    BY DEF Owned
  <2>2. HasChannel(o)' /\ chan'[o] = c /\ o # h
    BY <2>1 DEF ChannelsKept
  <2> QED
    BY <1>1, <1>9, <2>2 DEF Alone
<1>11. c \notin DOMAIN channels
  BY <1>10 DEF ChannelInv, OwnedInv
<1>12. Own(c) = {}
  <2>1. SUFFICES ASSUME NEW i \in DOMAIN queue, OnChannel(queue[i], c) PROVE FALSE
    BY DEF Own
  <2>2. EventOwned(queue[i])
    BY DEF ChannelInv, OwnedInv
  <2> QED
    BY <1>10, <2>1, <2>2 DEF EventOwned, OnChannel
<1>13. Quiet(h)' /\ ~Answering(h)'
  BY <1>8, <1>9, <1>11, <1>12 DEF Quiet, Own, Answering
<1> QED
  BY <1>3, <1>7, <1>13

\* It has taken one answer, to its INIT, and nothing of its requests is on its way.
LEMMA HeardInit ==
  ASSUME DInv, ChannelInv, ChannelsKept, NEW h \in Hosts, Alone(h)', Paired(h),
         Alone(h), phase = "writing", phase' = "reading",
         UNCHANGED <<channels, queue, sending, sent>>,
         Heard(h), Takes(h, current), ~HasChannel(h)
  PROVE  Stage(h)' /\ GotOwn(h)'
<1>1. AnswerTo(LastSent(h), current) /\ Quiet(h)' /\ ~Answering(h)'
  BY HeardQuiet
<1>2. /\ sent[h] # <<>>
      /\ got'[h] = Append(got[h], [to |-> Len(sent[h]), answer |-> current])
  BY DEF Heard
<1>3. GotOwn(h)'
  BY <1>1, <1>2, GotGrows DEF Paired
<1> QED
  BY <1>1, <1>3 DEF Stage

\* A packet of a response concerns the hosts that take it.
LEMMA WritePacketPaired ==
  ASSUME DInv, ChannelInv, PairedInv, WritePacket, NEW h \in Hosts \ gaveUp'
  PROVE  Paired(h)'
<1>1. /\ UNCHANGED <<channels, queue>> /\ queue \in Seq(Events)
      /\ QueueStep(OtherEvent) /\ ~OnChannel(OtherEvent, chan[h])
  BY DEF WritePacket, reassemblerVars, QueueStep, DInv, HostInv, OtherEvent, OnChannel
<1>2. CASE ~ResponseWritten(response)
  <2>1. UNCHANGED <<chan, sending, waiting, sent, got, gaveUp, phase, current>>
    BY <1>2, WritePacketFacts DEF hostVars
  <2>2. ChannelsKept /\ Paired(h)
    BY <2>1, HostsIdle DEF PairedInv
  <2>3. Elsewhere(h)
    BY <1>1, <2>1 DEF Elsewhere, Answering, Answers, LastSent
  <2> QED
    BY <1>1, <2>1, <2>2, <2>3, PairedStays
<1>3. CASE ResponseWritten(response)
  <2>1. /\ phase = "writing" /\ phase' = "reading"
        /\ UNCHANGED <<sending, sent, gaveUp>>
        /\ \A o \in Hosts : Heard(o)
    BY <1>3, HeardAnswer
  <2>2. ChannelsKept
    BY <2>1 DEF Heard, ChannelsKept
  <2>3. Paired(h) /\ Heard(h)
    BY <2>1 DEF PairedInv
  <2>4. CASE ~Takes(h, current)
    <3>1. /\ h \in waiting' <=> h \in waiting
          /\ got'[h] = got[h] /\ chan'[h] = chan[h]
      BY <2>3, <2>4 DEF Heard
    <3>2. Elsewhere(h)
      BY <1>1, <2>1, <3>1 DEF Elsewhere, Answering
    <3> QED
      BY <1>1, <2>1, <2>2, <2>3, <3>1, <3>2, PairedStays
  <2>5. CASE Takes(h, current)
    <3>1. SUFFICES ASSUME Alone(h)'
                   PROVE  (HasChannel(h)' => Stage(h)') /\ GotOwn(h)'
      BY DEF Paired
    <3>2. Alone(h)
      BY <2>2, <3>1, AloneBefore
    <3>3. CASE HasChannel(h)
      BY <1>1, <2>1, <2>3, <2>5, <3>2, <3>3, HeardOwn
    <3>4. CASE ~HasChannel(h)
      BY <1>1, <2>1, <2>2, <2>3, <2>5, <3>1, <3>2, <3>4, HeardInit
    <3> QED
      BY <3>3, <3>4
  <2> QED
    BY <2>4, <2>5
<1> QED
  BY <1>2, <1>3

\* How hosts come by their channels is inductive beside DInv and DeclaredInv.
LEMMA ChannelStep ==
  ASSUME DInv, DeclaredInv, ChannelInv, [Next]_vars
  PROVE  ChannelInv'
<1>1. CASE KernelEvent \/ Skip \/ Answer \/ Fail \/ UNCHANGED vars
  BY <1>1, IdleChannel
<1>2. ASSUME NEW h \in Hosts, NEW m \in Requests \cup {InitRequest(h)}, Begin(h, m)
      PROVE  ChannelInv'
  BY <1>2, BeginsMessage, BeginsChannel
<1>3. ASSUME NEW h \in Hosts, GiveUp(h)
      PROVE  ChannelInv'
  BY <1>3, BeginsMessage, BeginsChannel
<1>4. ASSUME NEW h \in Hosts, WriteReport(h)
      PROVE  ChannelInv'
  BY <1>4, WriteReportChannel
<1>5. CASE Receive
  BY <1>5, ReceiveChannel
<1>6. CASE WritePacket
  BY <1>6, WritePacketChannel
<1> QED
  BY <1>1, <1>2, <1>3, <1>4, <1>5, <1>6 DEF Next, Loop

\* What hosts took is inductive beside these.
LEMMA PairedStep ==
  ASSUME DInv, DeclaredInv, ChannelInv, PairedInv, [Next]_vars
  PROVE  PairedInv'
<1>1. CASE KernelEvent \/ Skip \/ Answer \/ Fail \/ UNCHANGED vars
  <2>1. UNCHANGED gaveUp
    BY <1>1, IdleChannel DEF hostVars
  <2>2. \A h \in Hosts \ gaveUp : Paired(h)'
    BY <1>1, IdlePaired DEF PairedInv
  <2> QED
    BY <2>1, <2>2 DEF PairedInv
<1>2. ASSUME NEW h \in Hosts, NEW m \in Requests \cup {InitRequest(h)}, Begin(h, m)
      PROVE  PairedInv'
  <2>1. Begins(h, m) /\ m \in Message
    BY <1>2, BeginsMessage
  <2>2. waiting' = waiting \cup {h} /\ h \notin waiting
    BY <1>2 DEF Begin
  <2>3. \A o \in Hosts \ gaveUp' : Paired(o)'
    BY <2>1, <2>2, BeginPaired
  <2> QED
    BY <2>3 DEF PairedInv
<1>3. ASSUME NEW h \in Hosts, GiveUp(h)
      PROVE  PairedInv'
  <2>1. Begins(h, CancelMessage) /\ CancelMessage \in Message
    BY <1>3, BeginsMessage
  <2>2. h \in gaveUp'
    BY <1>3 DEF GiveUp
  <2>3. \A o \in Hosts \ gaveUp' : Paired(o)'
    BY <2>1, <2>2, BeginPaired
  <2> QED
    BY <2>3 DEF PairedInv
<1>4. ASSUME NEW h \in Hosts, WriteReport(h)
      PROVE  PairedInv'
  BY <1>4, WriteReportPaired DEF PairedInv
<1>5. CASE Receive
  BY <1>5, ReceivePaired DEF PairedInv
<1>6. CASE WritePacket
  BY <1>6, WritePacketPaired DEF PairedInv
<1> QED
  BY <1>1, <1>2, <1>3, <1>4, <1>5, <1>6 DEF Next, Loop

\* At the start nobody has a channel.
LEMMA PairedAtStart == Init => ChannelInv /\ PairedInv
<1> SUFFICES ASSUME Init PROVE ChannelInv /\ PairedInv
  OBVIOUS
<1>1. /\ DOMAIN channels = {} /\ DOMAIN sending = {} /\ queue = <<>>
      /\ phase = "reading" /\ waiting = {} /\ gaveUp = {}
      /\ \A h \in Hosts : sent[h] = <<>> /\ got[h] = <<>>
  BY DEF Init, ReassemblerInit, EmptyMap
<1>2. \A h \in Hosts : ~HasChannel(h) /\ GotOwn(h)
  BY <1>1 DEF HasChannel, GotOwn
<1>3. OwnedInv
  BY <1>1 DEF OwnedInv
<1>4. AskingInv
  BY <1>1 DEF AskingInv, OneInit, InitQueued, InitAnswered
<1>5. SentInv
  BY <1>1, <1>2 DEF SentInv
<1> QED
  BY <1>2, <1>3, <1>4, <1>5 DEF ChannelInv, PairedInv, Paired

\* What a host that is alone and waits has taken is its own.
LEMMA PairedPatient == PairedInv => PatientPaired
  BY DEF PairedInv, Paired, GotOwn, PatientPaired

\* When requests fit, a host that is alone on its channel and never gave up takes
\* only answers to the requests it takes them for, whatever the kernel drops,
\* however other hosts crowd, give up or share their channels, and wherever the
\* device stops.
THEOREM AloneAndPatient ==
  ASSUME RequestsFit
  PROVE  Spec => []PatientPaired
<1>1. DInv /\ DeclaredInv /\ [Next]_vars => DeclaredInv'
  BY DeclaredStep
<1>2. DInv /\ DeclaredInv /\ ChannelInv /\ [Next]_vars => ChannelInv'
  BY ChannelStep
<1>3. DInv /\ DeclaredInv /\ ChannelInv /\ PairedInv /\ [Next]_vars => PairedInv'
  BY PairedStep
<1> QED
  BY <1>1, <1>2, <1>3, DInvInit, DInvStep, DeclaredInit, PairedAtStart, PairedPatient, PTL
     DEF Spec

-----------------------------------------------------------------------------
(***************************************************************************)
(* A host that is alone and gives up still takes only its own answers.     *)
(***************************************************************************)

\* Item y comes right after item x in the same message.
Follows(line, at, x, y) == x < y /\ line[x] = line[y] /\ at[y] = at[x] + 1

\* The items of a trail are in the order of their messages and of their places in
\* them, none is missing, and all but that of the table are of messages after b.
Ordered(T, line, at, b) ==
  /\ \A x, y \in T : x < y => line[x] <= line[y] /\ (line[x] = line[y] => at[x] < at[y])
  /\ \A y \in T \ {0} : b < line[y]
  /\ \A y \in T \ {0} : at[y] # 0 => \E x \in T : Follows(line, at, x, y)

\* The order is kept.
Monotone(s) == \A x, y \in DOMAIN s : x < y => s[x] < s[y]

\* What an item follows is kept with it.
Keeps(s, line, at) ==
  \A y \in DOMAIN s \ {0} :
    s[y] # 0 /\ \A x \in DOMAIN line : Follows(line, at, x, s[y]) => \E z \in DOMAIN s : s[z] = x

\* A trail some items of which go, and the others move.
LEMMA OrderedMoves ==
  ASSUME NEW T \in SUBSET Nat, NEW S \in SUBSET Nat, NEW s \in [S -> T],
         NEW line \in [T -> Nat], NEW at \in [T -> Nat], NEW b \in Nat, NEW d \in Nat,
         Ordered(T, line, at, b), Monotone(s), Keeps(s, line, at),
         \A y \in S \ {0} : d < line[s[y]],
         NEW line2, line2 = [i \in S |-> line[s[i]]],
         NEW at2, at2 = [i \in S |-> at[s[i]]]
  PROVE  Ordered(S, line2, at2, d)
<1>1. \A i \in S : line2[i] = line[s[i]] /\ at2[i] = at[s[i]] /\ s[i] \in T /\ s[i] \in Nat
  OBVIOUS
<1>2. ASSUME NEW x \in S, NEW y \in S, x < y
      PROVE  line2[x] <= line2[y] /\ (line2[x] = line2[y] => at2[x] < at2[y])
  <2>1. s[x] < s[y]
    BY <1>2 DEF Monotone
  <2> QED
    BY <1>1, <2>1 DEF Ordered
<1>3. ASSUME NEW y \in S \ {0}, at2[y] # 0
      PROVE  \E x \in S : Follows(line2, at2, x, y)
  <2>1. s[y] \in T \ {0} /\ at[s[y]] # 0
    BY <1>1, <1>3 DEF Keeps
  <2>2. PICK w \in T : Follows(line, at, w, s[y])
    BY <2>1 DEF Ordered
  <2>3. PICK z \in S : s[z] = w
    BY <2>1, <2>2 DEF Keeps
  <2>4. s[z] < s[y] /\ line[s[z]] = line[s[y]] /\ at[s[y]] = at[s[z]] + 1
    BY <2>2, <2>3 DEF Follows
  <2>5. z < y
    <3>1. SUFFICES ASSUME ~(z < y) PROVE FALSE
      OBVIOUS
    <3>2. y = z \/ y < z
      BY <3>1
    <3>3. s[y] = s[z] \/ s[y] < s[z]
      BY <3>2 DEF Monotone
    <3> QED
      BY <1>1, <2>4, <3>3
  <2>6. Follows(line2, at2, z, y)
    BY <1>1, <2>4, <2>5 DEF Follows
  <2> QED
    BY <2>6
<1>4. \A y \in S \ {0} : d < line2[y]
  BY <1>1
<1> QED
  BY <1>2, <1>3, <1>4 DEF Ordered

\* A function on a trail with item n added, or changed, to have the value v.
Prolongs(f, g, T, n, v) ==
  f[n] = v /\ \A i \in T : i # n => f[i] = g[i]

\* The items of a trail are not after item n, nor of message l or a later one.
UpTo(T, line, n, l) == \A x \in T : x <= n /\ line[x] < l

\* A trail with a message more, that begins at the end.
LEMMA OrderedBegins ==
  ASSUME NEW T \in SUBSET Nat, NEW line \in [T -> Nat], NEW at \in [T -> Nat],
         NEW b \in Nat, NEW n \in Nat, n # 0, NEW l \in Nat, Ordered(T, line, at, b),
         UpTo(T, line, n, l), b < l, NEW S, S = T \cup {n},
         NEW line2, Prolongs(line2, line, T, n, l), NEW at2, Prolongs(at2, at, T, n, 0)
  PROVE  Ordered(S, line2, at2, b)
<1>1. /\ line2[n] = l /\ at2[n] = 0 /\ n \in S
      /\ \A i \in S : i # n => i \in T /\ i < n /\ line2[i] = line[i] /\ at2[i] = at[i]
  BY DEF Prolongs, UpTo
<1>2. ASSUME NEW x \in S, NEW y \in S, x < y
      PROVE  line2[x] <= line2[y] /\ (line2[x] = line2[y] => at2[x] < at2[y])
  <2>1. x # n /\ x \in T
    BY <1>1, <1>2
  <2>2. CASE y = n
    BY <1>1, <2>1, <2>2 DEF UpTo
  <2>3. CASE y # n
    BY <1>1, <1>2, <2>1, <2>3 DEF Ordered
  <2> QED
    BY <2>2, <2>3
<1>3. ASSUME NEW y \in S \ {0}, at2[y] # 0
      PROVE  \E x \in S : Follows(line2, at2, x, y)
  <2>1. y # n /\ y \in T \ {0} /\ at[y] # 0 /\ y < n
    BY <1>1, <1>3
  <2>2. PICK x \in T : Follows(line, at, x, y)
    BY <2>1 DEF Ordered
  <2>3. x # n /\ x \in S
    BY <2>1, <2>2 DEF Follows
  <2>4. Follows(line2, at2, x, y)
    BY <1>1, <2>1, <2>2, <2>3 DEF Follows
  <2> QED
    BY <2>3, <2>4
<1>4. \A y \in S \ {0} : b < line2[y]
  BY <1>1 DEF Ordered
<1> QED
  BY <1>2, <1>3, <1>4 DEF Ordered

\* A trail whose last message goes on.
LEMMA OrderedGoesOn ==
  ASSUME NEW T \in SUBSET Nat, NEW line \in [T -> Nat], NEW at \in [T -> Nat],
         NEW b \in Nat, NEW n \in T, n # 0, Ordered(T, line, at, b), T \in SUBSET (0 .. n),
         NEW S, S = T \cup {n + 1}, NEW line2, Prolongs(line2, line, T, n + 1, line[n]),
         NEW at2, Prolongs(at2, at, T, n + 1, at[n] + 1)
  PROVE  Ordered(S, line2, at2, b)
<1>1. /\ line2[n + 1] = line[n] /\ at2[n + 1] = at[n] + 1 /\ n + 1 \in S /\ n \in S
      /\ n + 1 \notin T
      /\ \A i \in S : i # n + 1 => i \in T /\ i <= n /\ line2[i] = line[i] /\ at2[i] = at[i]
  BY DEF Prolongs
<1>2. ASSUME NEW x \in S, NEW y \in S, x < y
      PROVE  line2[x] <= line2[y] /\ (line2[x] = line2[y] => at2[x] < at2[y])
  <2>1. x # n + 1 /\ x \in T /\ x <= n
    BY <1>1, <1>2
  <2>2. CASE y = n + 1
    <3>1. CASE x = n
      BY <1>1, <2>2, <3>1
    <3>2. CASE x # n
      <4>1. x < n
        BY <2>1, <3>2
      <4>2. line[x] <= line[n] /\ (line[x] = line[n] => at[x] < at[n])
        BY <2>1, <4>1 DEF Ordered
      <4> QED
        BY <1>1, <2>1, <2>2, <4>2
    <3> QED
      BY <3>1, <3>2
  <2>3. CASE y # n + 1
    BY <1>1, <1>2, <2>1, <2>3 DEF Ordered
  <2> QED
    BY <2>2, <2>3
<1>3. ASSUME NEW y \in S \ {0}, at2[y] # 0
      PROVE  \E x \in S : Follows(line2, at2, x, y)
  <2>1. CASE y = n + 1
    <3>1. Follows(line2, at2, n, y)
      BY <1>1, <2>1 DEF Follows
    <3> QED
      BY <1>1, <3>1
  <2>2. CASE y # n + 1
    <3>1. y \in T \ {0} /\ at[y] # 0 /\ y <= n
      BY <1>1, <1>3, <2>2
    <3>2. PICK x \in T : Follows(line, at, x, y)
      BY <3>1 DEF Ordered
    <3>3. x # n + 1 /\ x \in S
      BY <1>1, <3>2
    <3>4. Follows(line2, at2, x, y)
      BY <1>1, <2>2, <3>1, <3>2, <3>3 DEF Follows
    <3> QED
      BY <3>3, <3>4
  <2> QED
    BY <2>1, <2>2
<1>4. \A y \in S \ {0} : b < line2[y]
  BY <1>1 DEF Ordered
<1> QED
  BY <1>2, <1>3, <1>4 DEF Ordered

\* The table has part of message m of channel c, up to the place a.
InTable(table, m, c, a) == c \in DOMAIN table /\ Behind(table, m, c) /\ table[c].next_seq = a

\* An event is the packet of message m of channel c at the place a.
PacketAt(event, m, c, a) == PacketIn(PacketOf(event), m, c) /\ Place(PacketOf(event)) = a

\* Where something of the channel of h is: in the table, which is item 0, in the
\* queue, or still to be written.
Items(h) ==
  {i \in 0 .. Len(queue) + 1 :
     \/ i = 0 /\ chan[h] \in DOMAIN channels
     \/ i \in Own(chan[h])
     \/ i = Len(queue) + 1 /\ h \in DOMAIN sending}

\* Item i is of the l-th message of h, at the place a.
ItemOf(h, i, l, a) ==
  \/ i = 0 /\ InTable(channels, sent[h][l], chan[h], a)
  \/ i \in Own(chan[h]) /\ PacketAt(queue[i], sent[h][l], chan[h], a)
  \/ i = Len(queue) + 1 /\ h \in DOMAIN sending /\ l = Len(sent[h]) /\ CutPlace(sending[h]) = a

\* Which messages of h, after the b-th, are where.
Trail(h, line, at, b) ==
  /\ b \in 0 .. Len(sent[h])
  /\ line \in [Items(h) -> DOMAIN sent[h]] /\ at \in [Items(h) -> Nat]
  /\ \A i \in Items(h) : ItemOf(h, i, line[i], at[i])
  /\ Ordered(Items(h), line, at, b)

\* Which messages of h, up to the b-th, were answered, or the b-th is.
Origins(h, origin, b) ==
  /\ origin \in [DOMAIN got[h] -> DOMAIN sent[h]]
  /\ \A k \in DOMAIN got[h] :
       /\ origin[k] <= got[h][k].to /\ origin[k] <= b
       /\ AnswerTo(sent[h][origin[k]], got[h][k].answer)
  /\ \A j, k \in DOMAIN got[h] : j < k => origin[j] < origin[k]
  /\ Answering(h) => /\ b \in DOMAIN sent[h] /\ Answers(sent[h][b])
                     /\ \A k \in DOMAIN got[h] : origin[k] < b

\* The messages of a host that is alone: answered, then on their way.
Trailed(h) ==
  Alone(h) /\ HasChannel(h) =>
    \E line, at, b, origin : Trail(h, line, at, b) /\ Origins(h, origin, b)

\* So it is for every host that lost no packet.
TrailInv == \A h \in Hosts \ lost : Trailed(h)

\* The items of h move by s, and none goes.
Moves(h, s) ==
  /\ s \in [Items(h)' -> Items(h)] /\ Monotone(s)
  /\ \A i \in Items(h)' : s[i] = 0 <=> i = 0
  /\ \A i \in Items(h)', l \in DOMAIN sent[h], a \in Nat :
       ItemOf(h, s[i], l, a) => ItemOf(h, i, l, a)'
  /\ \A x \in Items(h) : \E z \in Items(h)' : s[z] = x

\* The packets of channel c in the queue move by g.
QueueMoves(c, g) ==
  /\ g \in [Nat -> Nat]
  /\ \A x, y \in Own(c)' : x < y => g[x] < g[y]
  /\ g[0] = 0 /\ g[Len(queue') + 1] = Len(queue) + 1
  /\ \A i \in Own(c)' : g[i] \in Own(c) /\ queue'[i] = queue[g[i]]
  /\ \A x \in Own(c) : \E z \in Own(c)' : g[z] = x

\* Items are numbers; those of the queue are neither the first nor the last.
LEMMA ItemsFacts ==
  ASSUME queue \in Seq(Events), NEW h
  PROVE  /\ Items(h) \in SUBSET Nat /\ Len(queue) \in Nat
         /\ \A i \in Items(h) : i <= Len(queue) + 1
         /\ \A i \in Own(chan[h]) : i \in Items(h) /\ i # 0 /\ i <= Len(queue)
                                    /\ i \in DOMAIN queue
         /\ 0 \in Items(h) <=> chan[h] \in DOMAIN channels
         /\ Len(queue) + 1 \in Items(h) <=> h \in DOMAIN sending
         /\ \A i \in Items(h) : i # 0 /\ i # Len(queue) + 1 => i \in Own(chan[h])
<1>1. Len(queue) \in Nat
  OBVIOUS
<1>2. \A i \in Own(chan[h]) : i \in DOMAIN queue /\ i \in 1 .. Len(queue)
  BY DEF Own
<1> QED
  BY <1>1, <1>2 DEF Items

\* Items move as the queue does while nothing else of the host changes.
LEMMA ItemsMoved ==
  ASSUME queue \in Seq(Events), queue' \in Seq(Events), NEW h \in Hosts, Elsewhere(h),
         NEW g, QueueMoves(chan[h], g)
  PROVE  \E s : Moves(h, s)
<1>1. PICK c : c = chan[h] /\ chan'[h] = c
  BY DEF Elsewhere
<1>2. /\ Items(h) \in SUBSET Nat
      /\ Len(queue) \in Nat
      /\ \A i \in Own(c) : i \in Items(h) /\ i # 0 /\ i <= Len(queue)
      /\ 0 \in Items(h) <=> c \in DOMAIN channels
      /\ Len(queue) + 1 \in Items(h) <=> h \in DOMAIN sending
      /\ \A i \in Items(h) : i # 0 /\ i # Len(queue) + 1 => i \in Own(c)
  BY <1>1, ItemsFacts
<1>3. /\ Items(h)' \in SUBSET (0 .. Len(queue') + 1)
      /\ Len(queue') \in Nat
      /\ \A i \in Own(c)' : i \in Items(h)' /\ i # 0 /\ i <= Len(queue')
      /\ 0 \in Items(h)' <=> c \in DOMAIN channels'
      /\ Len(queue') + 1 \in Items(h)' <=> h \in DOMAIN sending'
      /\ \A i \in Items(h)' : i # 0 /\ i # Len(queue') + 1 => i \in Own(c)'
  <2>1. \A i \in Own(c)' : i \in 1 .. Len(queue')
    BY DEF Own
  <2>2. Own(chan[h])' = Own(c)'
    BY <1>1 DEF Own
  <2> QED
    BY <1>1, <2>1, <2>2 DEF Items
<1>4. /\ g \in [Nat -> Nat]
      /\ \A x, y \in Own(c)' : x < y => g[x] < g[y]
      /\ g[0] = 0 /\ g[Len(queue') + 1] = Len(queue) + 1
      /\ \A i \in Own(c)' : g[i] \in Own(c) /\ queue'[i] = queue[g[i]]
      /\ \A x \in Own(c) : \E z \in Own(c)' : g[z] = x
  BY <1>1 DEF QueueMoves
<1>5. /\ h \in DOMAIN sending' <=> h \in DOMAIN sending
      /\ c \in DOMAIN channels' <=> c \in DOMAIN channels
      /\ sent'[h] = sent[h]
      /\ h \in DOMAIN sending => sending'[h] = sending[h]
      /\ c \in DOMAIN channels => channels'[c] = channels[c]
  BY <1>1 DEF Elsewhere
<1>6. ASSUME NEW i \in Items(h)'
      PROVE  /\ g[i] \in Items(h) /\ (g[i] = 0 <=> i = 0)
             /\ g[i] = Len(queue) + 1 <=> i = Len(queue') + 1
  <2>1. CASE i = 0
    <3>1. g[i] = 0 /\ 0 \in Items(h)
      BY <1>2, <1>3, <1>4, <1>5, <1>6, <2>1
    <3>2. Len(queue) + 1 # 0 /\ Len(queue') + 1 # 0
      BY <1>2, <1>3
    <3> QED
      BY <2>1, <3>1, <3>2
  <2>2. CASE i = Len(queue') + 1
    <3>1. i # 0 /\ Len(queue) + 1 # 0
      BY <1>2, <1>3, <2>2
    <3> QED
      BY <1>2, <1>3, <1>4, <1>5, <1>6, <2>2, <3>1
  <2>3. CASE i # 0 /\ i # Len(queue') + 1
    <3>1. g[i] \in Own(c)
      BY <1>3, <1>4, <1>6, <2>3
    <3>2. g[i] \in Items(h) /\ g[i] # 0 /\ g[i] <= Len(queue) /\ g[i] \in Nat
      BY <1>2, <3>1
    <3> QED
      BY <1>2, <2>3, <3>2
  <2> QED
    BY <2>1, <2>2, <2>3
<1>7. PICK s : s = [i \in Items(h)' |-> g[i]]
  OBVIOUS
<1>8. s \in [Items(h)' -> Items(h)] /\ \A i \in Items(h)' : s[i] = g[i]
  BY <1>6, <1>7
<1>9. Monotone(s)
  <2>1. SUFFICES ASSUME NEW x \in Items(h)', NEW y \in Items(h)', x < y
                 PROVE  g[x] < g[y]
    BY <1>8 DEF Monotone
  <2>2. y # 0 /\ x # Len(queue') + 1
    BY <1>3, <2>1
  <2>3. /\ g[x] \in Nat /\ g[y] \in Nat /\ g[y] # 0
        /\ g[x] \in Items(h) /\ g[y] \in Items(h) /\ g[x] # Len(queue) + 1
    BY <1>2, <1>6, <2>2
  <2>4. CASE x = 0
    <3>1. g[x] = 0
      BY <1>4, <2>4
    <3> QED
      BY <2>3, <3>1
  <2>5. CASE y = Len(queue') + 1
    <3>1. g[x] <= Len(queue)
      <4>1. g[x] = 0 \/ g[x] \in Own(c)
        BY <1>2, <2>3
      <4> QED
        BY <1>2, <4>1
    <3>2. g[y] = Len(queue) + 1
      BY <1>4, <2>5
    <3> QED
      BY <1>2, <2>3, <3>1, <3>2
  <2>6. CASE x # 0 /\ y # Len(queue') + 1
    <3>1. x \in Own(c)' /\ y \in Own(c)'
      BY <1>3, <2>2, <2>6
    <3> QED
      BY <1>4, <2>1, <3>1
  <2> QED
    BY <2>4, <2>5, <2>6
<1>10. ASSUME NEW x \in Items(h)
       PROVE  \E z \in Items(h)' : s[z] = x
  <2>1. CASE x = 0
    BY <1>2, <1>3, <1>4, <1>5, <1>8, <1>10, <2>1
  <2>2. CASE x = Len(queue) + 1
    <3>1. Len(queue') + 1 \in Items(h)' /\ g[Len(queue') + 1] = x
      BY <1>2, <1>3, <1>4, <1>5, <1>10, <2>2
    <3> QED
      BY <1>8, <3>1
  <2>3. CASE x # 0 /\ x # Len(queue) + 1
    <3>1. PICK z \in Own(c)' : g[z] = x
      BY <1>2, <1>4, <1>10, <2>3
    <3> QED
      BY <1>3, <1>8, <3>1
  <2> QED
    BY <2>1, <2>2, <2>3
<1>11. ASSUME NEW i \in Items(h)', NEW l \in DOMAIN sent[h], NEW a \in Nat, ItemOf(h, s[i], l, a)
       PROVE  ItemOf(h, i, l, a)'
  <2>1. PICK m : m = sent[h][l] /\ sent'[h][l] = m
    BY <1>5
  <2>2. CASE i = 0
    <3>1. s[i] = 0 /\ 0 \notin Own(c) /\ 0 # Len(queue) + 1
      BY <1>2, <1>4, <1>8, <1>11, <2>2
    <3>2. InTable(channels, m, c, a)
      BY <1>1, <1>11, <2>1, <3>1 DEF ItemOf
    <3>3. InTable(channels', m, c, a)
      BY <1>5, <3>2 DEF InTable, Behind
    <3> QED
      BY <1>1, <2>1, <2>2, <3>3 DEF ItemOf
  <2>3. CASE i = Len(queue') + 1
    <3>1. s[i] = Len(queue) + 1 /\ s[i] \notin Own(c) /\ s[i] # 0
      <4>1. Len(queue) + 1 # 0 /\ ~(Len(queue) + 1 <= Len(queue))
        BY <1>2
      <4> QED
        BY <1>2, <1>4, <1>8, <2>3, <4>1
    <3>2. h \in DOMAIN sending /\ l = Len(sent[h]) /\ CutPlace(sending[h]) = a
      BY <1>1, <1>11, <3>1 DEF ItemOf
    <3> QED
      BY <1>5, <2>3, <3>2 DEF ItemOf
  <2>4. CASE i # 0 /\ i # Len(queue') + 1
    <3>1. i \in Own(c)' /\ s[i] \in Own(c) /\ queue'[i] = queue[s[i]]
      BY <1>3, <1>4, <1>8, <1>11, <2>4
    <3>2. s[i] # 0 /\ s[i] # Len(queue) + 1
      BY <1>2, <3>1
    <3>3. PacketAt(queue[s[i]], m, c, a)
      BY <1>1, <1>11, <2>1, <3>2 DEF ItemOf
    <3>4. PacketAt(queue'[i], m, c, a)
      BY <3>1, <3>3
    <3> QED
      BY <1>1, <2>1, <3>1, <3>4 DEF ItemOf, Own
  <2> QED
    BY <2>2, <2>3, <2>4
<1> QED
  <2>1. \A i \in Items(h)' : s[i] = 0 <=> i = 0
    BY <1>6, <1>8
  <2>2. Moves(h, s)
    BY <1>8, <1>9, <1>10, <1>11, <2>1 DEF Moves
  <2> QED
    BY <2>2

\* An event that is not of channel c moves its packets, when it joins the queue or
\* leaves it.
LEMMA QueueStepMoves ==
  ASSUME queue \in Seq(Events), NEW c, NEW event \in Events, QueueStep(event),
         Enqueue(event) => ~OnChannel(event, c),
         queue # <<>> /\ queue' = Tail(queue) => ~OnChannel(Head(queue), c)
  PROVE  queue' \in Seq(Events) /\ \E g : QueueMoves(c, g)
<1>1. PICK n \in Nat : n = Len(queue)
  OBVIOUS
<1>2. CASE UNCHANGED queue
  <2>1. PICK g : g = [i \in Nat |-> i]
    OBVIOUS
  <2>2. \A i \in Nat : g[i] = i
    BY <2>1
  <2>3. Own(c)' = Own(c) /\ \A i \in Own(c) : i \in Nat
    BY <1>2 DEF Own
  <2>4. QueueMoves(c, g)
    BY <1>1, <1>2, <2>1, <2>2, <2>3 DEF QueueMoves
  <2> QED
    BY <1>2, <2>4
<1>3. CASE queue # <<>> /\ queue' = Tail(queue)
  <2>1. PICK g : g = [i \in Nat |-> IF i = 0 THEN 0 ELSE i + 1]
    OBVIOUS
  <2>2. g \in [Nat -> Nat] /\ g[0] = 0 /\ \A i \in Nat : i # 0 => g[i] = i + 1
    BY <2>1
  <2>3. /\ Len(queue') = n - 1 /\ queue' \in Seq(Events) /\ n # 0
        /\ \A i \in 1 .. n - 1 : queue'[i] = queue[i + 1]
        /\ DOMAIN queue = 1 .. n /\ DOMAIN queue' = 1 .. n - 1
        /\ queue[1] = Head(queue)
    BY <1>1, <1>3
  <2>4. ASSUME NEW i \in Own(c)'
        PROVE  g[i] \in Own(c) /\ queue'[i] = queue[g[i]]
    <3>1. i \in 1 .. n - 1 /\ OnChannel(queue'[i], c)
      BY <2>3, <2>4 DEF Own
    <3>2. g[i] = i + 1 /\ i + 1 \in DOMAIN queue /\ queue'[i] = queue[i + 1]
      BY <2>2, <2>3, <3>1
    <3> QED
      BY <3>1, <3>2 DEF Own
  <2>5. ASSUME NEW x \in Own(c)
        PROVE  \E z \in Own(c)' : g[z] = x
    <3>1. x \in 1 .. n /\ OnChannel(queue[x], c)
      BY <2>3, <2>5 DEF Own
    <3>2. x # 1
      BY <1>3, <2>3, <3>1
    <3>3. PICK z \in 1 .. n - 1 : x = z + 1
      <4>1. x - 1 \in 1 .. n - 1 /\ x = (x - 1) + 1
        BY <3>1, <3>2
      <4> QED
        BY <4>1
    <3>4. g[z] = x /\ queue'[z] = queue[x]
      <4>1. z \in Nat /\ z # 0
        OBVIOUS
      <4>2. g[z] = z + 1 /\ queue'[z] = queue[z + 1]
        BY <2>2, <2>3, <4>1
      <4> QED
        BY <3>3, <4>2
    <3>5. z \in Own(c)'
      BY <2>3, <3>1, <3>3, <3>4 DEF Own
    <3> QED
      BY <3>4, <3>5
  <2>6. \A x, y \in Own(c)' : x < y => g[x] < g[y]
    <3>1. \A x \in Own(c)' : x \in Nat /\ x # 0
      <4>1. \A x \in Own(c)' : x \in 1 .. n - 1
        BY <2>3 DEF Own
      <4> QED
        BY <4>1
    <3>2. \A x \in Own(c)' : x \in Nat /\ g[x] = x + 1
      BY <2>2, <3>1
    <3> QED
      BY <3>2
  <2>7. g[Len(queue') + 1] = Len(queue) + 1
    BY <1>1, <2>2, <2>3
  <2> QED
    BY <2>2, <2>3, <2>4, <2>5, <2>6, <2>7 DEF QueueMoves
<1>4. CASE Enqueue(event) /\ HasRoom
  <2>1. PICK g : g = [i \in Nat |-> IF i = n + 2 THEN n + 1 ELSE i]
    OBVIOUS
  <2>2. /\ g \in [Nat -> Nat] /\ g[n + 2] = n + 1 /\ g[0] = 0
        /\ \A i \in 1 .. n : g[i] = i
    BY <1>1, <2>1
  <2>3. /\ queue' = Append(queue, event) /\ queue' \in Seq(Events)
        /\ Len(queue') = n + 1
        /\ DOMAIN queue = 1 .. n /\ DOMAIN queue' = 1 .. n + 1
        /\ queue'[n + 1] = event
        /\ \A i \in 1 .. n : queue'[i] = queue[i]
    BY <1>1, <1>4 DEF Enqueue
  <2>4. \A i \in 1 .. n + 1 : i \in 1 .. n \/ i = n + 1
    BY <1>1
  <2>5. Own(c)' = Own(c) /\ \A i \in Own(c) : i \in 1 .. n /\ i \in Nat
    BY <1>4, <2>3, <2>4 DEF Own
  <2>6. g[Len(queue') + 1] = Len(queue) + 1
    BY <1>1, <2>2, <2>3
  <2>7. QueueMoves(c, g)
    BY <2>2, <2>3, <2>5, <2>6 DEF QueueMoves
  <2> QED
    BY <2>3, <2>7
<1>5. CASE Enqueue(event) /\ ~HasRoom
  BY <1>2, <1>5 DEF Enqueue
<1> QED
  BY <1>2, <1>3, <1>4, <1>5 DEF QueueStep

\* What was answered stays so while the step is elsewhere.
LEMMA OriginsStay ==
  ASSUME NEW h \in Hosts, NEW origin, NEW b, Origins(h, origin, b), got'[h] = got[h],
         \A j \in DOMAIN sent[h] : j \in DOMAIN sent'[h] /\ sent'[h][j] = sent[h][j],
         Answering(h)' => Answering(h), AnswerKept(h)
  PROVE  Origins(h, origin, b)'
<1>1. /\ origin \in [DOMAIN got[h] -> DOMAIN sent[h]]
      /\ \A k \in DOMAIN got[h] :
           /\ origin[k] <= got[h][k].to /\ origin[k] <= b
           /\ AnswerTo(sent[h][origin[k]], got[h][k].answer)
      /\ \A j, k \in DOMAIN got[h] : j < k => origin[j] < origin[k]
      /\ Answering(h) => /\ b \in DOMAIN sent[h] /\ Answers(sent[h][b])
                         /\ \A k \in DOMAIN got[h] : origin[k] < b
  BY DEF Origins
<1>2. origin \in [DOMAIN got'[h] -> DOMAIN sent'[h]]
  BY <1>1
<1>3. \A k \in DOMAIN got[h] : sent'[h][origin[k]] = sent[h][origin[k]]
  BY <1>1
<1>4. Answering(h)' => /\ b \in DOMAIN sent'[h] /\ Answers(sent[h][b])'
                       /\ \A k \in DOMAIN got[h] : origin[k] < b
  <2>1. SUFFICES ASSUME Answering(h)'
                 PROVE  Answers(sent[h][b])' /\ b \in DOMAIN sent'[h]
    BY <1>1
  <2>2. PICK m : m = sent[h][b] /\ m = sent'[h][b]
    BY <1>1, <2>1
  <2>3. Answers(m)'
    BY <1>1, <2>1, <2>2 DEF AnswerKept
  <2>4. Answers(sent[h][b])' <=> Answers(m)'
    BY <2>2 DEF Answers
  <2> QED
    BY <1>1, <2>1, <2>3, <2>4
<1>5. /\ origin \in [DOMAIN got'[h] -> DOMAIN sent'[h]]
      /\ \A k \in DOMAIN got'[h] :
           /\ origin[k] <= got'[h][k].to /\ origin[k] <= b
           /\ AnswerTo(sent'[h][origin[k]], got'[h][k].answer)
      /\ \A j, k \in DOMAIN got'[h] : j < k => origin[j] < origin[k]
      /\ Answering(h)' => /\ b \in DOMAIN sent'[h] /\ Answers(sent[h][b])'
                          /\ \A k \in DOMAIN got'[h] : origin[k] < b
  BY <1>1, <1>2, <1>3, <1>4
<1> QED
  BY <1>5 DEF Origins

\* A trail whose items move, and some of which may go.
LEMMA TrailMoves ==
  ASSUME DInv, NEW h \in Hosts, NEW line, NEW at, NEW b, Trail(h, line, at, b),
         Items(h)' \in SUBSET Nat, sent'[h] = sent[h],
         NEW s \in [Items(h)' -> Items(h)], Monotone(s), Keeps(s, line, at),
         NEW d \in 0 .. Len(sent[h]), \A y \in Items(h)' \ {0} : d < line[s[y]],
         \A i \in Items(h)' :
           ItemOf(h, s[i], line[s[i]], at[s[i]]) => ItemOf(h, i, line[s[i]], at[s[i]])'
  PROVE  \E line2, at2 : Trail(h, line2, at2, d)'
<1>1. PICK line2, at2 :
        line2 = [i \in Items(h)' |-> line[s[i]]] /\ at2 = [i \in Items(h)' |-> at[s[i]]]
  OBVIOUS
<1>2. /\ b \in 0 .. Len(sent[h])
      /\ line \in [Items(h) -> DOMAIN sent[h]] /\ at \in [Items(h) -> Nat]
      /\ \A i \in Items(h) : ItemOf(h, i, line[i], at[i])
      /\ Ordered(Items(h), line, at, b)
  BY DEF Trail
<1>3. DOMAIN sent[h] \in SUBSET Nat
  BY DEF DInv, HostInv
<1>4. Items(h) \in SUBSET Nat
  BY ItemsFacts DEF DInv, HostInv
<1>5. line \in [Items(h) -> Nat]
  BY <1>2, <1>3
<1>6. Ordered(Items(h)', line2, at2, d)
  <2>1. b \in Nat /\ d \in Nat
    BY <1>2, <1>3
  <2> QED
    BY <1>1, <1>2, <1>4, <1>5, <2>1, OrderedMoves
<1>7. line2 \in [Items(h)' -> DOMAIN sent'[h]] /\ at2 \in [Items(h)' -> Nat]
  BY <1>1, <1>2
<1>8. ASSUME NEW i \in Items(h)'
      PROVE  ItemOf(h, i, line2[i], at2[i])'
  <2>1. PICK l, a : l = line[s[i]] /\ a = at[s[i]] /\ line2[i] = l /\ at2[i] = a
    BY <1>1
  <2>2. s[i] \in Items(h)
    OBVIOUS
  <2>3. ItemOf(h, s[i], l, a)
    BY <1>2, <2>1, <2>2
  <2>4. ItemOf(h, i, l, a)'
    BY <2>1, <2>3
  <2> QED
    BY <2>1, <2>4
<1>9. Trail(h, line2, at2, d)'
  BY <1>6, <1>7, <1>8 DEF Trail
<1> QED
  BY <1>9

\* The trail of a host stays while the step is elsewhere.
LEMMA TrailedStays ==
  ASSUME DInv, ChannelsKept, NEW h \in Hosts, Trailed(h),
         got'[h] = got[h], sent'[h] = sent[h],
         NEW event \in Events, QueueStep(event),
         Alone(h) /\ HasChannel(h) =>
           /\ Elsewhere(h) /\ AnswerKept(h)
           /\ Enqueue(event) => ~OnChannel(event, chan[h])
           /\ queue # <<>> /\ queue' = Tail(queue) => ~OnChannel(Head(queue), chan[h])
  PROVE  Trailed(h)'
<1>1. SUFFICES ASSUME Alone(h)', HasChannel(h)'
               PROVE  (\E line, at, b, origin : Trail(h, line, at, b) /\ Origins(h, origin, b))'
  BY DEF Trailed
<1>2. Alone(h) /\ HasChannel(h)
  BY <1>1, AloneBefore DEF HasChannel
<1>3. PICK line, at, b, origin : Trail(h, line, at, b) /\ Origins(h, origin, b)
  BY <1>2 DEF Trailed
<1>4. /\ Elsewhere(h) /\ AnswerKept(h)
      /\ Enqueue(event) => ~OnChannel(event, chan[h])
      /\ queue # <<>> /\ queue' = Tail(queue) => ~OnChannel(Head(queue), chan[h])
  BY <1>2
<1>5. Origins(h, origin, b)'
  BY <1>3, <1>4, OriginsStay DEF Elsewhere
<1>6. queue \in Seq(Events)
  BY DEF DInv, HostInv
<1>7. queue' \in Seq(Events) /\ \E g : QueueMoves(chan[h], g)
  BY <1>4, <1>6, QueueStepMoves
<1>8. PICK s : Moves(h, s)
  BY <1>4, <1>6, <1>7, ItemsMoved
<1>9. /\ s \in [Items(h)' -> Items(h)] /\ Monotone(s)
      /\ \A i \in Items(h)' : s[i] = 0 <=> i = 0
      /\ \A i \in Items(h)', l \in DOMAIN sent[h], a \in Nat :
           ItemOf(h, s[i], l, a) => ItemOf(h, i, l, a)'
      /\ \A x \in Items(h) : \E z \in Items(h)' : s[z] = x
  BY <1>8 DEF Moves
<1>10. /\ b \in 0 .. Len(sent[h])
       /\ line \in [Items(h) -> DOMAIN sent[h]] /\ at \in [Items(h) -> Nat]
       /\ \A y \in Items(h) \ {0} : b < line[y]
  BY <1>3 DEF Trail, Ordered
<1>11. Keeps(s, line, at)
  BY <1>9, <1>10 DEF Keeps
<1>12. \A y \in Items(h)' \ {0} : b < line[s[y]]
  BY <1>9, <1>10
<1>13. \A i \in Items(h)' :
         ItemOf(h, s[i], line[s[i]], at[s[i]]) => ItemOf(h, i, line[s[i]], at[s[i]])'
  <2>1. SUFFICES ASSUME NEW i \in Items(h)', ItemOf(h, s[i], line[s[i]], at[s[i]])
                 PROVE  ItemOf(h, i, line[s[i]], at[s[i]])'
    OBVIOUS
  <2>2. PICK l \in DOMAIN sent[h], a \in Nat : l = line[s[i]] /\ a = at[s[i]]
    BY <1>9, <1>10
  <2>3. ItemOf(h, i, l, a)'
    BY <1>9, <2>1, <2>2
  <2> QED
    BY <2>2, <2>3
<1>14. Items(h)' \in SUBSET Nat
  BY <1>7 DEF Items
<1>15. \E line2, at2 : Trail(h, line2, at2, b)'
  BY <1>3, <1>9, <1>10, <1>11, <1>12, <1>13, <1>14, TrailMoves
<1> QED
  BY <1>5, <1>15

\* Nothing leaves the queue when something joins it, or nothing does.
LEMMA NothingLeaves ==
  ASSUME queue \in Seq(Events), NEW event, UNCHANGED queue \/ Enqueue(event), queue # <<>>
  PROVE  queue' # Tail(queue)
<1>1. PICK n \in Nat : n = Len(queue) /\ n # 0
  OBVIOUS
<1>2. Len(Tail(queue)) = n - 1
  BY <1>1
<1>3. Len(queue') = n \/ Len(queue') = n + 1
  BY <1>1 DEF Enqueue
<1> QED
  BY <1>1, <1>2, <1>3

\* Steps in which no packet moves keep every trail.
LEMMA IdleTrailed ==
  ASSUME DInv, ChannelInv, KernelEvent \/ Skip \/ Answer \/ Fail \/ UNCHANGED vars,
         NEW h \in Hosts, Trailed(h)
  PROVE  Trailed(h)'
<1>1. QueueStep(OtherEvent) /\ UNCHANGED <<channels, hostVars>>
  BY IdleChannel
<1>2. ~OnChannel(OtherEvent, chan[h]) /\ OtherEvent \in Events
  BY DEF OtherEvent, OnChannel, Events
<1>3. ChannelsKept /\ queue \in Seq(Events)
  BY <1>1, HostsIdle DEF hostVars, DInv, HostInv
<1>4. queue # <<>> /\ queue' = Tail(queue) => ~OnChannel(Head(queue), chan[h])
  <2>1. CASE Skip
    BY <2>1 DEF Skip, OnChannel
  <2>2. CASE KernelEvent \/ Answer \/ Fail \/ UNCHANGED vars
    <3>1. UNCHANGED queue \/ Enqueue(OtherEvent)
      BY <2>2 DEF KernelEvent, Answer, Fail, vars
    <3> QED
      BY <1>3, <3>1, NothingLeaves
  <2> QED
    BY <2>1, <2>2
<1> QED
  BY <1>1, <1>2, <1>3, <1>4, IdleElsewhere, TrailedStays

\* A host's trail gets a message that begins.
LEMMA OwnBegins ==
  ASSUME DInv, NEW h \in Hosts, NEW m \in Message, Begins(h, m),
         NEW line, NEW at, NEW b, Trail(h, line, at, b)
  PROVE  \E line2, at2 : Trail(h, line2, at2, b)'
<1>1. /\ h \in DOMAIN sending' /\ sending'[h] = StartCut(m)
      /\ \A j \in DOMAIN sent[h] : j \in DOMAIN sent'[h] /\ sent'[h][j] = sent[h][j]
      /\ Len(sent'[h]) = Len(sent[h]) + 1
      /\ UNCHANGED <<channels, queue, chan>>
      /\ queue \in Seq(Events)
      /\ sent[h] \in Seq(Addressed)
  BY BeginsFacts DEF Begins, DInv, HostInv
<1>2. PICK n \in Nat, l \in Nat : n = Len(queue) + 1 /\ l = Len(sent[h]) + 1 /\ n # 0
  BY <1>1
<1>3. /\ b \in 0 .. Len(sent[h])
      /\ line \in [Items(h) -> DOMAIN sent[h]] /\ at \in [Items(h) -> Nat]
      /\ \A i \in Items(h) : ItemOf(h, i, line[i], at[i])
      /\ Ordered(Items(h), line, at, b)
  BY DEF Trail
<1>4. Items(h)' = Items(h) \cup {n}
  BY <1>1, <1>2 DEF Items, Own
<1>5. PICK line2, at2 :
        /\ line2 = [i \in Items(h)' |-> IF i = n THEN l ELSE line[i]]
        /\ at2 = [i \in Items(h)' |-> IF i = n THEN 0 ELSE at[i]]
  OBVIOUS
<1>6. Items(h) \in SUBSET Nat /\ \A i \in Items(h) : i <= n
  BY <1>1, <1>2, ItemsFacts
<1>7. line \in [Items(h) -> Nat] /\ b \in Nat /\ b < l /\ \A x \in Items(h) : line[x] < l
  BY <1>1, <1>2, <1>3
<1>8. Ordered(Items(h)', line2, at2, b)
  <2>1. UpTo(Items(h), line, n, l)
    BY <1>6, <1>7 DEF UpTo
  <2>2. Ordered(Items(h), line, at, b) /\ at \in [Items(h) -> Nat]
    BY <1>3
  <2>3. PICK T, S : T = Items(h) /\ S = Items(h)'
    OBVIOUS
  <2>4. /\ T \in SUBSET Nat /\ line \in [T -> Nat] /\ at \in [T -> Nat]
        /\ Ordered(T, line, at, b) /\ S = T \cup {n}
        /\ UpTo(T, line, n, l)
    BY <1>4, <1>5, <1>6, <1>7, <2>1, <2>2, <2>3
  <2>5. Prolongs(line2, line, T, n, l) /\ Prolongs(at2, at, T, n, 0)
    BY <1>4, <1>5, <2>3 DEF Prolongs
  <2>6. Ordered(S, line2, at2, b)
    BY <1>2, <1>7, <2>4, <2>5, OrderedBegins
  <2> QED
    BY <2>3, <2>6
<1>9. l \in DOMAIN sent'[h] /\ l = Len(sent'[h])
  BY <1>1, <1>2
<1>10. line2 \in [Items(h)' -> DOMAIN sent'[h]] /\ at2 \in [Items(h)' -> Nat]
  BY <1>1, <1>3, <1>4, <1>5, <1>9
<1>11. ASSUME NEW i \in Items(h)'
       PROVE  ItemOf(h, i, line2[i], at2[i])'
  <2>1. CASE i = n
    <3>1. line2[i] = l /\ at2[i] = 0
      BY <1>5, <2>1
    <3>2. CutPlace(sending'[h]) = 0
      <4>1. sending'[h].first
        BY <1>1 DEF StartCut
      <4> QED
        BY <4>1 DEF CutPlace
    <3> QED
      BY <1>1, <1>2, <1>9, <2>1, <3>1, <3>2 DEF ItemOf
  <2>2. CASE i # n
    <3>1. i \in Items(h) /\ line2[i] = line[i] /\ at2[i] = at[i] /\ line[i] \in DOMAIN sent[h]
      BY <1>3, <1>4, <1>5, <2>2
    <3>2. ItemOf(h, i, line[i], at[i]) /\ sent'[h][line[i]] = sent[h][line[i]]
      BY <1>1, <1>3, <3>1
    <3>3. \/ i = 0 /\ InTable(channels, sent[h][line[i]], chan[h], at[i])
          \/ i \in Own(chan[h]) /\ PacketAt(queue[i], sent[h][line[i]], chan[h], at[i])
      BY <1>2, <2>2, <3>2 DEF ItemOf
    <3> QED
      BY <1>1, <3>1, <3>2, <3>3 DEF ItemOf, Own
  <2> QED
    BY <2>1, <2>2
<1>12. b \in 0 .. Len(sent'[h])
  BY <1>1, <1>3
<1>13. Trail(h, line2, at2, b)'
  BY <1>8, <1>10, <1>11, <1>12 DEF Trail
<1> QED
  BY <1>13

\* A message that is begun keeps the trails of all hosts.
LEMMA BeginTrailed ==
  ASSUME DInv, NEW o \in Hosts, NEW m \in Message, Begins(o, m),
         NEW h \in Hosts, Trailed(h)
  PROVE  Trailed(h)'
<1>1. /\ UNCHANGED <<phase, current, queue, chan, got>> /\ queue \in Seq(Events)
      /\ HasChannel(h)' <=> HasChannel(h)
  BY DEF Begins, HasChannel, DInv, HostInv
<1>2. ChannelsKept
  BY <1>1 DEF ChannelsKept, HasChannel
<1>3. CASE h # o
  <2>1. Elsewhere(h) /\ AnswerKept(h) /\ sent'[h] = sent[h]
    BY <1>3, BeginElsewhere
  <2>2. QueueStep(OtherEvent) /\ ~OnChannel(OtherEvent, chan[h]) /\ OtherEvent \in Events
    BY <1>1 DEF QueueStep, OtherEvent, OnChannel, Events
  <2>3. ~(queue # <<>> /\ queue' = Tail(queue))
    BY <1>1, NothingLeaves
  <2> QED
    BY <1>1, <1>2, <2>1, <2>2, <2>3, TrailedStays
<1>4. CASE h = o
  <2>1. SUFFICES ASSUME Alone(h)', HasChannel(h)'
                 PROVE  (\E line, at, b, origin : Trail(h, line, at, b) /\ Origins(h, origin, b))'
    BY DEF Trailed
  <2>2. Alone(h) /\ HasChannel(h)
    BY <1>1, <1>2, <2>1, AloneBefore
  <2>3. PICK line, at, b, origin : Trail(h, line, at, b) /\ Origins(h, origin, b)
    BY <2>2 DEF Trailed
  <2>4. \E line2, at2 : Trail(h, line2, at2, b)'
    BY <1>4, <2>3, OwnBegins
  <2>5. (Answering(h)' => Answering(h)) /\ AnswerKept(h)
    BY <1>1 DEF Answering, AnswerKept, Answers
  <2>6. \A j \in DOMAIN sent[h] : j \in DOMAIN sent'[h] /\ sent'[h][j] = sent[h][j]
    BY <1>4, BeginsFacts
  <2>7. Origins(h, origin, b)'
    BY <1>1, <2>3, <2>5, <2>6, OriginsStay
  <2> QED
    BY <2>4, <2>7
<1> QED
  BY <1>3, <1>4

\* A packet that is written moves from the end of its host's trail into the queue,
\* and the next one of its message follows.
LEMMA OwnWritten ==
  ASSUME DInv, NEW h \in Hosts, HasChannel(h), HasRoom,
         NEW event, NEW cut, NEW next, Written(h, event, cut, next),
         NEW line, NEW at, NEW b, Trail(h, line, at, b)
  PROVE  \E line2, at2 : Trail(h, line2, at2, b)'
<1>1. /\ cut = sending[h] /\ h \in DOMAIN sending
      /\ OnChannel(event, chan[h]) /\ PacketIn(PacketOf(event), LastSent(h), chan[h])
      /\ Place(PacketOf(event)) = CutPlace(cut)
      /\ DOMAIN sending' = IF CutDone(next) THEN DOMAIN sending \ {h} ELSE DOMAIN sending
      /\ ~CutDone(next) => sending'[h] = next /\ CutPlace(next) = CutPlace(cut) + 1
      /\ UNCHANGED <<channels, chan, sent>>
      /\ Enqueue(event)
  BY DEF Written
<1>2. PICK n, c : n \in Nat /\ n = Len(queue) + 1 /\ n # 0 /\ c = chan[h]
  BY DEF DInv, HostInv
<1>3. /\ queue \in Seq(Events) /\ queue' = Append(queue, event) /\ event \in Events
      /\ sent[h] \in Seq(Addressed)
  BY <1>1 DEF Written, Enqueue, DInv, HostInv
<1>4. /\ Len(queue') = n /\ queue'[n] = event /\ DOMAIN queue = 1 .. n - 1
      /\ DOMAIN queue' = 1 .. n
      /\ \A i \in 1 .. n - 1 : queue'[i] = queue[i]
  BY <1>2, <1>3
<1>5. /\ \A i \in Own(c) : i \in 1 .. n - 1
      /\ Own(c)' = Own(c) \cup {n}
  <2>1. \A i \in 1 .. n : i \in 1 .. n - 1 \/ i = n
    BY <1>2
  <2>2. n \in 1 .. n /\ 1 .. n - 1 \subseteq 1 .. n
    BY <1>2
  <2>3. \A i \in Own(c) : i \in 1 .. n - 1
    BY <1>4 DEF Own
  <2>4. \A i : i \in Own(c)' <=> i \in Own(c) \/ i = n
    <3>1. \A i : i \in Own(c)' <=> i \in 1 .. n /\ OnChannel(queue'[i], c)
      BY <1>4 DEF Own
    <3>2. \A i : i \in Own(c) <=> i \in 1 .. n - 1 /\ OnChannel(queue[i], c)
      BY <1>4 DEF Own
    <3> QED
      BY <1>1, <1>2, <1>4, <2>1, <2>2, <3>1, <3>2
  <2> QED
    BY <2>3, <2>4
<1>6. /\ b \in 0 .. Len(sent[h])
      /\ line \in [Items(h) -> DOMAIN sent[h]] /\ at \in [Items(h) -> Nat]
      /\ \A i \in Items(h) : ItemOf(h, i, line[i], at[i])
      /\ Ordered(Items(h), line, at, b)
  BY DEF Trail
<1>7. /\ Items(h) \in SUBSET (0 .. n) /\ n \in Items(h) /\ n \notin Own(c)
      /\ \A i \in Items(h) : i # 0 /\ i # n => i \in Own(c)
      /\ 0 \in Items(h) <=> c \in DOMAIN channels
      /\ Own(c) \subseteq Items(h)
  BY <1>1, <1>2, <1>3, <1>5, ItemsFacts
<1>8. line[n] = Len(sent[h]) /\ at[n] = CutPlace(cut)
  <2>1. ItemOf(h, n, line[n], at[n])
    BY <1>6, <1>7
  <2> QED
    BY <1>1, <1>2, <1>7, <2>1 DEF ItemOf
<1>9. ASSUME NEW i \in Items(h), NEW l, l = line[i], NEW a, a = at[i]
      PROVE  ItemOf(h, i, l, a)'
  <2>1. CASE i = n
    <3>1. PacketAt(event, sent[h][l], c, a)
      BY <1>1, <1>2, <1>8, <1>9, <2>1 DEF PacketAt, LastSent
    <3>2. n \in Own(c)' /\ PacketAt(queue'[n], sent'[h][l], c, a)
      BY <1>1, <1>4, <1>5, <3>1
    <3>3. Own(c)' = Own(chan[h])' /\ chan'[h] = c
      BY <1>1, <1>2 DEF Own
    <3> QED
      BY <2>1, <3>2, <3>3 DEF ItemOf
  <2>2. CASE i # n
    <3>1. ItemOf(h, i, l, a)
      BY <1>6, <1>9
    <3>2. \/ i = 0 /\ InTable(channels, sent[h][l], c, a)
          \/ i \in Own(c) /\ PacketAt(queue[i], sent[h][l], c, a)
      BY <1>2, <2>2, <3>1 DEF ItemOf
    <3>3. \/ i = 0 /\ InTable(channels', sent'[h][l], c, a)
          \/ i \in Own(c)' /\ PacketAt(queue'[i], sent'[h][l], c, a)
      BY <1>1, <1>4, <1>5, <3>2
    <3>4. Own(c)' = Own(chan[h])' /\ chan'[h] = c
      BY <1>1, <1>2 DEF Own
    <3> QED
      BY <3>3, <3>4 DEF ItemOf
  <2> QED
    BY <2>1, <2>2
<1>10. \A i : i \in Items(h)' <=>
         \/ i = 0 /\ c \in DOMAIN channels
         \/ i \in Own(c) \/ i = n
         \/ i = n + 1 /\ ~CutDone(next)
  <2>1. Own(c)' = Own(chan[h])' /\ chan'[h] = c /\ Len(queue') + 1 = n + 1
    BY <1>1, <1>2, <1>4 DEF Own
  <2>2. h \in DOMAIN sending' <=> ~CutDone(next)
    BY <1>1
  <2>3. \A i : i \in Items(h)' <=>
          /\ i \in 0 .. n + 1
          /\ \/ i = 0 /\ c \in DOMAIN channels'
             \/ i \in Own(c)'
             \/ i = n + 1 /\ h \in DOMAIN sending'
    BY <2>1 DEF Items
  <2>4. \A i \in 1 .. n - 1 : i \in 0 .. n + 1
    BY <1>2
  <2>5. 0 \in 0 .. n + 1 /\ n \in 0 .. n + 1 /\ n + 1 \in 0 .. n + 1
    BY <1>2
  <2> QED
    BY <1>1, <1>5, <2>2, <2>3, <2>4, <2>5
<1>11. \A i : i \in Items(h) <=> (i = 0 /\ c \in DOMAIN channels) \/ i \in Own(c) \/ i = n
  BY <1>7
<1>12. b \in 0 .. Len(sent'[h])
  BY <1>1, <1>6
<1>13. CASE CutDone(next)
  <2>1. Items(h)' = Items(h)
    BY <1>10, <1>11, <1>13
  <2>2. \A i \in Items(h)' : ItemOf(h, i, line[i], at[i])'
    BY <1>9, <2>1
  <2>3. Trail(h, line, at, b)'
    BY <1>1, <1>6, <1>12, <2>1, <2>2 DEF Trail
  <2> QED
    BY <2>3
<1>14. CASE ~CutDone(next)
  <2>1. PICK T, S : T = Items(h) /\ S = Items(h)'
    OBVIOUS
  <2>2. S = T \cup {n + 1} /\ n + 1 \notin T /\ T \in SUBSET (0 .. n) /\ n \in T
    <3>1. S = T \cup {n + 1}
      BY <1>10, <1>11, <1>14, <2>1
    <3> QED
      BY <1>2, <1>7, <2>1, <3>1
  <2>3. PICK line2, at2 :
          /\ line2 = [i \in S |-> IF i = n + 1 THEN line[n] ELSE line[i]]
          /\ at2 = [i \in S |-> IF i = n + 1 THEN at[n] + 1 ELSE at[i]]
    OBVIOUS
  <2>4. Prolongs(line2, line, T, n + 1, line[n]) /\ Prolongs(at2, at, T, n + 1, at[n] + 1)
    BY <2>2, <2>3 DEF Prolongs
  <2>5. T \in SUBSET Nat /\ line \in [T -> Nat] /\ at \in [T -> Nat] /\ b \in Nat
        /\ Ordered(T, line, at, b)
    BY <1>2, <1>3, <1>6, <2>1, <2>2
  <2>6. Ordered(S, line2, at2, b)
    BY <1>2, <2>2, <2>4, <2>5, OrderedGoesOn
  <2>7. line2 \in [S -> DOMAIN sent'[h]] /\ at2 \in [S -> Nat]
    BY <1>1, <1>6, <2>1, <2>2, <2>3
  <2>8. ASSUME NEW i \in S
        PROVE  ItemOf(h, i, line2[i], at2[i])'
    <3>1. CASE i = n + 1
      <4>1. line2[i] = Len(sent'[h]) /\ at2[i] = CutPlace(sending'[h])
            /\ i = Len(queue') + 1 /\ h \in DOMAIN sending'
        BY <1>1, <1>4, <1>8, <1>14, <2>3, <3>1
      <4> QED
        BY <4>1 DEF ItemOf
    <3>2. CASE i # n + 1
      <4>1. i \in Items(h) /\ line2[i] = line[i] /\ at2[i] = at[i]
        BY <2>1, <2>2, <2>3, <3>2
      <4> QED
        BY <1>9, <4>1
    <3> QED
      BY <3>1, <3>2
  <2>9. Trail(h, line2, at2, b)'
    BY <1>12, <2>1, <2>6, <2>7, <2>8 DEF Trail
  <2> QED
    BY <2>9
<1> QED
  BY <1>13, <1>14

\* The next packet of a host keeps the trails of the hosts that lost none.
LEMMA WriteReportTrailed ==
  ASSUME DInv, DeclaredInv, ChannelInv, NEW o \in Hosts, WriteReport(o),
         NEW h \in Hosts \ lost', Trailed(h)
  PROVE  Trailed(h)'
<1>1. PICK event, cut, next : Written(o, event, cut, next)
  BY WrittenPacket
<1>2. /\ UNCHANGED <<phase, current, chan, sent, got>>
      /\ Enqueue(event) /\ QueueStep(event) /\ queue \in Seq(Events) /\ event \in Events
  BY <1>1 DEF Written, QueueStep, DInv, HostInv
<1>3. ChannelsKept /\ (HasChannel(h)' <=> HasChannel(h))
  BY <1>2 DEF ChannelsKept, HasChannel
<1>4. AnswerKept(h) /\ (Answering(h)' <=> Answering(h))
  BY <1>2 DEF AnswerKept, Answers, Answering
<1>5. CASE h # o
  <2>1. ~(queue # <<>> /\ queue' = Tail(queue))
    BY <1>2, NothingLeaves
  <2> QED
    BY <1>1, <1>2, <1>3, <1>4, <1>5, <2>1, WrittenElsewhere, TrailedStays
<1>6. CASE h = o
  <2>1. SUFFICES ASSUME Alone(h)', HasChannel(h)'
                 PROVE  (\E line, at, b, origin : Trail(h, line, at, b) /\ Origins(h, origin, b))'
    BY DEF Trailed
  <2>2. Alone(h) /\ HasChannel(h)
    BY <1>3, <2>1, AloneBefore
  <2>3. PICK line, at, b, origin : Trail(h, line, at, b) /\ Origins(h, origin, b)
    BY <2>2 DEF Trailed
  <2>4. HasRoom
    BY <1>6 DEF WriteReport
  <2>5. \E line2, at2 : Trail(h, line2, at2, b)'
    BY <1>1, <1>6, <2>2, <2>3, <2>4, OwnWritten
  <2>6. Origins(h, origin, b)'
    BY <1>2, <1>4, <2>3, OriginsStay
  <2> QED
    BY <2>5, <2>6
<1> QED
  BY <1>5, <1>6

\* An item that is not the table's is of a cut of its message.
LEMMA ItemCut ==
  ASSUME DInv, DeclaredInv, NEW h \in Hosts, NEW i, NEW l, NEW a,
         i # 0, ItemOf(h, i, l, a)
  PROVE  \E cut : CutOf(cut, sent[h][l]) /\ CutPlace(cut) = a
<1>1. PICK c \in Cids : c = chan[h]
  BY DEF DInv, HostInv
<1>2. CASE PacketAt(queue[i], sent[h][l], c, a)
  <2>1. PICK p, m : p = PacketOf(queue[i]) /\ m = sent[h][l]
    OBVIOUS
  <2>2. PacketIn(p, m, c) /\ Place(p) = a
    BY <1>2, <2>1 DEF PacketAt
  <2>3. PICK cut : CutOf(cut, m) /\ p = Parse(Serialize(CutPacket(cut, c)))
    BY <2>2 DEF PacketIn
  <2>4. cut \in ProperCuts /\ InProgress(cut) /\ Len(cut.msg.payload) <= MaxPayload
    BY <2>3 DEF CutOf
  <2>5. CutPlace(cut) = a
    BY <1>1, <2>2, <2>3, <2>4, CutRead
  <2> QED
    BY <2>1, <2>3, <2>5
<1>3. CASE h \in DOMAIN sending /\ l = Len(sent[h]) /\ CutPlace(sending[h]) = a
  <2>1. CutOf(sending[h], sent[h][l])
    BY <1>3 DEF DInv, HostInv, DeclaredInv, SendingInProgress, CutOf
  <2> QED
    BY <1>3, <2>1
<1> QED
  BY <1>1, <1>2, <1>3 DEF ItemOf

\* When the head of the queue goes, the items behind it move up.
LEMMA ItemsLeft ==
  ASSUME queue \in Seq(Events), queue # <<>>, queue' = Tail(queue), NEW h,
         UNCHANGED <<chan, sending, sent>>
  PROVE  /\ Items(h)' \in SUBSET Nat
         /\ 0 \in Items(h)' <=> chan[h] \in DOMAIN channels'
         /\ \A i \in Items(h)' \ {0} :
              /\ i + 1 \in Items(h)
              /\ \A l, a : ItemOf(h, i + 1, l, a) => ItemOf(h, i, l, a)'
         /\ \A x \in Items(h) \ {0, 1} : \E z \in Items(h)' \ {0} : z + 1 = x
<1>1. PICK n, c : n \in Nat /\ n = Len(queue) /\ n # 0 /\ c = chan[h]
  OBVIOUS
<1>2. /\ Len(queue') = n - 1 /\ DOMAIN queue = 1 .. n /\ DOMAIN queue' = 1 .. n - 1
      /\ \A i \in 1 .. n - 1 : i + 1 \in 1 .. n /\ queue'[i] = queue[i + 1]
  BY <1>1
<1>3. /\ \A i \in Own(c) : i \in 1 .. n
      /\ \A i \in Own(c)' : i \in 1 .. n - 1 /\ i + 1 \in Own(c)
      /\ \A i \in 1 .. n - 1 : i + 1 \in Own(c) => i \in Own(c)'
  BY <1>2 DEF Own
<1>4. Own(c)' = Own(chan[h])' /\ chan'[h] = c /\ Len(queue') + 1 = n
  BY <1>1, <1>2 DEF Own
<1>5. \A i : i \in Items(h)' <=>
        /\ i \in 0 .. n
        /\ \/ i = 0 /\ c \in DOMAIN channels'
           \/ i \in Own(c)'
           \/ i = n /\ h \in DOMAIN sending
  BY <1>4 DEF Items
<1>6. \A i : i \in Items(h) <=>
        /\ i \in 0 .. n + 1
        /\ \/ i = 0 /\ c \in DOMAIN channels
           \/ i \in Own(c)
           \/ i = n + 1 /\ h \in DOMAIN sending
  BY <1>1 DEF Items
<1>7. Items(h)' \in SUBSET Nat
  BY <1>1, <1>5
<1>8. 0 \in Items(h)' <=> chan[h] \in DOMAIN channels'
  <2>1. 0 \notin Own(c)' /\ 0 \in 0 .. n
    BY <1>1, <1>3
  <2> QED
    BY <1>1, <1>5, <2>1
<1>9. ASSUME NEW i \in Items(h)' \ {0}
      PROVE  /\ i + 1 \in Items(h)
             /\ \A l, a : ItemOf(h, i + 1, l, a) => ItemOf(h, i, l, a)'
  <2>1. CASE i \in Own(c)'
    <3>1. i \in 1 .. n - 1 /\ i + 1 \in Own(c) /\ queue'[i] = queue[i + 1]
      BY <1>2, <1>3, <2>1
    <3>2. i + 1 \in 1 .. n /\ i + 1 # 0 /\ i + 1 # n + 1
      BY <1>1, <3>1
    <3>3. i + 1 \in Items(h)
      BY <1>1, <1>6, <3>1, <3>2
    <3>4. ASSUME NEW l, NEW a, ItemOf(h, i + 1, l, a)
          PROVE  ItemOf(h, i, l, a)'
      <4>1. PacketAt(queue[i + 1], sent[h][l], c, a)
        BY <1>1, <3>2, <3>4 DEF ItemOf
      <4>2. PacketAt(queue'[i], sent'[h][l], c, a)
        BY <3>1, <4>1
      <4> QED
        BY <1>4, <2>1, <4>2 DEF ItemOf
    <3> QED
      BY <3>3, <3>4
  <2>2. CASE i = n /\ h \in DOMAIN sending
    <3>1. n + 1 \in Items(h)
      <4>1. n + 1 \in 0 .. n + 1
        BY <1>1
      <4> QED
        BY <1>6, <2>2, <4>1
    <3>2. ASSUME NEW l, NEW a, ItemOf(h, n + 1, l, a)
          PROVE  ItemOf(h, n, l, a)'
      <4>1. n + 1 # 0 /\ n + 1 \notin Own(c)
        BY <1>1, <1>3
      <4>2. l = Len(sent[h]) /\ CutPlace(sending[h]) = a
        BY <1>1, <3>2, <4>1 DEF ItemOf
      <4> QED
        BY <1>4, <2>2, <4>2 DEF ItemOf
    <3> QED
      BY <2>2, <3>1, <3>2
  <2> QED
    BY <1>5, <1>9, <2>1, <2>2
<1>10. ASSUME NEW x \in Items(h) \ {0, 1}
       PROVE  \E z \in Items(h)' \ {0} : z + 1 = x
  <2>1. x \in 2 .. n + 1
    BY <1>1, <1>6, <1>10
  <2>2. PICK z \in 1 .. n : z + 1 = x
    <3>1. x - 1 \in 1 .. n /\ (x - 1) + 1 = x
      BY <1>1, <2>1
    <3> QED
      BY <3>1
  <2>3. z \in 0 .. n /\ z # 0
    BY <1>1, <2>2
  <2>4. CASE x \in Own(c)
    <3>1. z \in 1 .. n - 1
      BY <1>1, <1>3, <2>2, <2>4
    <3>2. z \in Own(c)'
      BY <1>3, <2>2, <2>4, <3>1
    <3> QED
      BY <1>5, <2>2, <2>3, <3>2
  <2>5. CASE x = n + 1 /\ h \in DOMAIN sending
    <3>1. z = n
      BY <1>1, <2>2, <2>5
    <3> QED
      BY <1>5, <2>2, <2>3, <2>5, <3>1
  <2> QED
    BY <1>6, <1>10, <2>4, <2>5
<1> QED
  BY <1>7, <1>8, <1>9, <1>10

\* The packet at the head of the queue is the host's.
Arrives(h, event, p, c, m, l, cut) ==
  /\ Received(event, p) /\ c = chan[h] /\ c \in Cids /\ p.cid = c
  /\ 1 \in Items(h) /\ m = sent[h][l] /\ l \in DOMAIN sent[h]
  /\ CutOf(cut, m) /\ p = Parse(Serialize(CutPacket(cut, c)))
  /\ Place(p) = CutPlace(cut) /\ Place(p) \in Nat
  /\ cut.first \/ (c \in DOMAIN channels /\ channels[c] = EntryOf(cut))

\* The packet of a host that has a trail is the first of its message, or what the
\* table has is all that comes before it.
LEMMA OwnArrives ==
  ASSUME DInv, NEW h \in Hosts, NEW event, NEW p, Received(event, p),
         OnChannel(event, chan[h]), NEW line, NEW at, NEW b, Trail(h, line, at, b)
  PROVE  \E c, m, l, cut :
           /\ Arrives(h, event, p, c, m, l, cut)
           /\ l = line[1] /\ at[1] = Place(p)
<1>1. PICK c \in Cids : c = chan[h]
  BY DEF DInv, HostInv
<1>2. /\ queue # <<>> /\ event = Head(queue) /\ p = PacketOf(event)
      /\ queue \in Seq(Events)
  BY DEF Received, DInv, HostInv
<1>3. queue[1] = event /\ 1 \in DOMAIN queue /\ 1 # Len(queue) + 1
  BY <1>2
<1>4. 1 \in Own(c)
  BY <1>1, <1>3 DEF Own
<1>5. 1 \in Items(h) /\ Items(h) \in SUBSET Nat
  BY <1>1, <1>2, <1>4, ItemsFacts
<1>6. /\ line \in [Items(h) -> DOMAIN sent[h]] /\ at \in [Items(h) -> Nat]
      /\ \A i \in Items(h) : ItemOf(h, i, line[i], at[i])
      /\ \A y \in Items(h) \ {0} : at[y] # 0 => \E x \in Items(h) : Follows(line, at, x, y)
  BY DEF Trail, Ordered
<1>7. PICK l, m, a : l = line[1] /\ m = sent[h][l] /\ a = at[1]
  OBVIOUS
<1>8. PacketIn(p, m, c) /\ Place(p) = a /\ a \in Nat /\ l \in DOMAIN sent[h]
  <2>1. ItemOf(h, 1, l, a) /\ a \in Nat /\ l \in DOMAIN sent[h]
    BY <1>5, <1>6, <1>7
  <2>2. PacketAt(event, m, c, a)
    BY <1>1, <1>3, <1>7, <2>1 DEF ItemOf
  <2> QED
    BY <1>2, <2>1, <2>2 DEF PacketAt
<1>9. PICK cut : CutOf(cut, m) /\ p = Parse(Serialize(CutPacket(cut, c)))
  BY <1>8 DEF PacketIn
<1>10. cut \in ProperCuts /\ InProgress(cut) /\ Len(cut.msg.payload) <= MaxPayload
  BY <1>9 DEF CutOf
<1>11. p.cid = c /\ Place(p) = CutPlace(cut)
  BY <1>9, <1>10, CutRead
<1>12. ASSUME ~cut.first
       PROVE  c \in DOMAIN channels /\ channels[c] = EntryOf(cut)
  <2>1. cut.seq \in Nat /\ a = cut.seq + 1 /\ a # 0
    BY <1>8, <1>10, <1>11, <1>12, CutPlaces DEF CutPlace
  <2>2. PICK x \in Items(h) : Follows(line, at, x, 1)
    <3>1. 1 \in Items(h) \ {0} /\ at[1] # 0
      BY <1>5, <1>7, <2>1
    <3>2. \E x \in Items(h) : Follows(line, at, x, 1)
      BY <1>6, <3>1
    <3> QED
      BY <3>2
  <2>3. x = 0
    BY <1>5, <2>2 DEF Follows
  <2>4. line[0] = l /\ at[0] = cut.seq
    <3>1. line[0] = line[1] /\ at[1] = at[0] + 1
      BY <2>2, <2>3 DEF Follows
    <3>2. at[0] \in Nat /\ a = at[0] + 1
      BY <1>6, <1>7, <2>2, <2>3, <3>1
    <3> QED
      BY <1>7, <2>1, <3>1, <3>2
  <2>5. ItemOf(h, 0, l, cut.seq)
    BY <1>6, <2>2, <2>3, <2>4
  <2>6. 0 \notin Own(c) /\ 0 # Len(queue) + 1
    BY <1>2 DEF Own
  <2>7. InTable(channels, m, c, cut.seq)
    BY <1>1, <1>7, <2>5, <2>6 DEF ItemOf
  <2>8. PICK entry : CutOf(entry, m) /\ ~entry.first /\ channels[c] = EntryOf(entry)
    BY <2>7 DEF InTable, Behind
  <2>9. entry.seq = cut.seq
    <3>1. entry \in ProperCuts
      BY <2>8 DEF CutOf
    <3>2. EntryOf(entry).next_seq = entry.seq
      BY <3>1, CutPlaces
    <3> QED
      BY <2>7, <2>8, <3>2 DEF InTable
  <2>10. EntryOf(entry) = EntryOf(cut)
    BY <1>9, <1>12, <2>8, <2>9, SameCut
  <2> QED
    BY <2>7, <2>8, <2>10 DEF InTable
<1>13. Arrives(h, event, p, c, m, l, cut)
  BY <1>1, <1>5, <1>7, <1>8, <1>9, <1>11, <1>12 DEF Arrives
<1> QED
  BY <1>7, <1>8, <1>13

\* Item 1 goes, what was behind it moves up, all of it found in S.
MovesUp(T, S) ==
  /\ \A i \in S \ {0} : i + 1 \in T
  /\ \A x \in T \ {0, 1} : \E z \in S \ {0} : z + 1 = x

\* Item 1 takes the place of item 0, as more of the message that is in the table.
LEMMA TakesPlace ==
  ASSUME NEW T \in SUBSET Nat, NEW S \in SUBSET Nat, 1 \in T, 0 \in S, MovesUp(T, S),
         NEW line \in [T -> Nat], NEW at \in [T -> Nat], NEW b \in Nat,
         Ordered(T, line, at, b), NEW s, s = [i \in S |-> i + 1]
  PROVE  /\ s \in [S -> T] /\ Monotone(s) /\ Keeps(s, line, at)
         /\ \A y \in S \ {0} : b < line[s[y]]
<1>1. \A i \in S : s[i] = i + 1 /\ i + 1 \in T
  BY DEF MovesUp
<1>2. s \in [S -> T] /\ Monotone(s)
  BY <1>1 DEF Monotone
<1>3. ASSUME NEW y \in S \ {0}
      PROVE  b < line[s[y]] /\ s[y] # 0
  BY <1>1, <1>3 DEF Ordered
<1>4. ASSUME NEW y \in S \ {0}, NEW x \in T, Follows(line, at, x, s[y])
      PROVE  \E z \in S : s[z] = x
  <2>1. PICK w \in T : w = s[y] /\ w = y + 1 /\ 1 < w
    BY <1>1, <1>4
  <2>2. x < w /\ line[x] = line[w] /\ at[w] = at[x] + 1
    BY <1>4, <2>1 DEF Follows
  <2>3. x # 0
    <3>1. SUFFICES ASSUME x = 0 PROVE FALSE
      OBVIOUS
    <3>2. line[x] <= line[1] /\ (line[x] = line[1] => at[x] < at[1])
      BY <3>1 DEF Ordered
    <3>3. line[1] <= line[w] /\ (line[1] = line[w] => at[1] < at[w])
      BY <2>1 DEF Ordered
    <3>4. line[1] \in Nat /\ line[w] \in Nat /\ at[x] \in Nat /\ at[1] \in Nat
      OBVIOUS
    <3>5. line[x] = line[1] /\ line[1] = line[w]
      BY <2>2, <3>2, <3>3, <3>4
    <3> QED
      BY <2>2, <3>2, <3>3, <3>4, <3>5
  <2>4. CASE x = 1
    BY <1>1, <2>4
  <2>5. CASE x # 1
    <3>1. PICK z \in S \ {0} : z + 1 = x
      BY <2>3, <2>5 DEF MovesUp
    <3> QED
      BY <1>1, <3>1
  <2> QED
    BY <2>4, <2>5
<1>5. Keeps(s, line, at)
  BY <1>1, <1>3, <1>4 DEF Keeps
<1> QED
  BY <1>2, <1>3, <1>5

\* Item 1 goes with all of its message; what stays is of later messages.
LEMMA GoesWhole ==
  ASSUME NEW T \in SUBSET Nat, NEW S \in SUBSET Nat, 1 \in T, 0 \in S => 0 \in T,
         MovesUp(T, S), NEW line \in [T -> Nat], NEW at \in [T -> Nat], NEW b,
         Ordered(T, line, at, b), \A y \in S \ {0} : line[1] < line[y + 1],
         NEW s, s = [i \in S |-> IF i = 0 THEN 0 ELSE i + 1]
  PROVE  /\ s \in [S -> T] /\ Monotone(s) /\ Keeps(s, line, at)
         /\ \A y \in S \ {0} : line[1] < line[s[y]]
<1>1. /\ \A i \in S \ {0} : s[i] = i + 1 /\ i + 1 \in T
      /\ 0 \in S => s[0] = 0
  BY DEF MovesUp
<1>2. s \in [S -> T]
  BY <1>1
<1>3. ASSUME NEW x \in S, NEW y \in S, x < y
      PROVE  s[x] < s[y]
  <2>1. y # 0 /\ s[y] = y + 1
    BY <1>1, <1>3
  <2>2. CASE x = 0
    BY <1>1, <2>1, <2>2
  <2>3. CASE x # 0
    BY <1>1, <1>3, <2>1, <2>3
  <2> QED
    BY <2>2, <2>3
<1>4. ASSUME NEW y \in S \ {0}, NEW x \in T, Follows(line, at, x, s[y])
      PROVE  \E z \in S : s[z] = x
  <2>1. line[x] = line[y + 1] /\ line[1] < line[x]
    BY <1>1, <1>4 DEF Follows
  <2>2. line[x] \in Nat /\ line[1] \in Nat
    OBVIOUS
  <2>3. x # 1
    BY <2>1, <2>2
  <2>4. x # 0
    <3>1. SUFFICES ASSUME x = 0 PROVE FALSE
      OBVIOUS
    <3>2. line[x] <= line[1]
      BY <3>1 DEF Ordered
    <3> QED
      BY <2>1, <2>2, <3>2
  <2>5. PICK z \in S \ {0} : z + 1 = x
    BY <2>3, <2>4 DEF MovesUp
  <2> QED
    BY <1>1, <2>5
<1>5. \A y \in S \ {0} : s[y] # 0
  BY <1>1
<1>6. Keeps(s, line, at)
  BY <1>2, <1>4, <1>5 DEF Keeps
<1>7. Monotone(s)
  BY <1>2, <1>3 DEF Monotone
<1> QED
  BY <1>1, <1>2, <1>6, <1>7

\* The table has a packet more of the message at the head of the trail.
LEMMA OwnContinued ==
  ASSUME DInv, NEW h \in Hosts, NEW event, NEW p, NEW c, NEW m, NEW l, NEW cut,
         Arrives(h, event, p, c, m, l, cut),
         NEW line, NEW at, NEW b, Trail(h, line, at, b), l = line[1], at[1] = Place(p),
         c \in DOMAIN channels', Behind(channels', m, c), channels'[c].next_seq = Place(p)
  PROVE  \E line2, at2 : Trail(h, line2, at2, b)'
<1>1. /\ queue # <<>> /\ queue' = Tail(queue) /\ queue \in Seq(Events)
      /\ UNCHANGED <<chan, sending, sent>> /\ c = chan[h] /\ 1 \in Items(h)
      /\ m = sent[h][l] /\ sent[h] \in Seq(Addressed)
  BY DEF Arrives, Received, hostVars, DInv, HostInv
<1>2. /\ Items(h)' \in SUBSET Nat
      /\ 0 \in Items(h)' <=> c \in DOMAIN channels'
      /\ \A i \in Items(h)' \ {0} :
           /\ i + 1 \in Items(h)
           /\ \A k, a : ItemOf(h, i + 1, k, a) => ItemOf(h, i, k, a)'
      /\ \A x \in Items(h) \ {0, 1} : \E z \in Items(h)' \ {0} : z + 1 = x
  BY <1>1, ItemsLeft
<1>3. Items(h) \in SUBSET Nat
  BY <1>1, ItemsFacts
<1>4. /\ b \in 0 .. Len(sent[h]) /\ b \in Nat
      /\ line \in [Items(h) -> DOMAIN sent[h]] /\ line \in [Items(h) -> Nat]
      /\ at \in [Items(h) -> Nat] /\ Ordered(Items(h), line, at, b)
  BY <1>1 DEF Trail
<1>5. PICK T, S : T = Items(h) /\ S = Items(h)'
  OBVIOUS
<1>6. PICK s : s = [i \in S |-> i + 1]
  OBVIOUS
<1>7. /\ s \in [S -> T] /\ Monotone(s) /\ Keeps(s, line, at)
      /\ \A y \in S \ {0} : b < line[s[y]]
  <2>1. MovesUp(T, S)
    BY <1>2, <1>5 DEF MovesUp
  <2>2. 1 \in T /\ 0 \in S /\ T \in SUBSET Nat /\ S \in SUBSET Nat
    BY <1>1, <1>2, <1>3, <1>5
  <2>3. line \in [T -> Nat] /\ at \in [T -> Nat] /\ Ordered(T, line, at, b)
    BY <1>4, <1>5
  <2> QED
    BY <1>4, <1>6, <2>1, <2>2, <2>3, TakesPlace
<1>8. ASSUME NEW i \in S, ItemOf(h, s[i], line[s[i]], at[s[i]])
      PROVE  ItemOf(h, i, line[s[i]], at[s[i]])'
  <2>1. CASE i = 0
    <3>1. s[i] = 1
      BY <1>6, <2>1
    <3>2. InTable(channels', sent'[h][l], chan'[h], Place(p))
      BY <1>1 DEF InTable
    <3>3. ItemOf(h, 0, l, Place(p))'
      BY <3>2 DEF ItemOf
    <3> QED
      BY <2>1, <3>1, <3>3
  <2>2. CASE i # 0
    <3>1. s[i] = i + 1 /\ i \in Items(h)' \ {0}
      BY <1>5, <1>6, <2>2
    <3>2. PICK k, a : k = line[s[i]] /\ a = at[s[i]]
      OBVIOUS
    <3>3. ItemOf(h, i, k, a)'
      BY <1>2, <1>8, <3>1, <3>2
    <3> QED
      BY <3>2, <3>3
  <2> QED
    BY <2>1, <2>2
<1> QED
  BY <1>1, <1>2, <1>4, <1>5, <1>7, <1>8, TrailMoves

\* A message is complete, and goes from its host's trail.
LEMMA OwnCompleted ==
  ASSUME DInv, DeclaredInv, NEW h \in Hosts, NEW event, NEW p, NEW c, NEW m, NEW l, NEW cut,
         Arrives(h, event, p, c, m, l, cut),
         NEW line, NEW at, NEW b, Trail(h, line, at, b), l = line[1], at[1] = Place(p),
         c \in DOMAIN channels' => UNCHANGED channels,
         \A later : CutOf(later, m) => ~(Place(p) < CutPlace(later))
  PROVE  b < l /\ \E line2, at2 : Trail(h, line2, at2, l)'
<1>1. /\ queue # <<>> /\ queue' = Tail(queue) /\ queue \in Seq(Events)
      /\ UNCHANGED <<chan, sending, sent>> /\ c = chan[h] /\ 1 \in Items(h)
      /\ m = sent[h][l] /\ sent[h] \in Seq(Addressed) /\ l \in DOMAIN sent[h]
  BY DEF Arrives, Received, hostVars, DInv, HostInv
<1>2. /\ Items(h)' \in SUBSET Nat
      /\ 0 \in Items(h)' <=> c \in DOMAIN channels'
      /\ \A i \in Items(h)' \ {0} :
           /\ i + 1 \in Items(h)
           /\ \A k, a : ItemOf(h, i + 1, k, a) => ItemOf(h, i, k, a)'
      /\ \A x \in Items(h) \ {0, 1} : \E z \in Items(h)' \ {0} : z + 1 = x
  BY <1>1, ItemsLeft
<1>3. Items(h) \in SUBSET Nat /\ (0 \in Items(h) <=> c \in DOMAIN channels)
  BY <1>1, ItemsFacts
<1>4. /\ line \in [Items(h) -> DOMAIN sent[h]] /\ line \in [Items(h) -> Nat]
      /\ at \in [Items(h) -> Nat] /\ Ordered(Items(h), line, at, b)
      /\ \A i \in Items(h) : ItemOf(h, i, line[i], at[i])
  BY <1>1 DEF Trail
<1>5. b < l
  <2>1. 1 \in Items(h) \ {0}
    BY <1>1
  <2> QED
    BY <1>4, <2>1 DEF Ordered
<1>6. PICK T, S : T = Items(h) /\ S = Items(h)'
  OBVIOUS
<1>7. ASSUME NEW y \in S \ {0}
      PROVE  line[1] < line[y + 1]
  <2>1. PICK x \in T : x = y + 1 /\ 1 < x
    BY <1>2, <1>6, <1>7
  <2>2. line[1] <= line[x] /\ (line[1] = line[x] => at[1] < at[x])
    BY <1>1, <1>4, <1>6, <2>1 DEF Ordered
  <2>3. line[1] # line[x]
    <3>1. SUFFICES ASSUME line[x] = l PROVE FALSE
      OBVIOUS
    <3>2. PICK a : a = at[x]
      OBVIOUS
    <3>3. ItemOf(h, x, l, a) /\ x # 0
      <4>1. x \in Items(h) /\ x # 0
        BY <1>3, <1>6, <2>1
      <4>2. ItemOf(h, x, line[x], at[x])
        BY <1>4, <4>1
      <4> QED
        BY <3>1, <3>2, <4>1, <4>2
    <3>4. \E later : CutOf(later, sent[h][l]) /\ CutPlace(later) = a
      BY <3>3, ItemCut
    <3> QED
      BY <1>1, <2>2, <3>1, <3>2, <3>4
  <2>4. line[1] \in Nat /\ line[x] \in Nat
    BY <1>1, <1>4, <1>6
  <2> QED
    BY <2>1, <2>2, <2>3, <2>4
<1>8. PICK s : s = [i \in S |-> IF i = 0 THEN 0 ELSE i + 1]
  OBVIOUS
<1>9. /\ s \in [S -> T] /\ Monotone(s) /\ Keeps(s, line, at)
      /\ \A y \in S \ {0} : l < line[s[y]]
  <2>1. MovesUp(T, S)
    BY <1>2, <1>6 DEF MovesUp
  <2>2. 1 \in T /\ (0 \in S => 0 \in T) /\ T \in SUBSET Nat /\ S \in SUBSET Nat
    BY <1>1, <1>2, <1>3, <1>6
  <2>3. line \in [T -> Nat] /\ at \in [T -> Nat] /\ Ordered(T, line, at, b)
    BY <1>4, <1>6
  <2> QED
    BY <1>7, <1>8, <2>1, <2>2, <2>3, GoesWhole
<1>10. ASSUME NEW i \in S, ItemOf(h, s[i], line[s[i]], at[s[i]])
       PROVE  ItemOf(h, i, line[s[i]], at[s[i]])'
  <2>1. PICK k, a : k = line[s[i]] /\ a = at[s[i]]
    OBVIOUS
  <2>2. CASE i = 0
    <3>1. ItemOf(h, 0, k, a)
      BY <1>8, <1>10, <2>1, <2>2
    <3>2. InTable(channels, sent[h][k], c, a) /\ UNCHANGED channels
      <4>1. 0 \notin Own(chan[h]) /\ 0 # Len(queue) + 1
        BY <1>1 DEF Own
      <4> QED
        BY <1>1, <1>2, <1>6, <2>2, <3>1, <4>1 DEF ItemOf
    <3>3. InTable(channels', sent'[h][k], chan'[h], a)
      BY <1>1, <3>2
    <3>4. ItemOf(h, 0, k, a)'
      BY <3>3 DEF ItemOf
    <3> QED
      BY <2>1, <2>2, <3>4
  <2>3. CASE i # 0
    <3>1. s[i] = i + 1 /\ i \in Items(h)' \ {0}
      BY <1>6, <1>8, <2>3
    <3>2. ItemOf(h, i, k, a)'
      BY <1>2, <1>10, <2>1, <3>1
    <3> QED
      BY <2>1, <3>2
  <2> QED
    BY <2>2, <2>3
<1>11. l \in 0 .. Len(sent[h])
  BY <1>1
<1> QED
  BY <1>1, <1>2, <1>5, <1>6, <1>9, <1>10, <1>11, TrailMoves

\* A message that is complete comes after all that were answered.
LEMMA OriginsPass ==
  ASSUME DInv, NEW h \in Hosts, NEW origin, NEW b \in Nat, NEW l \in DOMAIN sent[h],
         Origins(h, origin, b), b < l, UNCHANGED <<got, sent>>,
         NEW m, m = sent[h][l], Answering(h)' => Answers(m)'
  PROVE  Origins(h, origin, l)'
<1>1. /\ origin \in [DOMAIN got[h] -> DOMAIN sent[h]]
      /\ \A k \in DOMAIN got[h] :
           /\ origin[k] <= got[h][k].to /\ origin[k] <= b
           /\ AnswerTo(sent[h][origin[k]], got[h][k].answer)
      /\ \A j, k \in DOMAIN got[h] : j < k => origin[j] < origin[k]
  BY DEF Origins
<1>2. DOMAIN sent[h] \in SUBSET Nat
  BY DEF DInv, HostInv
<1>3. \A k \in DOMAIN got[h] : origin[k] < l /\ origin[k] <= l
  BY <1>1, <1>2
<1>4. Answers(sent[h][l])' <=> Answers(m)'
  BY DEF Answers
<1> QED
  BY <1>1, <1>3, <1>4 DEF Origins

\* What is received concerns the host whose packet it is.
LEMMA ReceiveTrailed ==
  ASSUME DInv, DeclaredInv, ChannelInv, Receive, NEW h \in Hosts, Trailed(h)
  PROVE  Trailed(h)'
<1>1. PICK event, p : Received(event, p) /\ Outcome(p)
  BY ReceivedPacket
<1>2. /\ UNCHANGED <<chan, sending, waiting, sent, got, gaveUp>> /\ phase = "reading"
      /\ queue # <<>> /\ queue' = Tail(queue) /\ queue \in Seq(Events)
      /\ event = Head(queue) /\ ~Answering(h)
  BY <1>1 DEF Received, hostVars, DInv, HostInv, Answering
<1>3. ChannelsKept /\ (HasChannel(h)' <=> HasChannel(h))
  <2>1. ChannelsKept
    BY <1>2, HostsIdle
  <2> QED
    BY <1>2, <2>1 DEF HasChannel
<1>4. CASE ~OnChannel(event, chan[h])
  <2>1. Elsewhere(h)
    BY <1>1, <1>4, OthersPacket
  <2>2. AnswerKept(h)
    BY <1>2, <2>1 DEF Elsewhere, AnswerKept
  <2>3. QueueStep(OtherEvent) /\ ~OnChannel(OtherEvent, chan[h]) /\ OtherEvent \in Events
    BY <1>2 DEF QueueStep, OtherEvent, OnChannel, Events
  <2> QED
    BY <1>2, <1>3, <1>4, <2>1, <2>2, <2>3, TrailedStays
<1>5. CASE OnChannel(event, chan[h])
  <2>1. SUFFICES ASSUME Alone(h)', HasChannel(h)'
                 PROVE  (\E line, at, b, origin : Trail(h, line, at, b) /\ Origins(h, origin, b))'
    BY DEF Trailed
  <2>2. Alone(h) /\ HasChannel(h)
    BY <1>3, <2>1, AloneBefore
  <2>3. PICK line, at, b, origin : Trail(h, line, at, b) /\ Origins(h, origin, b)
    BY <2>2 DEF Trailed
  <2>4. PICK c, m, l, cut : Arrives(h, event, p, c, m, l, cut) /\ l = line[1] /\ at[1] = Place(p)
    BY <1>1, <1>5, <2>3, OwnArrives
  <2>5. /\ c \in Cids /\ c = p.cid /\ CutOf(cut, m) /\ p = Parse(Serialize(CutPacket(cut, c)))
        /\ cut.first \/ (c \in DOMAIN channels /\ channels[c] = EntryOf(cut))
        /\ HandlePacket(p) /\ Readable(p) /\ l \in DOMAIN sent[h] /\ m = sent[h][l]
    BY <2>4 DEF Arrives, Received
  <2>6. b \in Nat
    BY <2>3 DEF Trail, DInv, HostInv
  <2>7. CASE /\ delivered' = [delivered EXCEPT ![c] =
                  Append(@, [cmd |-> m.cmd, payload |-> m.payload])]
             /\ c \in DOMAIN channels' => cut.first /\ UNCHANGED channels
             /\ \A later : CutOf(later, m) => ~(Place(p) < CutPlace(later))
    <3>1. b < l /\ \E line2, at2 : Trail(h, line2, at2, l)'
      BY <2>3, <2>4, <2>7, OwnCompleted
    <3>2. Answering(h)' => Answers(m)'
      BY <1>1, <2>5, <2>7, OwnAnswered
    <3>3. Origins(h, origin, l)'
      BY <1>2, <2>3, <2>5, <2>6, <3>1, <3>2, OriginsPass
    <3> QED
      BY <3>1, <3>3
  <2>8. CASE /\ UNCHANGED delivered
             /\ c \in DOMAIN channels' /\ Behind(channels', m, c)
             /\ channels'[c].next_seq = Place(p)
    <3>1. \E line2, at2 : Trail(h, line2, at2, b)'
      BY <2>3, <2>4, <2>8, OwnContinued
    <3>2. ~Answering(h)'
      BY <1>1, <2>8, NoneAnswered
    <3>3. Origins(h, origin, b)'
      BY <1>2, <2>3, <3>2, OriginsStay DEF AnswerKept
    <3> QED
      BY <3>1, <3>3
  <2>9. \/ /\ delivered' = [delivered EXCEPT ![c] =
                  Append(@, [cmd |-> m.cmd, payload |-> m.payload])]
           /\ c \in DOMAIN channels' => cut.first /\ UNCHANGED channels
           /\ \A later : CutOf(later, m) => ~(Place(p) < CutPlace(later))
        \/ /\ UNCHANGED delivered
           /\ c \in DOMAIN channels' /\ Behind(channels', m, c)
           /\ channels'[c].next_seq = Place(p)
    BY <2>5, NextPacket
  <2> QED
    BY <2>7, <2>8, <2>9
<1> QED
  BY <1>4, <1>5

\* A host with a channel takes an answer: it is one to the message answered.
LEMMA HeardTrailed ==
  ASSUME DInv, NEW h \in Hosts, phase = "writing", phase' = "reading",
         UNCHANGED <<channels, queue, sending, sent>>,
         Heard(h), Takes(h, current), HasChannel(h),
         NEW line, NEW at, NEW b, Trail(h, line, at, b), NEW origin, Origins(h, origin, b)
  PROVE  Trail(h, line, at, b)' /\ \E origin2 : Origins(h, origin2, b)'
<1>1. /\ current.cmd # InitCommand /\ chan'[h] = chan[h] /\ chan[h] = current.cid
      /\ got'[h] = Append(got[h], [to |-> Len(sent[h]), answer |-> current])
  BY DEF Heard
<1>2. Answering(h) /\ ~Answering(h)'
  BY <1>1 DEF Answering
<1>3. /\ origin \in [DOMAIN got[h] -> DOMAIN sent[h]]
      /\ \A k \in DOMAIN got[h] :
           /\ origin[k] <= got[h][k].to /\ origin[k] <= b
           /\ AnswerTo(sent[h][origin[k]], got[h][k].answer)
           /\ origin[k] < b
      /\ \A j, k \in DOMAIN got[h] : j < k => origin[j] < origin[k]
      /\ b \in DOMAIN sent[h] /\ Answers(sent[h][b])
  BY <1>2 DEF Origins
<1>4. Items(h)' = Items(h)
  BY <1>1 DEF Items, Own
<1>5. Trail(h, line, at, b)'
  <2>1. \A i, l, a : ItemOf(h, i, l, a) => ItemOf(h, i, l, a)'
    BY <1>1 DEF ItemOf, Own
  <2>2. /\ b \in 0 .. Len(sent[h])
        /\ line \in [Items(h) -> DOMAIN sent[h]] /\ at \in [Items(h) -> Nat]
        /\ \A i \in Items(h) : ItemOf(h, i, line[i], at[i])
        /\ Ordered(Items(h), line, at, b)
    BY DEF Trail
  <2>3. \A i \in Items(h) : ItemOf(h, i, line[i], at[i])'
    BY <2>1, <2>2
  <2> QED
    BY <1>4, <2>2, <2>3 DEF Trail
<1>6. PICK g : g = [to |-> Len(sent[h]), answer |-> current]
  OBVIOUS
<1>7. g.to = Len(sent[h]) /\ g.answer = current /\ got'[h] = Append(got[h], g)
  BY <1>1, <1>6
<1>8. AnswerTo(sent[h][b], current)
  <2>1. PICK answer : answer = [cmd |-> current.cmd, payload |-> current.payload]
    OBVIOUS
  <2>2. answer.cmd = current.cmd /\ answer.payload = current.payload
        /\ AnswerTo(sent[h][b], answer)
    BY <1>3, <2>1 DEF Answers
  <2> QED
    BY <2>2 DEF AnswerTo
<1>9. PICK n \in Nat : n = Len(got[h]) + 1 /\ DOMAIN got[h] = 1 .. n - 1 /\ n # 0
  <2>1. PICK G : got[h] \in Seq(G)
    BY DEF DInv, HostInv
  <2>2. Len(got[h]) \in Nat /\ DOMAIN got[h] = 1 .. Len(got[h])
    BY <2>1
  <2>3. Len(got[h]) = (Len(got[h]) + 1) - 1 /\ Len(got[h]) + 1 \in Nat /\ Len(got[h]) + 1 # 0
    BY <2>2
  <2> QED
    BY <2>2, <2>3
<1>10. /\ DOMAIN got'[h] = 1 .. n /\ got'[h][n] = g
       /\ \A k \in 1 .. n - 1 : got'[h][k] = got[h][k]
  <2>1. PICK G : got[h] \in Seq(G)
    BY DEF DInv, HostInv
  <2> QED
    BY <1>7, <1>9, <2>1
<1>11. b <= g.to
  <2>1. sent[h] \in Seq(Addressed)
    BY DEF DInv, HostInv
  <2> QED
    BY <1>3, <1>7, <2>1
<1>12. PICK origin2 : origin2 = [k \in 1 .. n |-> IF k = n THEN b ELSE origin[k]]
  OBVIOUS
<1>13. /\ origin2[n] = b /\ n \in 1 .. n
       /\ \A k \in 1 .. n : k # n => k \in 1 .. n - 1 /\ origin2[k] = origin[k]
  <2>1. n \in 1 .. n /\ \A k \in 1 .. n : k # n => k \in 1 .. n - 1
    BY <1>9
  <2> QED
    BY <1>12, <2>1
<1>14. origin2 \in [DOMAIN got'[h] -> DOMAIN sent'[h]]
  BY <1>3, <1>9, <1>10, <1>12, <1>13
<1>15. b \in Nat
  BY <1>3 DEF DInv, HostInv
<1>16. ASSUME NEW k \in 1 .. n
       PROVE  /\ origin2[k] <= got'[h][k].to /\ origin2[k] <= b
              /\ AnswerTo(sent'[h][origin2[k]], got'[h][k].answer)
  <2>1. CASE k = n
    BY <1>7, <1>8, <1>10, <1>11, <1>13, <1>15, <2>1
  <2>2. CASE k # n
    BY <1>3, <1>9, <1>10, <1>13, <2>2
  <2> QED
    BY <2>1, <2>2
<1>17. ASSUME NEW j \in 1 .. n, NEW k \in 1 .. n, j < k
       PROVE  origin2[j] < origin2[k]
  <2>1. j # n
    BY <1>17
  <2>2. CASE k = n
    BY <1>3, <1>9, <1>13, <2>1, <2>2
  <2>3. CASE k # n
    BY <1>3, <1>9, <1>13, <1>17, <2>1, <2>3
  <2> QED
    BY <2>2, <2>3
<1>18. Origins(h, origin2, b)'
  BY <1>2, <1>10, <1>14, <1>16, <1>17 DEF Origins
<1> QED
  BY <1>5, <1>18

\* A host that gets a channel has taken one answer, to its INIT, and nothing of
\* what it sends there is on its way.
LEMMA ChannelTrailed ==
  ASSUME DInv, ChannelInv, ChannelsKept, NEW h \in Hosts, Alone(h)',
         phase = "writing", phase' = "reading",
         UNCHANGED <<channels, queue, sending, sent>>,
         Heard(h), Takes(h, current), ~HasChannel(h)
  PROVE  (\E line, at, b, origin : Trail(h, line, at, b) /\ Origins(h, origin, b))'
<1>1. AnswerTo(LastSent(h), current) /\ Quiet(h)' /\ ~Answering(h)'
  BY HeardQuiet
<1>2. PICK g : g = [to |-> Len(sent[h]), answer |-> current]
  OBVIOUS
<1>3. /\ sent[h] # <<>> /\ got[h] = <<>> /\ got'[h] = Append(got[h], g)
      /\ g.to = Len(sent[h]) /\ g.answer = current
      /\ sent[h] \in Seq(Addressed)
  BY <1>2 DEF Heard, HasChannel, DInv, HostInv
<1>4. PICK b \in DOMAIN sent[h] : b = Len(sent[h]) /\ b \in Nat
  BY <1>3
<1>5. got'[h] = <<g>> /\ DOMAIN got'[h] = {1} /\ got'[h][1] = g
  BY <1>3
<1>6. PICK origin : origin = [k \in {1} |-> b]
  OBVIOUS
<1>7. Origins(h, origin, b)'
  <2>1. origin \in [DOMAIN got'[h] -> DOMAIN sent'[h]] /\ origin[1] = b
    BY <1>4, <1>5, <1>6
  <2>2. AnswerTo(sent'[h][b], g.answer) /\ b <= g.to
    BY <1>1, <1>3, <1>4 DEF LastSent
  <2> QED
    BY <1>1, <1>4, <1>5, <2>1, <2>2 DEF Origins
<1>8. Items(h)' = {}
  BY <1>1 DEF Quiet, Items
<1>9. PICK line, at : line = [i \in {} |-> b] /\ at = [i \in {} |-> 0]
  OBVIOUS
<1>10. Trail(h, line, at, b)'
  <2>1. PICK S : S = Items(h)' /\ S = {}
    BY <1>8
  <2>2. line \in [S -> DOMAIN sent'[h]] /\ at \in [S -> Nat]
    BY <1>9, <2>1
  <2>3. Ordered(S, line, at, b)
    BY <2>1 DEF Ordered
  <2>4. b \in 0 .. Len(sent'[h])
    BY <1>4
  <2> QED
    BY <2>1, <2>2, <2>3, <2>4 DEF Trail
<1> QED
  BY <1>7, <1>10

\* A packet of a response concerns the hosts that take it.
LEMMA WritePacketTrailed ==
  ASSUME DInv, ChannelInv, WritePacket, NEW h \in Hosts, Trailed(h)
  PROVE  Trailed(h)' /\ lost' = lost
<1>1. /\ UNCHANGED <<channels, queue>> /\ queue \in Seq(Events)
      /\ QueueStep(OtherEvent) /\ ~OnChannel(OtherEvent, chan[h]) /\ OtherEvent \in Events
  BY DEF WritePacket, reassemblerVars, QueueStep, DInv, HostInv, OtherEvent, OnChannel, Events
<1>2. queue # <<>> /\ queue' = Tail(queue) => ~OnChannel(Head(queue), chan[h])
  BY <1>1, NothingLeaves
<1>3. CASE ~ResponseWritten(response)
  <2>1. UNCHANGED <<chan, sending, waiting, sent, got, gaveUp, lost, phase, current>>
    BY <1>3, WritePacketFacts DEF hostVars
  <2>2. ChannelsKept
    BY <2>1, HostsIdle
  <2>3. Elsewhere(h) /\ AnswerKept(h)
    BY <1>1, <2>1 DEF Elsewhere, AnswerKept, Answering, Answers, LastSent
  <2> QED
    BY <1>1, <1>2, <2>1, <2>2, <2>3, TrailedStays
<1>4. CASE ResponseWritten(response)
  <2>1. /\ phase = "writing" /\ phase' = "reading"
        /\ UNCHANGED <<sending, sent, gaveUp, lost>>
        /\ \A o \in Hosts : Heard(o)
    BY <1>4, HeardAnswer
  <2>2. ChannelsKept /\ Heard(h)
    BY <2>1 DEF Heard, ChannelsKept
  <2>3. CASE ~Takes(h, current)
    <3>1. /\ h \in waiting' <=> h \in waiting
          /\ got'[h] = got[h] /\ chan'[h] = chan[h]
      BY <2>2, <2>3 DEF Heard
    <3>2. Elsewhere(h) /\ AnswerKept(h)
      BY <1>1, <2>1, <3>1 DEF Elsewhere, AnswerKept, Answering
    <3>3. Trailed(h)'
      BY <1>1, <1>2, <2>1, <2>2, <3>1, <3>2, TrailedStays
    <3> QED
      BY <2>1, <3>3
  <2>4. CASE Takes(h, current)
    <3>1. SUFFICES ASSUME Alone(h)'
                   PROVE  (\E line, at, b, origin : Trail(h, line, at, b) /\ Origins(h, origin, b))'
      BY <2>1 DEF Trailed
    <3>2. Alone(h)
      BY <2>2, <3>1, AloneBefore
    <3>3. CASE HasChannel(h)
      <4>1. PICK line, at, b, origin : Trail(h, line, at, b) /\ Origins(h, origin, b)
        BY <3>2, <3>3 DEF Trailed
      <4> QED
        BY <1>1, <2>1, <2>2, <2>4, <3>3, <4>1, HeardTrailed
    <3>4. CASE ~HasChannel(h)
      BY <1>1, <2>1, <2>2, <2>4, <3>1, <3>4, ChannelTrailed
    <3> QED
      BY <3>3, <3>4
  <2> QED
    BY <2>3, <2>4
<1> QED
  BY <1>3, <1>4

\* The trails are inductive beside DInv, DeclaredInv and ChannelInv.
LEMMA TrailStep ==
  ASSUME DInv, DeclaredInv, ChannelInv, TrailInv, [Next]_vars
  PROVE  TrailInv'
<1>1. CASE KernelEvent \/ Skip \/ Answer \/ Fail \/ UNCHANGED vars
  <2>1. \A h \in Hosts : lost' = lost /\ (Trailed(h) => Trailed(h)')
    BY <1>1, IdleElsewhere, IdleTrailed
  <2> QED
    BY <2>1 DEF TrailInv
<1>2. ASSUME NEW o \in Hosts, NEW m \in Message, Begins(o, m)
      PROVE  TrailInv'
  <2>1. lost' = lost
    BY <1>2 DEF Begins
  <2>2. \A h \in Hosts : Trailed(h) => Trailed(h)'
    BY <1>2, BeginTrailed
  <2> QED
    BY <2>1, <2>2 DEF TrailInv
<1>3. ASSUME NEW h \in Hosts, NEW m \in Requests \cup {InitRequest(h)}, Begin(h, m)
      PROVE  TrailInv'
  BY <1>2, <1>3, BeginsMessage
<1>4. ASSUME NEW h \in Hosts, GiveUp(h)
      PROVE  TrailInv'
  BY <1>2, <1>4, BeginsMessage
<1>5. ASSUME NEW o \in Hosts, WriteReport(o)
      PROVE  TrailInv'
  <2>1. lost \subseteq lost'
    BY <1>5 DEF WriteReport
  <2>2. \A h \in Hosts \ lost' : Trailed(h)
    BY <2>1 DEF TrailInv
  <2>3. \A h \in Hosts \ lost' : Trailed(h)'
    BY <1>5, <2>2, WriteReportTrailed
  <2> QED
    BY <2>3 DEF TrailInv
<1>6. CASE Receive
  <2>1. lost' = lost
    BY <1>6 DEF Receive, ReadEvent, hostVars
  <2>2. \A h \in Hosts : Trailed(h) => Trailed(h)'
    BY <1>6, ReceiveTrailed
  <2> QED
    BY <2>1, <2>2 DEF TrailInv
<1>7. CASE WritePacket
  <2>1. \A h \in Hosts \ lost : Trailed(h)' /\ lost' = lost
    BY <1>7, WritePacketTrailed DEF TrailInv
  <2>2. lost \subseteq lost'
    <3>1. lost' = lost
      BY <1>7, WritePacketFacts, HeardAnswer DEF hostVars
    <3> QED
      BY <3>1
  <2> QED
    BY <2>1, <2>2 DEF TrailInv
<1> QED
  BY <1>1, <1>3, <1>4, <1>5, <1>6, <1>7 DEF Next, Loop

\* At the start nobody has a channel.
LEMMA TrailAtStart == Init => TrailInv
<1> SUFFICES ASSUME Init, NEW h \in Hosts, HasChannel(h) PROVE FALSE
  BY DEF TrailInv, Trailed
<1> QED
  BY DEF Init, HasChannel

\* What a host has a trail of is its own.
LEMMA TrailOwn == TrailInv => LateAnswersOwn
<1> SUFFICES ASSUME TrailInv, NEW h \in Hosts \ lost, Alone(h)
             PROVE  \E origin \in [DOMAIN got[h] -> DOMAIN sent[h]] :
                      /\ \A k \in DOMAIN got[h] :
                           /\ origin[k] <= got[h][k].to
                           /\ AnswerTo(sent[h][origin[k]], got[h][k].answer)
                      /\ \A j, k \in DOMAIN got[h] : j < k => origin[j] < origin[k]
  BY DEF LateAnswersOwn
<1>1. CASE HasChannel(h)
  <2>1. PICK line, at, b, origin : Trail(h, line, at, b) /\ Origins(h, origin, b)
    BY <1>1 DEF TrailInv, Trailed
  <2> QED
    BY <2>1 DEF Origins
<1>2. CASE ~HasChannel(h)
  <2>1. DOMAIN got[h] = {}
    BY <1>2 DEF HasChannel
  <2>2. PICK origin : origin = [k \in {} |-> 0]
    OBVIOUS
  <2>3. origin \in [DOMAIN got[h] -> DOMAIN sent[h]]
    BY <2>1, <2>2
  <2> QED
    BY <2>1, <2>3
<1> QED
  BY <1>1, <1>2

\* When requests fit, a host that is alone on its channel and of which nothing was
\* dropped takes only answers to its own requests, each once and in their order,
\* however often it gives up and however late the answers come.
THEOREM AloneAndImpatient ==
  ASSUME RequestsFit
  PROVE  Spec => []LateAnswersOwn
<1>1. DInv /\ DeclaredInv /\ [Next]_vars => DeclaredInv'
  BY DeclaredStep
<1>2. DInv /\ DeclaredInv /\ ChannelInv /\ [Next]_vars => ChannelInv'
  BY ChannelStep
<1>3. DInv /\ DeclaredInv /\ ChannelInv /\ TrailInv /\ [Next]_vars => TrailInv'
  BY TrailStep
<1>4. Init => ChannelInv
  BY PairedAtStart
<1> QED
  BY <1>1, <1>2, <1>3, <1>4, DInvInit, DInvStep, DeclaredInit, TrailAtStart, TrailOwn, PTL
     DEF Spec

=============================================================================
