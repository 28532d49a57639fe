------------------------------- MODULE Device -------------------------------
(***************************************************************************)
(* The whole path of a request and its answer: hosts, the kernel's queue   *)
(* of uhid events, the loop of UhidAuthenticator::run with its reassembler *)
(* and its prompts, send_message, and the hosts' own reassembly.           *)
(*                                                                         *)
(* One thread does everything on the device's side.  While it waits at a   *)
(* prompt or writes, events pile up in the queue, and the kernel drops     *)
(* what does not fit.  A host gets its channel from INIT, which draws an   *)
(* identifier and records nothing, so two hosts may end up with one.  An   *)
(* impatient host may give up on a request at any time: it sends CANCEL,   *)
(* which the device ignores, and goes on.                                  *)
(*                                                                         *)
(* Of the commands those are kept that differ in what happens on the way:  *)
(* PING, INIT, CBOR with a command that is answered at once (GET_INFO),    *)
(* that asks the user (SELECTION) or that is ignored, and CANCEL.  Uhid    *)
(* has the requests that use credentials.                                  *)
(***************************************************************************)
EXTENDS Reassembler, FiniteSets

CONSTANTS
  Hosts,           \* a host's number is the nonce of its INIT
  Impatient,       \* the hosts that may give up on a request
  BroadcastCid,    \* 0xffffffff, where hosts send INIT
  InitCommand, PingCommand, CborCommand, CancelCommand,    \* CTAPHID commands
  GetInfo, Selection,          \* CTAP2 commands
  OK, OperationDenied,         \* CTAP2 statuses
  Info,            \* what GET_INFO returns after the status
  Requests,        \* the messages a host sends once it has a channel
  MaxRequests,     \* how many of them each host sends (bounds the model)
  QueueSize        \* how many events the kernel holds (UHID_BUFSIZE)

ASSUME DeviceAssumption ==
  /\ Hosts \subseteq Byte /\ Cids \subseteq Byte /\ Impatient \subseteq Hosts
  /\ BroadcastCid \in Cids
  /\ {InitCommand, PingCommand, CborCommand, CancelCommand} \subseteq
       SeqLimit .. Base - 1
  /\ InitCommand \notin {PingCommand, CborCommand, CancelCommand}
  /\ PingCommand \notin {CborCommand, CancelCommand}
  /\ CborCommand # CancelCommand
  /\ {GetInfo, Selection, OK, OperationDenied} \subseteq Byte
  /\ GetInfo # Selection
  /\ Info \in Seq(Byte) /\ 1 + Len(Info) <= MaxPayload
  /\ Requests \subseteq Message
  /\ \A m \in Requests : m.cmd = InitCommand => m.payload = <<>>
  /\ MaxRequests \in [Hosts -> Nat] /\ QueueSize \in Nat

Seqs == INSTANCE SequencesExt

VARIABLES
  queue,       \* the events /dev/uhid holds for the device
  phase,       \* what the loop does: reading, prompting, writing or stopped
  current,     \* the message being handled, when it prompts or is answered
  response,    \* the cut of the response being written
  incoming,    \* the hosts' table of incomplete messages
  answers,     \* the messages hosts have received, per channel
  chan,        \* the channel of each host
  sending,     \* the cut of each host that is writing a message
  waiting,     \* the hosts that wait for an answer to the last they sent
  sent,        \* history: the messages each host began, with their channel
  got,         \* history: the answers each host took, and to which message
  gaveUp,      \* history: the hosts that have given up on a request
  lost         \* history: the hosts that had a packet dropped

deviceVars == <<reassemblerVars, phase, current, response>>
hostVars   == <<chan, sending, waiting, sent, got, gaveUp, lost>>
answerVars == <<incoming, answers>>
vars == <<channels, delivered, queue, phase, current, response, incoming,
          answers, chan, sending, waiting, sent, got, gaveUp, lost>>

\* What hosts do with the reports they read: CTAPHID, as the device does.
HostSide == INSTANCE Reassembler
  WITH channels <- incoming, delivered <- answers

NoMessage == [cid |-> BroadcastCid, cmd |-> 0, payload |-> <<>>]
NoCut     == StartCut([cmd |-> 0, payload |-> <<>>])

Addressed == [cid : Cids, cmd : Byte, payload : Seq(Byte)]

InitRequest(h) == [cmd |-> InitCommand, payload |-> <<h>>]
CancelMessage  == [cmd |-> CancelCommand, payload |-> <<>>]

\* An event other than UHID_OUTPUT: START, OPEN, CLOSE.
OtherEvent == [kind |-> "other"]

OutputEvent(report) == [kind |-> "output", report |-> report]

\* Types, and that a response is never left incomplete on the hosts' side
\* once the loop goes on.
TypeOK ==
  /\ ReassemblerTypeOK /\ HostSide!ReassemblerTypeOK
  /\ phase \in {"reading", "prompting", "writing", "stopped"}
  /\ current \in Addressed
  /\ phase \in {"reading", "prompting"} => DOMAIN incoming = {}
  /\ DOMAIN incoming \subseteq {current.cid}
  /\ chan \in [Hosts -> Cids]
  /\ DOMAIN sending \subseteq Hosts
  /\ waiting \subseteq Hosts /\ lost \subseteq Hosts
  /\ gaveUp \subseteq Impatient
  /\ sent \in [Hosts -> Seq(Addressed)]
  /\ got \in [Hosts -> Seq([to : Nat, answer : Addressed])]

Init ==
  /\ ReassemblerInit /\ HostSide!ReassemblerInit
  /\ queue = <<>> /\ phase = "reading"
  /\ current = NoMessage /\ response = NoCut
  /\ chan = [h \in Hosts |-> BroadcastCid]
  /\ sending = EmptyMap /\ waiting = {} /\ gaveUp = {} /\ lost = {}
  /\ sent = [h \in Hosts |-> <<>>]
  /\ got = [h \in Hosts |-> <<>>]

-----------------------------------------------------------------------------
(***************************************************************************)
(* The kernel's queue: what does not fit is dropped.                       *)
(***************************************************************************)

\* The device is there until run ends and the file is closed.
Plugged == phase # "stopped"

HasRoom == Len(queue) < QueueSize

Enqueue(event) == queue' = IF HasRoom THEN Append(queue, event) ELSE queue

\* The kernel opens, starts or closes the device (at most one such event is
\* queued at a time, which bounds the model).
KernelEvent ==
  /\ Plugged
  /\ ~Seqs!Contains(queue, OtherEvent)
  /\ Enqueue(OtherEvent)
  /\ UNCHANGED <<deviceVars, answerVars, hostVars>>

-----------------------------------------------------------------------------
(***************************************************************************)
(* The hosts.                                                              *)
(***************************************************************************)

\* A host that has not been given a channel asks for one first.
HasChannel(h) == got[h] # <<>>

\* The messages of a host besides CANCEL.
Begun(h) == SelectSeq(sent[h], LAMBDA m : m.cmd # CancelCommand)

StartSending(h, m) ==
  /\ sending' = Put(sending, h, StartCut(m))
  /\ sent' = [sent EXCEPT ![h] =
                Append(@, [cid |-> chan[h], cmd |-> m.cmd,
                           payload |-> m.payload])]

\* A host begins its next request.
Begin(h, m) ==
  /\ Plugged
  /\ h \notin waiting /\ h \notin DOMAIN sending
  /\ IF HasChannel(h) THEN m \in Requests /\ Len(Begun(h)) <= MaxRequests[h]
                      ELSE m = InitRequest(h) /\ sent[h] = <<>>
  /\ StartSending(h, m)
  /\ waiting' = waiting \cup {h}
  /\ UNCHANGED <<deviceVars, queue, answerVars, chan, got, gaveUp, lost>>

\* A host writes its next packet, on the channel of the message.
WriteReport(h) ==
  /\ Plugged
  /\ h \in DOMAIN sending
  /\ LET cid  == Seqs!Last(sent[h]).cid
         next == CutNext(sending[h])
     IN  /\ Enqueue(OutputEvent(Serialize(CutPacket(sending[h], cid))))
         /\ sending' = IF CutDone(next) THEN Remove(sending, h)
                                        ELSE Put(sending, h, next)
  /\ lost' = IF HasRoom THEN lost ELSE lost \cup {h}
  /\ UNCHANGED <<deviceVars, answerVars, chan, waiting, sent, got, gaveUp>>

\* A host stops waiting, or writing, and sends CANCEL.
GiveUp(h) ==
  /\ Plugged
  /\ h \in Impatient \cap waiting
  /\ HasChannel(h)
  /\ StartSending(h, CancelMessage)
  /\ waiting' = waiting \ {h}
  /\ gaveUp' = gaveUp \cup {h}
  /\ UNCHANGED <<deviceVars, queue, answerVars, chan, got, lost>>

\* A host takes the next message on its channel that has the command of its
\* request and, for INIT, its nonce.
Takes(h, answer) ==
  LET request == Seqs!Last(sent[h])
  IN  /\ h \in waiting
      /\ request.cid = answer.cid /\ request.cmd = answer.cmd
      /\ request.cmd = InitCommand => Head(answer.payload) = h

Take(answer) ==
  LET takers == {h \in Hosts : Takes(h, answer)}
  IN  /\ waiting' = waiting \ takers
      /\ got' = [h \in Hosts |->
                   IF h \in takers
                   THEN Append(got[h], [to |-> Len(sent[h]), answer |-> answer])
                   ELSE got[h]]
      /\ chan' = [h \in Hosts |->
                    IF h \in takers /\ answer.cmd = InitCommand
                    THEN answer.payload[2] ELSE chan[h]]
      /\ UNCHANGED <<sending, sent, gaveUp, lost>>

-----------------------------------------------------------------------------
(***************************************************************************)
(* The device: a message is handled to its end before the next event.      *)
(***************************************************************************)

\* Seeded fault: the response goes to the channel that INIT handed out.
RespondToNewChannel(cid, cmd, payload) ==
  /\ phase' = "writing"
  /\ current' = [cid |-> IF cmd = InitCommand THEN payload[2] ELSE cid,
                 cmd |-> cmd, payload |-> payload]
  /\ response' = StartCut([cmd |-> cmd, payload |-> payload])

\* send_message begins: the response has the channel of its request.
Respond(cid, cmd, payload) ==
  /\ phase' = "writing"
  /\ current' = [cid |-> cid, cmd |-> cmd, payload |-> payload]
  /\ response' = StartCut([cmd |-> cmd, payload |-> payload])

\* Neither a response nor a prompt.
Ignore == UNCHANGED <<phase, current, response>>

\* INIT: the nonce (one byte here, 8 in the code) comes back with a random
\* identifier that is not recorded.
HandleInit(m) ==
  IF Len(m.payload) < 1
  THEN Ignore
  ELSE \E cid \in Cids : Respond(m.cid, InitCommand, <<Head(m.payload), cid>>)

\* confirm_user_presence is called.
Prompt(m) ==
  /\ phase' = "prompting"
  /\ current' = m
  /\ UNCHANGED response

\* A CBOR message, by its CTAP2 command.
HandleCbor(m) ==
  LET Command == IF m.payload = <<>> THEN -1 ELSE Head(m.payload)
  IN  \/ Command = GetInfo /\ Respond(m.cid, CborCommand, <<OK>> \o Info)
      \/ Command = Selection /\ Prompt(m)
      \/ Command \notin {GetInfo, Selection} /\ Ignore

\* handle_message
HandleMessage(m) ==
  \/ m.cmd = PingCommand /\ Respond(m.cid, PingCommand, m.payload)
  \/ m.cmd = InitCommand /\ HandleInit(m)
  \/ m.cmd = CborCommand /\ HandleCbor(m)
  \/ m.cmd \notin {PingCommand, InitCommand, CborCommand} /\ Ignore

\* One round of the loop: an event is read, and a packet of a report is given
\* to the reassembler, which may return a message.
ReadEvent ==
  /\ phase = "reading" /\ queue # <<>>
  /\ queue' = Tail(queue)
  /\ UNCHANGED <<answerVars, hostVars>>

Skip ==
  /\ ReadEvent
  /\ Head(queue).kind # "output"
  /\ UNCHANGED deviceVars

Receive ==
  /\ ReadEvent
  /\ Head(queue).kind = "output"
  /\ LET packet == Parse(Head(queue).report)
         cid    == packet.cid
     IN  /\ HandlePacket(packet)
         /\ IF delivered' = delivered
            THEN Ignore
            ELSE LET msg == Seqs!Last(delivered'[cid])
                 IN  HandleMessage([cid |-> cid, cmd |-> msg.cmd,
                                    payload |-> msg.payload])

\* Seeded fault: a refusal is not reported to the host.
AnswerYesOnly ==
  /\ phase = "prompting"
  /\ \/ Respond(current.cid, CborCommand, <<OK>>)
     \/ phase' = "reading" /\ UNCHANGED <<current, response>>
  /\ UNCHANGED <<reassemblerVars, queue, answerVars, hostVars>>

\* The user answers the prompt, and send_cbor_status begins.
Answer ==
  /\ phase = "prompting"
  /\ \E status \in {OK, OperationDenied} :
       Respond(current.cid, CborCommand, <<status>>)
  /\ UNCHANGED <<reassemblerVars, queue, answerVars, hostVars>>

\* Seeded fault: the loop of to_packets ends one packet early.
LastWritten(cut) == CutDone(CutNext(CutNext(cut)))

ResponseWritten(cut) == CutDone(CutNext(cut))

\* send_message writes a packet; hosts read it.
WritePacket ==
  /\ phase = "writing"
  /\ HostSide!HandlePacket(Parse(Serialize(CutPacket(response, current.cid))))
  /\ IF answers' = answers
     THEN UNCHANGED hostVars
     ELSE LET msg == Seqs!Last(answers'[current.cid])
          IN  Take([cid |-> current.cid, cmd |-> msg.cmd,
                    payload |-> msg.payload])
  /\ IF ResponseWritten(response)
     THEN phase' = "reading" /\ response' = NoCut /\ current' = NoMessage
     ELSE response' = CutNext(response) /\ UNCHANGED <<phase, current>>
  /\ UNCHANGED <<reassemblerVars, queue>>

\* A read, a prompt or a write fails: `?` ends run, wherever it is.
Fail ==
  /\ phase # "stopped"
  /\ phase' = "stopped"
  /\ UNCHANGED <<reassemblerVars, current, response, queue>>
  /\ UNCHANGED <<answerVars, hostVars>>

Loop == Skip \/ Receive \/ WritePacket

Next ==
  \/ KernelEvent
  \/ \E h \in Hosts :
       \/ \E m \in Requests \cup {InitRequest(h)} : Begin(h, m)
       \/ WriteReport(h)
       \/ GiveUp(h)
  \/ Loop
  \/ Answer
  \/ Fail

Spec == Init /\ [][Next]_vars

\* The loop runs whenever it can, the user answers a prompt that stays open, and
\* a host writes the packets of a message it has begun.
FairSpec ==
  /\ Spec
  /\ WF_vars(Loop)
  /\ WF_vars(Answer)
  /\ \A h \in Hosts : WF_vars(WriteReport(h))

-----------------------------------------------------------------------------
(***************************************************************************)
(* Properties.                                                             *)
(***************************************************************************)

\* Whether handle_message sends something back.
NeedsAnswer(m) ==
  \/ m.cmd = PingCommand
  \/ m.cmd = InitCommand /\ m.payload # <<>>
  \/ /\ m.cmd = CborCommand /\ m.payload # <<>>
     /\ Head(m.payload) \in {GetInfo, Selection}

\* Whether a host that sent m can take `answer` for it.
AnswerTo(m, answer) ==
  /\ NeedsAnswer(m)
  /\ answer.cmd = m.cmd
  /\ m.cmd = PingCommand => answer.payload = m.payload
  /\ m.cmd = InitCommand => /\ Len(answer.payload) = 2
                            /\ Head(answer.payload) = Head(m.payload)
  /\ m.cmd = CborCommand =>
       IF Head(m.payload) = GetInfo
       THEN answer.payload = <<OK>> \o Info
       ELSE answer.payload \in {<<OK>>, <<OperationDenied>>}

\* The device prompts for a message of channel c or is writing its answer, or
\* has stopped doing so.
BusyWith(c) == current # NoMessage /\ current.cid = c

\* The messages of channel c that something is sent back for, and which of them
\* the i-th message is.
Asking(c)  == {i \in DOMAIN delivered[c] : NeedsAnswer(delivered[c][i])}
Rank(c, i) == Cardinality({j \in Asking(c) : j <= i})

\* On every channel the hosts can put together exactly one answer to each
\* message handle_message did not ignore, in the order of the messages, whole,
\* and on the channel they came on; only the message being handled is still
\* without.  What is dropped or piles up behind a prompt, and what other
\* channels do, changes nothing of that.
AnswersInOrder ==
  \A c \in Cids :
    /\ Cardinality(Asking(c)) = Len(answers[c]) + (IF BusyWith(c) THEN 1 ELSE 0)
    /\ \A i \in Asking(c) :
         Rank(c, i) <= Len(answers[c]) =>
           AnswerTo(delivered[c][i], answers[c][Rank(c, i)])

\* No other host was given the channel of h.
Alone(h) ==
  \A o \in Hosts \ {h} : HasChannel(o) /\ HasChannel(h) => chan[o] # chan[h]

\* A host that is alone on its channel and waits for its answers gets those to
\* its own requests, one for one, even when the kernel drops packets: a request
\* that lost one is never answered with something else.
PatientPaired ==
  \A h \in Hosts \ gaveUp :
    Alone(h) =>
      \A k \in DOMAIN got[h] : AnswerTo(sent[h][got[h][k].to], got[h][k].answer)

\* A host that is alone and gives up on requests may take the late answer to
\* one for the answer to the next.  But while nothing of it is dropped, all it
\* takes are answers to its own requests, each once and in their order.
LateAnswersOwn ==
  \A h \in Hosts \ lost :
    Alone(h) =>
      \E origin \in [DOMAIN got[h] -> DOMAIN sent[h]] :
        /\ \A k \in DOMAIN got[h] :
             /\ origin[k] <= got[h][k].to
             /\ AnswerTo(sent[h][origin[k]], got[h][k].answer)
        /\ \A j, k \in DOMAIN got[h] : j < k => origin[j] < origin[k]

\* Hosts that share a channel, give up and lose packets can have their messages
\* joined, but what is handled still has the command and the length of a
\* message one of them sent on that channel.
SharedChannelDeclared ==
  \A c \in Cids : \A i \in DOMAIN delivered[c] :
    \E h \in Hosts : \E j \in DOMAIN sent[h] :
      /\ sent[h][j].cid = c
      /\ sent[h][j].cmd = delivered[c][i].cmd
      /\ Len(sent[h][j].payload) = Len(delivered[c][i].payload)

\* When the queue holds what the hosts have in flight, every host that waits for
\* an answer gets one, whoever else is at a prompt or in the middle of a
\* message, unless the device stops or another host was given its channel.
PatientAnswered ==
  \A h \in Hosts :
    (h \in waiting /\ NeedsAnswer(Seqs!Last(sent[h])))
      ~> (h \notin waiting \/ phase = "stopped" \/ ~Alone(h))

=============================================================================
