# Verification of the passkeys authenticator

TLA+ models of the virtual FIDO2 authenticator in this repository, TLC runs that
check them on small instances, and TLAPS proofs of what holds for every size.
`PROJECT.json` lists the runs, the seeded faults, the source lines behind every
definition, the hazards and the theorems.

## The system

One process plays a USB security key. Hosts (browsers) write HID reports, the
kernel queues them as events on `/dev/uhid`, and one thread takes them one by
one. There is no other thread: what makes the program hard is what happens
around that thread.

| part | source | state | operations |
|---|---|---|---|
| CTAPHID framing | `src/ctap_hid.rs` | none | `to_packets`, `serialize`, `parse` |
| reassembler | `src/ctap_hid.rs` | a table of incomplete messages, by channel | `handle_packet` |
| authenticator service | `src/authenticator.rs` | a record per credential, the backend | `register`, `has_matching_credential`, `assert` |
| backend trait | `src/backend/mod.rs` | | `create_credential`, `sign`, `delete_credential` |
| local backend | `src/backend/local_ed25519.rs` | a signing key per handle | the trait |
| FROST backend | `src/backend/frost.rs` | three shares and a public key per handle, preferred pair, availability | the trait, `set_participant_available`, `selected_signers` |
| device loop | `src/linux_uhid.rs` | the file, the reassembler, the service | `run`, `handle_message`, `confirm_user_presence`, `send_message` |
| CBOR codecs | `src/linux_uhid.rs` | none | request parsers, response builders |
| MPC traits | `src/mpc.rs` | none | nothing implements or calls them |
| examples, crate root | `examples/`, `src/lib.rs` | none | command lines, a template function |

`run` reads an event, `parse` makes a packet of it, `handle_packet` may return a
message, and `handle_message` handles it to its end before the next event is
read: it may ask the service, which asks its backend, it may wait for a line on
standard input, and it writes the response's packets. Any error that comes back
to `run` ends it, and the credentials, which live in memory, with it.

What is hard here:

- packets of several channels interleave; the kernel's queue is bounded and drops
  reports while a prompt blocks the loop; hosts stop in the middle of a message;
- the reassembler has no timeout, keeps an incomplete message when a
  single-packet message of the same channel arrives, and does unsigned
  arithmetic on lengths that hosts choose;
- the service and its backend each keep a map, and either call can fail;
- a credential is looked up before a prompt and used after it; lines can be typed
  before the prompt they will answer; a host that gave up is answered all the same;
- a host gets its channel from INIT, which draws an identifier and records nothing,
  so two hosts may share one; CANCEL is ignored, so a host that gave up is answered
  while it may already wait for something else;
- a closed standard input makes a prompt repeat for ever;
- the fields of a request come in any order, ill-typed or twice, and a registration
  is read in three separate passes;
- key generation routes six packages among three participants through nested
  maps, signing joins nonces, commitments and shares by participant, and
  availability changes between calls.

What makes each part correct: the framing delivers exactly the messages that
arrived whole; the service never loses or confuses a registration and never
signs for the wrong party; a backend is a map from fresh handles to keys; any two
available FROST participants sign; the decoders find what a request says, whatever
its order; each request gets at most its own answer, on its own channel, and
nothing is registered or claimed without the user's yes to that very request.

## Modules

| module | what it models |
|---|---|
| `HashMap` | Rust's `HashMap` as a function: `EmptyMap`, `Put`, `Remove` |
| `CtapHid` | packets; `to_packets` as the state of its loop (`StartCut`, `CutPacket`, `CutNext`); `Serialize`, `Parse` |
| `Reassembler` | the table `channels` and one action per branch of `handle_packet`; `delivered` holds what it returned |
| `HidLink` | hosts, the lossy link and the reassembler together |
| `AtomicLink` | the abstract link: a message is delivered whole, in one step, or not at all |
| `CredentialBackend` | the abstract backend: what the trait promises |
| `Authenticator` | `AuthenticatorService` over any backend that keeps that promise |
| `LocalBackend` | `LocalEd25519Backend` |
| `FrostDkg` | the ceremonies of `FrostBackend`: `generate_credential` and `sign_with` |
| `FrostBackend` | the backend around them: signers, availability, the trait's operations |
| `Uhid` | the device loop, dispatch, prompts and errors, over an instance of `Authenticator` |
| `Consent` | the abstract prompt: one grant for each yes, about the request that was asked |
| `Device` | hosts, the kernel's queue, the loop with its reassembler, prompts and `send_message`, and the hosts' reassembly, in one composition |
| `CtapRequests` | the CBOR decoders and the classification of messages, as operators |
| `RequestDecoding` | a request put together entry by entry, and what its fields mean |
| `MC*` | values of the constants for TLC |
| `*_proofs` | theorems and their proofs |

`HidLink` EXTENDS `Reassembler`, which EXTENDS `CtapHid` and `HashMap`.
`Authenticator` EXTENDS `CredentialBackend` and calls its actions inside its own.
`LocalBackend` and `FrostBackend` INSTANCE it as the specification they
implement, so `Authenticator` composed with either is covered by what holds of
`Authenticator`. `Uhid` INSTANCEs `Authenticator` over its own variables, and
`Consent` as what it implements. `Device` EXTENDS `Reassembler` for the device's
side and INSTANCEs it again for the hosts'. `RequestDecoding` EXTENDS
`CtapRequests`; `MCUhid` INSTANCEs it, so that the requests of the `Uhid` runs are
what the decoders make of messages.

Definitions whose comment begins with "Seeded fault" are not part of a model.
Each is a definition next to it with one mistake; substituting it must make a run
fail, which shows that the run's property depends on the code being right.

### How the models read the code

*Framing.* The sizes are parameters. A report is a flag byte and `ContData`
bytes; an initialization packet spends two of those on the length, so
`ContData = InitData + 2`; bit 7 is the upper half of `2 * SeqLimit` byte values.
The code has `SeqLimit = 128`, `InitData = 57`. `seq`, `next_seq` and the length
are taken modulo their width. Debug builds panic where release builds wrap;
`ReassemblyBounded` and `EchoFits` show that the receive path and the device's
echoes never get there. `parse` is given 65 bytes of the kernel's event in every
case (an event is far longer, and `run` slices it), so its branches for shorter
reports are dead and left out.

*Link.* A host sends the packets of a message in order, any packet of a kind in
`Losable` may be lost, and a host may `Abandon` a message. `begun` and `whole`
are history variables: the messages begun, and those whose every packet arrived.

*Service and backends.* `register` and `assert` take `&mut self`: each is one
step, with its backend call inside. A credential id is the handle's bytes. Keys
and signatures are symbolic: a signature names the key and the message it
verifies for. Every call may fail with a backend error. `registered` and
`asserted` are histories of what was returned.

*FROST.* The frost library is modelled by the arithmetic of the scheme modulo a
small prime: a round-one secret is a polynomial of degree one, a package is its
value at the receiver, and signing interpolates at zero. So a package filed under
the wrong participant, a share given to the wrong one or a wrong pair makes
`part3` or the final verification fail, as in the library. A signature is the sum of
two shares made of nonces, binding factors, Lagrange coefficients and the
challenge; commitments are nonces in the exponent. What is drawn and what hashes
come out as are quantified over: `QuorumSigns` holds for every choice in the
instance.

*Device.* A request is a whole message classified by how `handle_message` treats
it, with the outcome of each decoder as a field. A prompt is the phase
`prompting`; `typed` are the lines not read yet. `Respond` either appends to
`responses` or fails, which stops the loop, as `?` does everywhere in the code.
`stdin` may close at any time; what was typed is still read, and then `read_line`
returns an empty line at once (`NextLine`).

*Consent.* `asked` is the request at the prompt, `yeses` the typed answers not read
yet, `granted` the approved requests. A grant takes one yes, and creates one
credential, adds one assertion that claims presence, or neither. Every other step
of `Uhid` must leave credentials and claims as they are.

*Requests.* A CBOR value is a record that names its type; a map is the sequence of
its entries, because the code walks them in order and keys may repeat. The three
passes of a registration (`RpId`, `UserId`, `Algorithms`) and the one of an
assertion (`Assertion`) are translated branch by branch: which entry counts when
one comes twice differs between them (the first `rp`, but the last `rpId`).
`RequestDecoding` states the meaning without any order: the value under a key.

*The whole path.* `Device` composes what `HidLink` and `Uhid` look at apart. A host
asks for a channel with its nonce, then sends requests packet by packet; the
kernel queues `QueueSize` events and drops what does not fit; the loop reads one
event, gives its packet to the reassembler and handles a message to its end, in the
phase `prompting` while the user is asked and `writing` while the response goes out
packet by packet; any error stops it. All hosts see what is written; each
reassembles it and takes a message on its channel that has the command of its
request, and for INIT its nonce. An impatient host gives up at any time, sends
CANCEL and goes on. Commands that behave alike on this path are one.

## Runs

| run | properties | bounds |
|---|---|---|
| `HidLink_exact` | `ExactDelivery`, `ImplementsAtomicLink` | 2 channels, 2 messages each out of 5, continuation packets lost |
| `HidLink_lossy` | `TypeOK`, `ReassemblyBounded`, `EchoFits`, `DeclaredLength` | 1 channel, 4 messages out of 7, two of them above the limit and one of these long enough to wrap `seq`, any packet lost |
| `HidLink_limit` | `SequenceInRange`, expected to be violated | 1 message out of the same 7 |
| `Authenticator_service` | `TypeOK`, `RegistrationsUsable`, `AssertionsVerify`, `CountersSequential` | 3 relying parties, 2 handles, 2 keys, allow lists up to 2, counter up to 2, 4 assertions |
| `Local_backend` | `ImplementsCredentialBackend` | 3 handles, 2 keys, 2 payloads |
| `Frost_backend` | `CeremonyAgrees`, `QuorumSelects`, `QuorumSigns`, `ImplementsCredentialBackend` | modulo 5, 2 handles, every preferred pair, 2 polynomials, 2 nonce pairs, 2 hashings |
| `Uhid_device` | `TypeOK`, `OneAnswerEach`, `RegistrationsConsented`, `PresenceProven`, `ProbeRetainsNothing`, `MatchOutlivesPrompt`, `ImplementsConsent` | 3 requests out of 14, 2 lines typed ahead |
| `Uhid_live` | `EveryRequestSettled` | 3 requests out of 4, 2 lines typed ahead |
| `Device_patient` | `TypeOK`, `AnswersInOrder`, `PatientPaired` | 2 hosts, 3 channel identifiers, 2 and 1 requests out of 5 after INIT, a queue of 2 |
| `Device_crowded` | `PatientPaired`, `LateAnswersOwn`, `SharedChannelDeclared` | 2 hosts, one of them impatient, 2 channel identifiers, 2 and 1 requests out of 2 echoes, a queue of 2 |
| `Device_live` | `PatientAnswered` | 2 hosts, 3 channel identifiers, 1 request each out of 3 after INIT, a queue of 5 |
| `Request_decoding` | `MakeDecodesFields`, `RegistrationNotRedirected`, `GetDecodesFields`, `PresenceWaivedExplicitly` | every request of up to 4 entries out of 27 |

What they show:

- *Framing.* `HidLink_exact`: a channel gets exactly what arrived whole.
  `HidLink_lossy`: what still holds when any packet may be lost.
- *Service and backends.* Registrations stay usable, assertions verify, counters
  count, and both backends are the map from fresh handles to keys that the service
  relies on; any two available FROST participants sign.
- *Loop.* `OneAnswerEach`, `RegistrationsConsented`, `PresenceProven` and
  `ProbeRetainsNothing` tie responses, credentials and claims to requests and to the
  user's answers, in what has happened so far; `ImplementsConsent` ties them step by
  step, with errors and a closed standard input. `MatchOutlivesPrompt`: nothing
  that happens at a prompt takes the credential away. `EveryRequestSettled`: only a
  prompt with a closed input, or an error, holds requests up for ever.
- *Whole path.* `AnswersInOrder`: on each channel, what hosts can put together from
  the packets are the answers to the messages that were handled, one each, whole and
  in order. `PatientPaired`: a host alone on its channel that waits is never given
  an answer to something else, also when the queue dropped parts of its requests.
  `LateAnswersOwn` is as much as a host that gives up may rely on: it can take a late
  answer to one request for the answer to the next, but only its own, each once and
  in order. `SharedChannelDeclared`: hosts that were given the same channel can have
  their packets joined, but never past a length and a command one of them sent.
  `PatientAnswered`: no host starves.
- *Decoders.* With distinct keys the decoders find the fields whatever the order and
  whatever is wrong with the others: rp, user and algorithms of a registration
  (`MakeDecodesFields`), rp, hash and allow list of an assertion
  (`GetDecodesFields`). `PresenceWaivedExplicitly` is about `up`, with distinct keys
  or not: an assertion leaves the user out exactly where the last boolean `up`, over
  all its maps of options and in each map's own order, is false.
  `RegistrationNotRedirected`: whatever has decided the rp, the user or the
  algorithms of a registration, usable or not, is not replaced by a later entry. The
  three passes differ in what decides: an rp that is a map without an id is passed
  over, a user or a list is final whatever it is.

Why the bounds are enough. With `SeqLimit = 2` and `InitData = 1` a message has
one, two or three packets and the lengths around each boundary occur, so every
branch of `handle_packet` is taken; a splice needs two messages on a channel and
interference needs two channels. Four messages on one channel let a splice
happen twice. The sizes of the code, 57, 59 and 128, are instances of the theorems.
The service's counter saturates at 2 and four assertions go past it. A prime
above 3 is the least in which three participants are distinct; the theorems cover
every other prime. Three requests
allow a registration, an assertion for it and a request in front of, between or
behind them, and two typed lines allow one answer to arrive before its prompt.
In `Device` a request or an answer has one or two packets, so a queue of two events
overflows both between messages and inside one, and a queue of five holds all that
two hosts can have in flight, two packets each and an event of the kernel. Three
identifiers let two hosts have different channels, the same one, or the broadcast
channel; two leave them one besides it. One request after another is what a late
answer needs. Four entries of a request are a field, its repetition and two others.
Symmetry is used for handles, keys and relying parties in the service's run, which
has no temporal property. The runs whose hosts have a bounded number of messages,
and `Request_decoding`, do not check deadlock: the model stops there.

`ExactDelivery` needs a link that loses no initialization packet. If it may, the
packets of a later message can be taken for the rest of an older one;
nothing in the frame format lets the reassembler see it. `HidLink_lossy` and
`Device_crowded` check what still holds then. `DeclaredLength` is about hosts that
keep to the length limit: past it a continuation packet is read as an
initialization packet with any length.

`HidLink_limit` shows a disagreement: `to_packets` numbers packets past the 0x7f
that the comment on `CtapHidContPacket::seq` gives as the limit when a payload is
longer than 57 + 128 * 59 bytes. `EchoFits` shows that no message the reassembler
delivers is that long, and every other response of the device is shorter.

*Fairness.* `Uhid_live` assumes weak fairness of the loop: it is one thread that
nothing else blocks. It assumes strong fairness of the user typing y or n while a
prompt is open: someone who is asked over and over answers at some point, or
closes standard input. `Device_live` assumes weak fairness of the loop, of the user
answering a prompt that stays open, and of each host writing the packets of a
message it has begun; nobody has to begin one, and the kernel has to do nothing.

## Proofs

All theorems hold for every value of the constants under the assumptions named in
the modules: `FramingAssumption` and `HostAssumption` for framing and link;
`RpAssumption`, `CountAssumption` and `PayloadAssumption` for the service and the
backends; `PrimeAssumption` (the group order is a prime above 3) and
`DrawAssumption` (what is drawn has the right type, and something can be drawn)
for FROST; `RequestAssumption` and `ServiceAssumption` for `Uhid`, which is proved
over `CredentialBackend`, the contract that both backends are shown to implement;
`DeviceAssumption` for `Device`: the four commands differ and have bit 7 set, what
GET_INFO returns fits the sequence numbers, and the INIT a host sends on a channel it
already has is short of its nonce; `DecodingAssumption` for the decoders: maps and arrays are finite
sequences and a boolean is true or false. `DeclaredOnChannel`, `AloneAndPatient` and
`AloneAndImpatient` also assume that no host sends more than fits the sequence
numbers (`RequestsFit`), which is what keeps a later packet of a request from being
read as the first packet of another.

`Reassembler_proofs`: `parse` undoes `serialize` for initialization packets
(`InitRoundTrip`) and for continuation packets numbered below the limit
(`ContRoundTrip`), and above it it reads an initialization packet (`ContOverrun`).
Its lemmas on one call of `handle_packet` and one packet of `to_packets` serve
both compositions: `HandlePacketBounded` and `HandlePacketDeclared`, whatever packet
comes; `HandlePacketReturns`, what is left when a message is returned; `HandledFirst`,
`HandledIntact` and `HandledBroken`, how the table follows a cut whose packets it is
given.

`HidLink_proofs`:

- `TypeCorrect`, `ReassemblyAlwaysBounded`, `EchoAlwaysFits` for every link and
  every message. None is inductive alone. `IInv` joins them with `CutInv`:
  a cut whose first packet is still to come has offset and `seq` zero, so every
  packet a host sends is one `parse` can return. The bound on an entry, applied
  at its last packet, gives `EchoFits`.
- `DeliveryAlwaysExact`, when initialization packets are not lost and messages
  are at most `MaxPayload` long. `DeliveryInv` adds `Tracked`: while a host has
  sent part of a message and nothing of it was lost, the table holds exactly that
  part; once something was lost, an entry that is left expects a number that is
  never equal to the ones still to come. So a broken message cannot complete and
  an intact one completes at its last packet. The first packet of a message
  replaces any stale entry, which is why a single-packet message may leave one.

- `LengthsAlwaysDeclared`: as long as a channel keeps the limit, what its handler
  returns has the command and the length of a message it sent. `DeclaredInv` says
  the same of every entry of the table, and that a cut still in progress stands at
  `InitData + seq * ContData`, so that each initialization packet a host sends,
  also one `parse` makes of an overrun, is one a message began with.
- `LinkImplementsAtomic`: the link implements `AtomicLink`, when initialization
  packets are not lost and messages are at most `MaxPayload` long. The message of
  `AtomicLink` in flight is the one of the cut, unless it was broken; the packet
  that completes it is the abstract delivery, every other a stutter.

`Authenticator_proofs`: `TypeCorrect`, `RegistrationsStayUsable`,
`AssertionsAlwaysVerify`, `CountersAlwaysSequential`. The invariant adds that a
record's handle is its own credential id, that every record was registered, and
that a record's counter is the number of assertions made with it, clamped. The
last needs that the count of a credential in a log grows by one exactly when an
assertion of it is appended. The closing section lifts the invariant from the
service's own steps to one call of it (`RegisterKeeps`, `AssertionKeeps`,
`FailureKeeps`), which is how `Uhid` uses it.

`Uhid_proofs`, about the device loop with the service it owns:

- `TypeCorrect`, `OneAnswerEachAlways`, `RegistrationsAlwaysConsented`,
  `PresenceAlwaysProven`, `ProbeNeverRetains`, `MatchAlwaysOutlivesPrompt`, for
  every set of requests, of relying parties and of prompts' answers.
- `ServiceAlwaysKept`: what `Authenticator_proofs` says of the service alone holds
  of the service under the loop, whose prompts come between its calls.
- `LoopImplementsConsent`: the loop implements `Consent`. Typing "y" is the
  abstract yes, prompting the abstract question, the handlers that register or
  assert are the grants; a refusal or a prompt that fails drops the question.

`UInv` is inductive. Beside the properties it holds the service's invariant, that
an open prompt is about the request taken last, which the user has not agreed to
yet (`Prompting`); that every answer is to a request that was taken (`Addressed`);
and that what answers report was registered (`Reported`), so that no earlier answer
reports a credential being created now. Two
dozen handlers change the same variables in few ways, so each step is
first shown to have one of eight effects (`Waits`, `Skips`, `Asks`, `Breaks`,
`Declines`, `AgreesInVain`, `Creates`, `Asserts`) and each part of the
invariant is proved of the effects. The properties that count answers rest on
lemmas on the number of yeses of a log that grows by one.

`LocalBackend_proofs`: `LocalImplements`, that the local backend implements
`CredentialBackend`. Its state is the abstract one, so each operation is an
abstract one that succeeds or fails; a sign changes nothing because `keys` is a
function.

`FrostBackend_proofs` begins with the ceremonies, for every prime order, every draw
and every hash: `CeremonyAlwaysSucceeds`, because each participant is handed just the two packages
meant for it (`PackagesRouted`) and all three add up the same group key; and
`AnyTwoSign`. Everything there is computed modulo P, so the proof follows sums and
products by congruence: a signing share is the value of the sum of the three
polynomials, two values interpolate to the secret, and the sum of two signature
shares is what `Verifies` compares. The differences of participants, 1, 2 and
their negations, have inverses because P is odd.

About the backend around them it has `FrostImplements`, the refinement of
`CredentialBackend`; `CeremonyAlwaysAgrees`; `QuorumAlwaysSelects`, from the invariant `SignersOK` that
the preferred pair is a pair, so that the candidates cover all three pairs; and
`QuorumAlwaysSigns`, from the invariant `SharesOK` that every stored credential is
the outcome of one ceremony, to which `AnyTwoSign` applies.

`Device_proofs`, about the whole path, for any number of hosts, any requests and any
size of the queue:

- `TypeCorrect`, with the fact that the loop never reads on while the hosts have only
  part of a response, and `BothSidesBounded`. `DInv` is inductive: `DeviceInv` are the
  bounds of the device's reassembler, `HostInv` says that every queued event is a
  packet some host cut, and `ResponseInv` that while a response goes out
  (`Writing`) the hosts' table has exactly the part that was written. The hosts'
  reassembler is the same module with other variables, so the lemmas are taken a
  second time, by INSTANCE (`Side`); `SameHandling` and its neighbours say that the
  two copies are one.
- `DeclaredOnChannel`: `DeclaredInv` says that what an initialization packet in the
  queue, an entry of the table or a returned message declares was sent on its
  channel by somebody.
- `AnsweredInOrder`: `OrderInv` adds to the property that the answer being decided or
  written is one to the message of its channel that has none yet (`Pending`).
  `MessageAnswered` goes through the branches of `handle_message`,
  `WritePacketFacts` says that the last packet of a response, and no other, makes
  it an answer. Answers are matched by `Rank`, how many messages up to this one
  something is sent back for, because counting can be reasoned about where
  filtering a sequence cannot.
- `AloneAndPatient`: a host alone on its channel that never gave up is given only
  answers to the requests it takes them for, whatever the queue drops and whatever
  the other hosts do. Two invariants carry it. `ChannelInv` says how a host comes by
  its channel: its one INIT is in one place, the queue or the response being written
  (`AskingInv`), every other queued packet and every entry of the table belongs to a
  channel some host was given (`OwnedInv`), and a host's last request is on its own
  channel (`SentInv`); so a host that is given a channel nobody else has starts with
  nothing queued or half assembled there. `PairedInv` says that from then on its last
  request is in one `Stage`: either nothing of the channel is on its way to
  `handle_message`, and what is being answered there, if anything, is this request;
  or it is `Underway`, with some of its packets in the queue in their order, and the
  table holding a beginning of it that ends before the next one. A dropped packet
  leaves a gap that no later number fills, so the table never completes with
  anything but the whole request. The handlers touch a channel in few ways, and
  each step is first reduced to one (`Begins`, `Written`, `Received`, `Heard`);
  a host none of them is about keeps its stage (`Elsewhere`).
- `AloneAndImpatient`: a host alone on its channel, of which nothing was dropped,
  takes only answers to its own requests, each once and in their order, however often
  it gives up. A host that gives up begins before what it began is handled, so `Stage`,
  which is about one request, says nothing of it. `TrailInv` follows all of them. What
  a host has on its way is a line of items (`Items`): the entry of the table, the
  packets in the queue, the packet it writes next. The `Trail` names of each item the
  message it is of and its place there; along the line messages do not go back, places
  go up within a message, and every packet but a first one has the one before it right
  there (`Ordered`): nothing is missing, because nothing was dropped. So the packet at
  the head of the queue begins a message, or what is in the table is all that comes
  before it (`OwnArrives`), and the reassembler completes messages of the host, whole
  and one after another. `Origins` says which message each answer taken so far was to,
  all of them up to the last one completed, and that what is being answered, if
  anything, is that one. A step moves the items up the line, adds one at its end or
  removes one at its head; `OrderedMoves`, `OrderedBegins` and `OrderedGoesOn` say
  that the line stays in order.

`RequestDecoding_proofs`, about the decoders of both requests, for any entries, well
typed or not, and any number of them:

- `RegistrationRead`: where no key comes twice, the three passes find what the request
  says. Each search is shown to return the element at the first position that passes
  (`FirstAtFound`, over `FirstPosition`, which takes the least of a set of positions
  from the library's well-founded orders); where keys are distinct there is only one
  such position (`NamedOnce`, `FieldOnce`, `AlgorithmOnce`).
- `NotRedirected`: where they are not, the first position stays the first when an
  entry is added (`FirstStays`), and what decides is found (`NamedIsFound`,
  `DecidedIsFound`).
- `AssertionDecoded`, where no key comes twice, and `PresenceKept`, where any may: the
  pass of an assertion, its options and its allow list are three folds over sequences
  of any length. That a fold is the end of a run, which starts with the base and takes
  one element after another, is proved from the definition the community modules give
  it: there is a run (`RunExists`), so the recursive function `FoldLeft` chooses exists
  (`FoldExists`), and its values on the prefixes are a run (`FoldRuns`). The induction
  theorems of the library take an operator, which the provers cannot instantiate;
  `Reach` is induction for a set of numbers, from the least one outside of it. Along
  the run, a part that one entry sets at most ends with what that entry says
  (`SetOnce`, `PartRead`); the identifiers read so far are those of the descriptors
  read so far, at increasing positions (`Named`). `up` is a switch that is in the end
  what the last position to set it says (`LastWord`), used twice: for the options of
  a map (`OptionsUp`) and for the entries of the request (`EntryUp`).

Only model-checked: liveness (`EveryRequestSettled`, `PatientAnswered`), which with
ENABLED is out of its reach.

## Not modelled

- The byte encodings of GetInfo, attestation, assertion and U2F responses:
  formatting. How ciborium reads bytes into a value: a payload is a value or
  malformed.
- Device creation and the report descriptor: one write of constants at start.
- The inside of the frost library and of Ed25519. Calls of `FrostBackend` with
  participants outside 1 to 3: they return an error and change nothing.
- Events shorter than four bytes and reports `parse` refuses: the kernel's events
  are longer, and `run` slices every report to 65 bytes.
- A panic on integer overflow in debug builds.
- The 8 bytes of the nonce and 4 of an identifier are one byte each in `Device`.
- `mpc.rs`, `lib.rs` and the examples: no behaviour of their own.

## Plan

Built so far, in this order: framing and reassembler with the link; the abstract
backend and the service; both backends; the device loop; the proofs about link,
service and backends; the composition of hosts, queue and device; what the prompts promise;
the decoders; signing in its two rounds; the proofs about the link's lengths, its
refinement of `AtomicLink`, the device loop, and the types, the order of answers and
the declared lengths of `Device`; the proofs about the decoders of both requests; the
proofs that a host alone on its channel is given its own answers, when it waits for
them and when it gives up. Every invariant and action property of the passing runs is
stated by a theorem.
