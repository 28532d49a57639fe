-------------------------------- MODULE Uhid --------------------------------
(***************************************************************************)
(* UhidAuthenticator of src/linux_uhid.rs: the loop of run, which takes    *)
(* one message after another from the reassembler and handles each to its  *)
(* end, and the prompts on standard input that block it.                   *)
(*                                                                         *)
(* A request stands for a whole message as handle_message sees it.  A      *)
(* message that was lost on the way (see HidLink), or that the kernel's    *)
(* queue had no room for while a prompt blocked the loop, is one that is   *)
(* never sent here (Device has both).  Lines are typed whenever the user   *)
(* likes, before a prompt or after, until standard input is closed; from   *)
(* then on read_line returns an empty line at once.  The credentials live  *)
(* in this process: once run has returned an error they are gone, and      *)
(* nothing starts it again.                                                *)
(***************************************************************************)
EXTENDS Naturals, Sequences, FiniteSets, HashMap

CONSTANTS
  Rps, EmptyRp, Handles, Keys, Payloads, Hashes, MaxCount, MaxAllowed,
  MaxAssertions,  \* as in Authenticator
  FirefoxRp,      \* FIREFOX_SELECTION_RP_ID
  NoRp,           \* stands for a required parameter that is absent
  Requests,       \* the messages hosts send
  MaxRequests,    \* how many of them are sent (bounds the model)
  MaxTyped        \* how many lines are typed ahead (bounds the model)

VARIABLES
  keys, reply, credentials, registered, asserted,   \* as in Authenticator
  requests,    \* the messages sent, in the order they are handled
  taken,       \* how many of them handle_message has begun
  phase,       \* what the loop does: reading, prompting or stopped
  typed,       \* the lines on standard input that are not read yet
  stdin,       \* whether more lines may come: open or closed
  responses,   \* history: the messages sent back
  approved     \* history: the requests whose prompt was answered with yes

Service == INSTANCE Authenticator

serviceVars == <<keys, reply, credentials, registered, asserted>>
deviceVars  == <<requests, taken, phase, typed, stdin, responses, approved>>
vars == <<keys, reply, credentials, registered, asserted,
          requests, taken, phase, typed, stdin, responses, approved>>

(***************************************************************************)
(* Requests, by how handle_message treats them.                            *)
(***************************************************************************)

\* PING, an INIT with a nonce, WINK, GET_INFO, and the U2F commands other than
\* a registration that asks for presence.
Immediate == [kind : {"ping", "init", "wink", "getInfo", "u2f"}]

\* An INIT without a nonce, a CBOR message with no command, CLIENT_PIN, an
\* unknown CTAP2 command, and every other CTAPHID command, CANCEL included.
Silent == [kind : {"shortInit", "emptyCbor", "clientPin", "unknown", "cancel"}]

Selection == [kind : {"selection"}]

U2fRegister == [kind : {"u2fRegister"}]

\* wellformed: the payload is CBOR.  user and eddsa: there is a user.id, and
\* EdDSA is among the algorithms.
MakeCredential == [kind : {"makeCredential"}, wellformed : BOOLEAN,
                   rp : Rps \cup {NoRp}, user : BOOLEAN, eddsa : BOOLEAN]

GetAssertion == [kind : {"getAssertion"}, wellformed : BOOLEAN,
                 rp : Rps \cup {NoRp}, hash : Hashes,
                 allow : Service!AllowLists, up : BOOLEAN]

Request == Immediate \cup Silent \cup Selection \cup U2fRegister
             \cup MakeCredential \cup GetAssertion

\* As Authenticator assumes.
ASSUME ServiceAssumption ==
  /\ EmptyRp \in Rps
  /\ MaxCount \in Nat \ {0} /\ MaxAllowed \in Nat /\ MaxAssertions \in Nat
  /\ Service!SignedData \subseteq Payloads

ASSUME RequestAssumption ==
  /\ Requests \subseteq Request
  /\ FirefoxRp \in Rps /\ NoRp \notin Rps
  /\ MaxRequests \in Nat /\ MaxTyped \in Nat

Statuses == {"OK", "MissingParameter", "UnsupportedAlgorithm", "NoCredentials",
             "OperationDenied", "PinNotSet"}

Response == [to : Nat, status : Statuses, credential : SUBSET Handles]

TypeOK ==
  /\ Service!TypeOK
  /\ requests \in Seq(Request)
  /\ taken \in 0 .. Len(requests)
  /\ phase \in {"reading", "prompting", "stopped"}
  /\ typed \in Seq({"y", "n", "?"})
  /\ stdin \in {"open", "closed"}
  /\ responses \in Seq(Response)
  /\ approved \subseteq 1 .. taken

Init ==
  /\ Service!Init
  /\ requests = <<>> /\ taken = 0 /\ phase = "reading"
  /\ typed = <<>> /\ stdin = "open" /\ responses = <<>> /\ approved = {}

-----------------------------------------------------------------------------
(***************************************************************************)
(* The hosts and the user.                                                 *)
(***************************************************************************)

Send(r) ==
  /\ Len(requests) < MaxRequests
  /\ requests' = Append(requests, r)
  /\ UNCHANGED <<serviceVars, taken, phase, typed, stdin, responses, approved>>

Type(line) ==
  /\ stdin = "open"
  /\ Len(typed) < MaxTyped
  /\ typed' = Append(typed, line)
  /\ UNCHANGED <<serviceVars, requests, taken, phase, stdin, responses, approved>>

\* The other end of standard input is closed; what was typed is still read.
CloseInput ==
  /\ stdin = "open"
  /\ stdin' = "closed"
  /\ UNCHANGED <<serviceVars, requests, taken, phase, typed, responses, approved>>

-----------------------------------------------------------------------------
(***************************************************************************)
(* How handling a request ends.                                            *)
(***************************************************************************)

\* send_message for the request that was taken last, or the error of its
\* write, which ends run.
Respond(status, ids) ==
  \/ /\ responses' = Append(responses, [to |-> taken', status |-> status,
                                        credential |-> ids])
     /\ phase' = "reading"
  \/ phase' = "stopped" /\ UNCHANGED responses

\* handle_message returned an error, or read did: `?` leaves the loop.
Stop == phase' = "stopped" /\ UNCHANGED responses

\* The next message is taken from the queue.
Take(r) ==
  /\ phase = "reading"
  /\ r = requests[taken + 1]
  /\ taken' = taken + 1
  /\ UNCHANGED <<requests, typed, stdin, approved>>

-----------------------------------------------------------------------------
(***************************************************************************)
(* What is decided before a prompt, in the order of the code.              *)
(***************************************************************************)

IsMake(r)   == r \in MakeCredential
IsAssert(r) == r \in GetAssertion

\* Seeded fault: the synthetic relying party is not recognised.
NoFirefoxProbe(r) == FALSE

IsFirefoxProbe(r) == IsMake(r) /\ r.rp = FirefoxRp

Decodes(r) == (IsMake(r) \/ IsAssert(r)) => r.wellformed

HasParameters(r) ==
  /\ IsMake(r) => r.rp # NoRp /\ r.user
  /\ IsAssert(r) => r.rp # NoRp

\* The probe is recognised before the algorithms are looked at.
OffersEdDsa(r) == (IsMake(r) /\ ~IsFirefoxProbe(r)) => r.eddsa

\* Seeded fault: has_matching_credential is not asked.
MatchesUnchecked(r) == TRUE

Matches(r) == IsAssert(r) => Service!HasMatchingCredential(r.rp, r.allow)

Acceptable(r) == Decodes(r) /\ HasParameters(r) /\ OffersEdDsa(r) /\ Matches(r)

\* Seeded fault: an assertion never waits for the user.
PromptsForRegistration(r) == IsMake(r) \/ r \in Selection \cup U2fRegister

\* An assertion with `up: false` is made without asking.
Prompts(r) ==
  \/ IsMake(r)
  \/ r \in Selection \cup U2fRegister
  \/ IsAssert(r) /\ r.up

Ignore(r) ==
  /\ Take(r)
  /\ r \in Silent
  /\ UNCHANGED <<serviceVars, phase, responses>>

AnswerAtOnce(r) ==
  /\ Take(r)
  /\ r \in Immediate
  /\ Respond("OK", {})
  /\ UNCHANGED serviceVars

\* ciborium cannot read the payload.
Malformed(r) ==
  /\ Take(r)
  /\ ~Decodes(r)
  /\ Stop
  /\ UNCHANGED serviceVars

MissingParameter(r) ==
  /\ Take(r)
  /\ Decodes(r) /\ ~HasParameters(r)
  /\ Respond("MissingParameter", {})
  /\ UNCHANGED serviceVars

UnsupportedAlgorithm(r) ==
  /\ Take(r)
  /\ Decodes(r) /\ HasParameters(r) /\ ~OffersEdDsa(r)
  /\ Respond("UnsupportedAlgorithm", {})
  /\ UNCHANGED serviceVars

NoCredentials(r) ==
  /\ Take(r)
  /\ Decodes(r) /\ HasParameters(r) /\ ~Matches(r)
  /\ Respond("NoCredentials", {})
  /\ UNCHANGED serviceVars

\* confirm_user_presence is called: the loop waits for a line.
Prompt(r) ==
  /\ Take(r)
  /\ Prompts(r) /\ Acceptable(r)
  /\ phase' = "prompting"
  /\ UNCHANGED <<serviceVars, responses>>

\* register, and its response or its error.
MakeCredentialFor(r) ==
  \/ Service!Register(r.rp) /\ Respond("OK", {reply'.handle})
  \/ Service!RegisterFails(r.rp) /\ Stop

\* assert, and its response or its error.
AssertFor(r) ==
  \/ /\ Service!MakeAssertion(r.rp, r.hash, r.allow, r.up)
     /\ Respond("OK", {asserted'[Len(asserted')].credential_id})
  \/ Service!AssertionFails(r.rp, r.hash, r.allow, r.up) /\ Stop

AssertWithoutPresence(r) ==
  /\ Take(r)
  /\ IsAssert(r) /\ ~Prompts(r) /\ Acceptable(r)
  /\ AssertFor(r)

-----------------------------------------------------------------------------
(***************************************************************************)
(* confirm_user_presence reads a line, and the request is handled to its   *)
(* end.                                                                    *)
(***************************************************************************)

Asked == requests[taken]

\* Seeded fault: an empty line is taken for the default answer, yes.
NextLineDefaultYes ==
  IF typed # <<>> THEN <<Head(typed), Tail(typed)>> ELSE <<"y", <<>>>>

\* The line read_line returns, and the lines that are left.  A closed input
\* that has been read to its end returns an empty line.
NextLine == IF typed # <<>> THEN <<Head(typed), Tail(typed)>> ELSE <<"", <<>>>>

ReadLine(line) ==
  /\ phase = "prompting"
  /\ typed # <<>> \/ stdin = "closed"
  /\ line = NextLine[1]
  /\ typed' = NextLine[2]
  /\ UNCHANGED <<requests, taken, stdin>>

\* Seeded fault: a line that is no answer is left where it is.
AskAgainSameLine ==
  /\ phase = "prompting"
  /\ typed # <<>>
  /\ Head(typed) = "?"
  /\ UNCHANGED vars

\* Neither y nor n: the prompt is printed again.
AskAgain ==
  /\ ReadLine("?") \/ ReadLine("")
  /\ UNCHANGED <<serviceVars, phase, responses, approved>>

\* Seeded fault: the host is not told.
DenySilently ==
  /\ ReadLine("n")
  /\ phase' = "reading"
  /\ UNCHANGED <<serviceVars, responses, approved>>

\* Seeded fault: the credential was made before the user is asked.
DenyTooLate ==
  /\ ReadLine("n")
  /\ Respond("OperationDenied", {})
  /\ IF IsMake(Asked) THEN Service!Register(Asked.rp) ELSE UNCHANGED serviceVars
  /\ UNCHANGED approved

Deny ==
  /\ ReadLine("n")
  /\ Respond("OperationDenied", {})
  /\ UNCHANGED <<serviceVars, approved>>

\* The answer is yes.
Approve ==
  /\ ReadLine("y")
  /\ approved' = approved \cup {taken}

ApproveSelection ==
  /\ Approve
  /\ Asked \in Selection \cup U2fRegister
  /\ Respond("OK", {})
  /\ UNCHANGED serviceVars

ApproveFirefoxProbe ==
  /\ Approve
  /\ IsFirefoxProbe(Asked)
  /\ Respond("PinNotSet", {})
  /\ UNCHANGED serviceVars

ApproveRegistration ==
  /\ Approve
  /\ IsMake(Asked) /\ ~IsFirefoxProbe(Asked)
  /\ MakeCredentialFor(Asked)

ApproveAssertion ==
  /\ Approve
  /\ IsAssert(Asked)
  /\ AssertFor(Asked)

\* The prompt cannot be written, or the line is not text.
PromptFails ==
  /\ phase = "prompting"
  /\ Stop
  /\ UNCHANGED <<serviceVars, requests, taken, typed, stdin, approved>>

\* The read of /dev/uhid fails.
ReadFails ==
  /\ phase = "reading"
  /\ Stop
  /\ UNCHANGED <<serviceVars, requests, taken, typed, stdin, approved>>

-----------------------------------------------------------------------------

Handle(r) ==
  \/ Ignore(r) \/ AnswerAtOnce(r) \/ Malformed(r) \/ MissingParameter(r)
  \/ UnsupportedAlgorithm(r) \/ NoCredentials(r) \/ Prompt(r)
  \/ AssertWithoutPresence(r)

HandleAnswer ==
  \/ AskAgain \/ Deny \/ ApproveSelection \/ ApproveFirefoxProbe
  \/ ApproveRegistration \/ ApproveAssertion

Loop ==
  \/ taken < Len(requests) /\ Handle(requests[taken + 1])
  \/ HandleAnswer

Next ==
  \/ \E r \in Requests : Send(r)
  \/ \E line \in {"y", "n", "?"} : Type(line)
  \/ CloseInput
  \/ Loop
  \/ PromptFails
  \/ ReadFails

Spec == Init /\ [][Next]_vars

\* The loop runs whenever it can, and a user who is asked over and over again
\* types y or n at some point, or closes standard input.
UserAnswers == phase = "prompting" /\ (Type("y") \/ Type("n"))

FairSpec == Spec /\ WF_vars(Loop) /\ SF_vars(UserAnswers)

-----------------------------------------------------------------------------
(***************************************************************************)
(* Properties.                                                             *)
(***************************************************************************)

IsAnswered(i) == \E j \in DOMAIN responses : responses[j].to = i

\* The requests that have been handled to their end.
Settled(i) ==
  /\ i <= taken
  /\ phase = "prompting" => i < taken

\* Hosts can tell which request a response is for: the responses come in the
\* order of the requests, no request gets two, the ignored ones get none, and
\* every other one has had its own by the time the next is taken.  Only the
\* request that stopped the loop may go without.
OneAnswerEach ==
  /\ \A i, j \in DOMAIN responses : i < j => responses[i].to < responses[j].to
  /\ \A i \in 1 .. Len(requests) :
       /\ IsAnswered(i) => Settled(i) /\ requests[i] \notin Silent
       /\ Settled(i) => \/ IsAnswered(i)
                        \/ requests[i] \in Silent
                        \/ phase = "stopped" /\ i = taken

\* The credentials that exist are those the responses reported, each once,
\* except that the last one goes unreported when sending its response failed.
\* Each was made for a registration request for its relying party whose own
\* prompt was answered with yes.
RegistrationsConsented ==
  LET Reports(id) == {i \in DOMAIN responses :
                        /\ responses[i].credential = {id}
                        /\ IsMake(requests[responses[i].to])}
  IN  \A c \in registered :
        \/ \E i \in Reports(c.credential_id) :
             /\ Reports(c.credential_id) = {i}
             /\ responses[i].to \in approved
             /\ requests[responses[i].to].rp = c.rp_id
        \/ /\ phase = "stopped"
           /\ taken \in approved
           /\ requests[taken].rp = c.rp_id
           /\ Reports(c.credential_id) = {}

\* Two requests never share an answer of the user: the assertions that claim
\* the user was present are as many as the approved requests for one, except
\* that the last request may have failed.
PresenceProven ==
  LET Claimed  == {i \in DOMAIN asserted : asserted[i].data.user_present}
      Approved == {i \in approved : IsAssert(requests[i])}
  IN  \/ Cardinality(Claimed) = Cardinality(Approved)
      \/ /\ phase = "stopped"
         /\ Cardinality(Claimed) + 1 = Cardinality(Approved)

\* "Do not create or retain a credential for this probe."
ProbeRetainsNothing == \A c \in registered : c.rp_id # FirefoxRp

\* The credential found before the prompt is still there after it: assert
\* cannot answer NoCredentials, which would end run.
MatchOutlivesPrompt ==
  phase = "prompting" /\ IsAssert(Asked) =>
    Service!HasMatchingCredential(Asked.rp, Asked.allow)

\* Consent holds of the loop, its lines and its errors: a credential appears,
\* or an assertion claims presence, only in the step that reads a typed yes
\* for the request that prompted, once for each yes.  A closed input, a line
\* typed ahead, a refusal and a failure half way give nothing.
UserConsent == INSTANCE Consent
  WITH Credentials <- Service!Registration,
       asked   <- IF phase = "prompting" THEN taken ELSE 0,
       yeses   <- Cardinality({i \in DOMAIN typed : typed[i] = "y"}),
       granted <- approved,
       created <- registered,
       claims  <- Cardinality({i \in DOMAIN asserted :
                                 asserted[i].data.user_present})

ImplementsConsent == UserConsent!Spec

\* The prompt is repeated for ever: no line is left and none can come.
Starved == phase = "prompting" /\ typed = <<>> /\ stdin = "closed"

\* Every request is handled to its end, unless the loop has stopped or a
\* prompt waits for a closed input: neither a run of senseless answers nor the
\* requests queued behind a prompt hold one up for ever, and an input that is
\* closed starves the loop only at a prompt, never one that needs no answer.
EveryRequestSettled ==
  \A i \in 1 .. MaxRequests :
    (Len(requests) >= i) ~> (Settled(i) \/ phase = "stopped" \/ Starved)

=============================================================================
