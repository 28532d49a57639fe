---------------------------- MODULE Uhid_proofs ----------------------------
(***************************************************************************)
(* Proofs about Uhid, for every set of requests, however many of them are  *)
(* sent, however many lines are typed, and whenever standard input closes. *)
(* What the service guarantees is taken from Authenticator_proofs.         *)
(***************************************************************************)
EXTENDS Uhid, FiniteSetTheorems, TLAPS

Proofs == INSTANCE Authenticator_proofs

-----------------------------------------------------------------------------
(***************************************************************************)
(* Sequences.                                                              *)
(***************************************************************************)

\* What an entry added at the end changes.
LEMMA AppendFacts ==
  ASSUME NEW S, NEW s \in Seq(S), NEW e \in S
  PROVE  /\ Append(s, e) \in Seq(S)
         /\ Len(Append(s, e)) = Len(s) + 1
         /\ DOMAIN s = 1 .. Len(s) /\ DOMAIN Append(s, e) = 1 .. Len(s) + 1
         /\ \A i \in 1 .. Len(s) : Append(s, e)[i] = s[i]
         /\ Append(s, e)[Len(s) + 1] = e
  OBVIOUS

\* What an entry taken from the front leaves.
LEMMA TailFacts ==
  ASSUME NEW S, NEW s \in Seq(S), s # <<>>
  PROVE  /\ Tail(s) \in Seq(S) /\ Head(s) = s[1]
         /\ Len(s) \in Nat \ {0} /\ Len(Tail(s)) = Len(s) - 1
         /\ DOMAIN s = 1 .. Len(s) /\ DOMAIN Tail(s) = 1 .. Len(s) - 1
         /\ \A i \in 1 .. Len(s) - 1 : Tail(s)[i] = s[i + 1]
  OBVIOUS

-----------------------------------------------------------------------------
(***************************************************************************)
(* The service, called from the loop.                                      *)
(***************************************************************************)

\* The theorems about the service hold under its assumptions.
LEMMA ServiceAssumed ==
  /\ EmptyRp \in Rps
  /\ MaxCount \in Nat \ {0} /\ MaxAllowed \in Nat /\ MaxAssertions \in Nat
  /\ Proofs!SignedData \subseteq Payloads
  BY ServiceAssumption DEF Service!SignedData, Proofs!SignedData

\* The service starts in its invariant.
LEMMA ServiceInit == Service!Init => Proofs!CInv
  BY ServiceAssumed, Proofs!InitCInv
     DEF Service!Init, Service!BackendInit, Service!EmptyMap, Service!Done,
         Proofs!Init, Proofs!BackendInit, Proofs!EmptyMap, Proofs!Done

\* A registration keeps it, and adds one credential under a new identifier.
LEMMA ServiceRegister ==
  ASSUME Proofs!CInv, NEW rp \in Rps, Service!Register(rp)
  PROVE  /\ Proofs!CInv'
         /\ UNCHANGED asserted
         /\ \E c \in Service!Registration :
              /\ registered' = registered \cup {c}
              /\ c.rp_id = rp /\ c.credential_id = reply'.handle
              /\ \A d \in registered : d.credential_id # c.credential_id
<1>1. Proofs!Register(rp)
  BY DEF Service!Register, Service!Create, Service!Put, Service!Created,
         Proofs!Register, Proofs!Create, Proofs!Put, Proofs!Created
<1>2. Proofs!Registration = Service!Registration
  BY DEF Proofs!Registration, Service!Registration
<1> QED
  BY <1>1, <1>2, ServiceAssumed, Proofs!RegisterKeeps, Proofs!RegisterAdds

\* An assertion keeps it, and adds one entry to the log.
LEMMA ServiceAssertion ==
  ASSUME Proofs!CInv, NEW rp \in Rps, NEW hash \in Hashes, NEW allow,
         NEW up \in BOOLEAN, Service!MakeAssertion(rp, hash, allow, up)
  PROVE  /\ Proofs!CInv'
         /\ UNCHANGED registered
         /\ \E a \in Service!Assertion :
              asserted' = Append(asserted, a) /\ a.data.user_present = up
<1>1. Proofs!MakeAssertion(rp, hash, allow, up)
  BY DEF Service!MakeAssertion, Service!Selects, Service!Matching, Service!Sign,
         Service!Signature, Service!Counted, Service!NextCount, Service!AssertionData,
         Proofs!MakeAssertion, Proofs!Selects, Proofs!Matching, Proofs!Sign,
         Proofs!Signature, Proofs!Counted, Proofs!NextCount, Proofs!AssertionData
<1>2. Proofs!Assertion = Service!Assertion
  BY DEF Proofs!Assertion, Proofs!SignedData, Proofs!Signature_,
         Service!Assertion, Service!SignedData, Service!Signature_
<1> QED
  BY <1>1, <1>2, ServiceAssumed, Proofs!AssertionKeeps, Proofs!AssertionAdds

\* A call that fails leaves all but the reply alone.
NothingDone ==
  /\ reply' \in Service!Failure_ \/ UNCHANGED reply
  /\ UNCHANGED <<keys, credentials, registered, asserted>>

\* It keeps the invariant of the service.
LEMMA ServiceNothingDone ==
  ASSUME Proofs!CInv, NothingDone
  PROVE  Proofs!CInv'
<1>1. Proofs!Failure_ = Service!Failure_
  BY DEF Proofs!Failure_, Service!Failure_
<1> QED
  BY <1>1, ServiceAssumed, Proofs!FailureKeeps DEF NothingDone

\* Both errors of the service are such calls.
LEMMA ServiceFails ==
  ASSUME NEW rp, NEW hash, NEW allow, NEW up,
         \/ Service!RegisterFails(rp)
         \/ Service!AssertionFails(rp, hash, allow, up)
  PROVE  NothingDone
  BY DEF Service!RegisterFails, Service!CreateFails, Service!AssertionFails,
         Service!SignFails, Service!Failure, Service!Failure_, Service!serviceVars,
         NothingDone

\* What the invariant says of the service, in the words of Authenticator.
LEMMA ServiceTypes == Proofs!CInv => Service!TypeOK
  BY DEF Proofs!CInv, Proofs!IInv, Service!TypeOK, Proofs!TypeOK,
         Service!BackendTypeOK, Proofs!BackendTypeOK,
         Service!CredentialRecord, Proofs!CredentialRecord,
         Service!Registration, Proofs!Registration,
         Service!Assertion, Proofs!Assertion,
         Service!SignedData, Proofs!SignedData, Service!Created_, Proofs!Created_,
         Service!Signature_, Proofs!Signature_, Service!Failure_, Proofs!Failure_,
         Service!Done, Proofs!Done

\* The guarantees of the service that a run of it alone checks.
LEMMA ServiceGuarantees ==
  Proofs!CInv => /\ Service!RegistrationsUsable
                 /\ Service!AssertionsVerify
                 /\ Service!CountersSequential
<1>1. Proofs!CInv => Service!RegistrationsUsable /\ Service!AssertionsVerify
  BY DEF Proofs!CInv, Proofs!IInv,
         Service!RegistrationsUsable, Proofs!RegistrationsUsable,
         Service!AssertionsVerify, Proofs!AssertionsVerify,
         Service!Signature, Proofs!Signature
<1>2. Proofs!CInv => Proofs!CountersSequential
  BY DEF Proofs!CInv
<1>3. \A S : Service!Cardinality(S) = Proofs!Cardinality(S)
  BY DEF Service!Cardinality, Proofs!Cardinality
<1>4. Proofs!CountersSequential => Service!CountersSequential
  BY <1>3 DEF Service!CountersSequential, Proofs!CountersSequential,
              Service!UsesUpTo, Proofs!UsesUpTo
<1> QED
  BY <1>1, <1>2, <1>4

-----------------------------------------------------------------------------
(***************************************************************************)
(* What a step does, apart from what it is a reaction to.                  *)
(***************************************************************************)

\* The way a request is handled follows from what it is.
LEMMA Kinds ==
  ASSUME NEW r \in Request
  PROVE  /\ IsMake(r) \/ IsAssert(r) \/ r \in Selection \cup U2fRegister =>
              r \notin Silent
         /\ r \in Immediate => r \notin Silent
         /\ IsMake(r) \/ r \in Selection \cup U2fRegister => ~IsAssert(r)
         /\ r \in Selection \cup U2fRegister => ~IsMake(r)
         /\ IsMake(r) => r.rp \in Rps \cup {NoRp}
         /\ IsAssert(r) => /\ r.rp \in Rps \cup {NoRp}
                           /\ r.hash \in Hashes /\ r.up \in BOOLEAN
  BY DEF Request, Immediate, Silent, Selection, U2fRegister, MakeCredential,
         GetAssertion, IsMake, IsAssert

\* A question is about the request that was taken last, which was found
\* acceptable, and which the user has not agreed to yet.
Prompting ==
  phase = "prompting" =>
    /\ taken > 0 /\ taken \notin approved
    /\ Prompts(Asked) /\ Acceptable(Asked)

\* A yes is read off the lines, or no yes is.
YesRead == typed # <<>> /\ Head(typed) = "y" /\ typed' = Tail(typed)
NoYesRead ==
  \/ UNCHANGED typed
  \/ typed # <<>> /\ Head(typed) # "y" /\ typed' = Tail(typed)

\* Nothing comes of the step but the state of the input and of the queue.
Waits ==
  /\ UNCHANGED <<serviceVars, taken, phase, responses, approved>>
  /\ requests' = requests \/ \E r \in Request : requests' = Append(requests, r)
  /\ NoYesRead \/ \E line \in {"y", "n", "?"} : typed' = Append(typed, line)

\* A request is passed over.
Skips ==
  /\ phase = "reading" /\ phase' = "reading"
  /\ taken < Len(requests) /\ taken' = taken + 1
  /\ requests[taken + 1] \in Silent
  /\ UNCHANGED <<serviceVars, requests, responses, approved, typed>>

\* The user is asked.
Asks ==
  /\ phase = "reading" /\ phase' = "prompting"
  /\ taken < Len(requests) /\ taken' = taken + 1
  /\ Prompts(requests[taken + 1]) /\ Acceptable(requests[taken + 1])
  /\ UNCHANGED <<serviceVars, requests, responses, approved, typed>>

\* The loop ends between two requests.
Breaks ==
  /\ phase = "reading" /\ phase' = "stopped"
  /\ UNCHANGED <<serviceVars, requests, taken, responses, approved, typed>>

\* A request is handled to its end.
Ends(status, ids) ==
  /\ \/ phase = "reading" /\ taken < Len(requests) /\ taken' = taken + 1
     \/ phase = "prompting" /\ taken' = taken
  /\ requests[taken'] \notin Silent
  /\ status \in Statuses
  /\ Respond(status, ids)
  /\ UNCHANGED requests

\* It comes to nothing, before a prompt or after one.
Declines(status) ==
  /\ Ends(status, {})
  /\ NothingDone
  /\ NoYesRead
  /\ UNCHANGED approved

\* The user has agreed to it.
Agrees ==
  /\ phase = "prompting"
  /\ YesRead
  /\ approved' = approved \cup {taken}

\* Nothing comes of the agreement.
AgreesInVain(status) ==
  /\ Ends(status, {})
  /\ Agrees
  /\ NothingDone
  /\ IsAssert(Asked) => phase' = "stopped"

\* A credential comes of it.
Creates ==
  /\ Ends("OK", {reply'.handle})
  /\ Agrees
  /\ IsMake(Asked)
  /\ Asked.rp \in Rps \ {FirefoxRp}
  /\ Service!Register(Asked.rp)

\* An assertion is made: of presence in answer to a yes, otherwise without.
Asserts(rp, hash, allow, up) ==
  /\ Ends("OK", {asserted'[Len(asserted')].credential_id})
  /\ \/ up = TRUE /\ Agrees /\ IsAssert(Asked)
     \/ up = FALSE /\ phase = "reading" /\ UNCHANGED <<approved, typed>>
  /\ IsAssert(requests[taken'])
  /\ Service!MakeAssertion(rp, hash, allow, up)

\* The steps, by what they do.
Effect ==
  \/ Waits \/ Skips \/ Asks \/ Breaks
  \/ \E status : Declines(status) \/ AgreesInVain(status)
  \/ Creates
  \/ \E rp \in Rps, hash \in Hashes, up \in BOOLEAN : \E allow :
       Asserts(rp, hash, allow, up)

\* The line that is read is a yes only if a yes was typed.
LEMMA LineRead ==
  ASSUME TypeOK, NEW line, ReadLine(line)
  PROVE  IF line = "y" THEN YesRead ELSE NoYesRead
  BY DEF TypeOK, ReadLine, NextLine, YesRead, NoYesRead

\* What is not of the service may change while it does nothing.
LEMMA StillNothingDone == UNCHANGED serviceVars => NothingDone
  BY DEF serviceVars, NothingDone

\* A request that is taken and ends without a prompt.
LEMMA TakenEnds ==
  ASSUME TypeOK, taken < Len(requests),
         NEW r, r = requests[taken + 1], Take(r), r \notin Silent,
         NEW status \in Statuses, NEW ids, Respond(status, ids)
  PROVE  Ends(status, ids)
  BY DEF Take, Ends, TypeOK

\* A request whose question is settled ends.
LEMMA AskedEnds ==
  ASSUME TypeOK, Prompting, phase = "prompting",
         UNCHANGED <<requests, taken>>,
         NEW status \in Statuses, NEW ids, Respond(status, ids)
  PROVE  Ends(status, ids)
<1>1. Asked \in Request
  BY DEF TypeOK, Prompting, Asked
<1>2. Asked \notin Silent
  BY <1>1, Kinds DEF Prompting, Prompts
<1> QED
  BY <1>2 DEF Ends, Asked

\* Handling the next request has one of the effects.
LEMMA HandleEffect ==
  ASSUME TypeOK, taken < Len(requests), Handle(requests[taken + 1])
  PROVE  Effect
<1>1. PICK r : r = requests[taken + 1]
  OBVIOUS
<1>2. r \in Request
  BY <1>1 DEF TypeOK
<1>3. Handle(r)
  BY <1>1
<1>4. ASSUME NEW status \in Statuses, Take(r), r \notin Silent,
             Respond(status, {}), NothingDone
      PROVE  Declines(status)
  BY <1>1, <1>4, TakenEnds DEF Declines, Take, NoYesRead
<1>5. ASSUME Ignore(r) PROVE Skips
  BY <1>1, <1>5 DEF Ignore, Take, Skips
<1>6. ASSUME AnswerAtOnce(r) PROVE Declines("OK")
  BY <1>2, <1>4, <1>6, Kinds, StillNothingDone DEF AnswerAtOnce, Statuses
<1>7. ASSUME Malformed(r) PROVE Declines("OK")
  BY <1>2, <1>4, <1>7, Kinds, StillNothingDone
     DEF Malformed, Decodes, Stop, Respond, Statuses
<1>8. ASSUME MissingParameter(r) PROVE Declines("MissingParameter")
  BY <1>2, <1>4, <1>8, Kinds, StillNothingDone
     DEF MissingParameter, HasParameters, Statuses
<1>9. ASSUME UnsupportedAlgorithm(r) PROVE Declines("UnsupportedAlgorithm")
  BY <1>2, <1>4, <1>9, Kinds, StillNothingDone
     DEF UnsupportedAlgorithm, OffersEdDsa, Statuses
<1>10. ASSUME NoCredentials(r) PROVE Declines("NoCredentials")
  BY <1>2, <1>4, <1>10, Kinds, StillNothingDone
     DEF NoCredentials, Matches, Statuses
<1>11. ASSUME Prompt(r) PROVE Asks
  BY <1>1, <1>11 DEF Prompt, Take, Asks
<1>12. ASSUME AssertWithoutPresence(r) PROVE Effect
  <2>1. r \notin Silent /\ r.rp \in Rps /\ r.hash \in Hashes /\ r.up = FALSE
    BY <1>2, <1>12, Kinds
       DEF AssertWithoutPresence, Acceptable, HasParameters, Prompts
  <2>2. CASE /\ Service!MakeAssertion(r.rp, r.hash, r.allow, r.up)
             /\ Respond("OK", {asserted'[Len(asserted')].credential_id})
    <3>1. Ends("OK", {asserted'[Len(asserted')].credential_id})
      BY <1>1, <1>12, <2>1, <2>2, TakenEnds DEF AssertWithoutPresence, Statuses
    <3>2. requests[taken'] = r /\ phase = "reading" /\ UNCHANGED <<approved, typed>>
      BY <1>1, <1>12 DEF AssertWithoutPresence, Take
    <3>3. PICK rp \in Rps, hash \in Hashes : rp = r.rp /\ hash = r.hash
      BY <2>1
    <3>4. Asserts(rp, hash, r.allow, FALSE)
      BY <1>12, <2>1, <2>2, <3>1, <3>2, <3>3 DEF Asserts, AssertWithoutPresence
    <3> QED
      BY <3>4 DEF Effect
  <2>3. CASE Service!AssertionFails(r.rp, r.hash, r.allow, r.up) /\ Stop
    <3>1. NothingDone
      BY <2>3, ServiceFails
    <3> QED
      BY <1>4, <1>12, <2>1, <2>3, <3>1
         DEF AssertWithoutPresence, Stop, Respond, Statuses, Effect
  <2> QED
    BY <1>12, <2>2, <2>3 DEF AssertWithoutPresence, AssertFor
<1> QED
  BY <1>3, <1>5, <1>6, <1>7, <1>8, <1>9, <1>10, <1>11, <1>12 DEF Handle, Effect

\* So has handling an answer.
LEMMA AnswerEffect ==
  ASSUME TypeOK, Prompting, HandleAnswer
  PROVE  Effect
<1>1. phase = "prompting" /\ UNCHANGED <<requests, taken>>
  BY DEF HandleAnswer, AskAgain, Deny, Approve, ApproveSelection,
         ApproveFirefoxProbe, ApproveRegistration, ApproveAssertion, ReadLine
<1>2. Asked \in Request
  BY <1>1 DEF TypeOK, Prompting, Asked
<1>3. Asked = requests[taken']
  BY <1>1 DEF Asked
<1>4. ASSUME Approve PROVE Agrees
  BY <1>1, <1>4, LineRead DEF Approve, Agrees
<1>5. ASSUME AskAgain PROVE Waits
  <2>1. ReadLine("?") => NoYesRead
    BY LineRead
  <2>2. "" # "y"
    OBVIOUS
  <2>3. ReadLine("") => NoYesRead
    BY <2>2, LineRead
  <2> QED
    BY <1>1, <1>5, <2>1, <2>3 DEF AskAgain, Waits
<1>6. ASSUME Deny PROVE Declines("OperationDenied")
  <2>1. NoYesRead
    BY <1>6, LineRead DEF Deny
  <2> QED
    BY <1>1, <1>6, <2>1, AskedEnds, StillNothingDone DEF Deny, Declines, Statuses
<1>7. ASSUME ApproveSelection PROVE AgreesInVain("OK")
  BY <1>1, <1>2, <1>4, <1>7, Kinds, AskedEnds, StillNothingDone
     DEF ApproveSelection, AgreesInVain, Statuses
<1>8. ASSUME ApproveFirefoxProbe PROVE AgreesInVain("PinNotSet")
  BY <1>1, <1>2, <1>4, <1>8, Kinds, AskedEnds, StillNothingDone
     DEF ApproveFirefoxProbe, IsFirefoxProbe, AgreesInVain, Statuses
<1>9. ASSUME Agrees, NothingDone, Stop PROVE AgreesInVain("OK")
  BY <1>1, <1>9, AskedEnds DEF AgreesInVain, Stop, Respond, Statuses
<1>10. ASSUME ApproveRegistration PROVE Effect
  <2>1. Asked.rp \in Rps \ {FirefoxRp}
    BY <1>1, <1>2, <1>10, Kinds
       DEF ApproveRegistration, IsFirefoxProbe, Prompting, Acceptable, HasParameters
  <2>2. CASE Service!Register(Asked.rp) /\ Respond("OK", {reply'.handle})
    BY <1>1, <1>4, <1>10, <2>1, <2>2, AskedEnds
       DEF ApproveRegistration, Creates, Statuses, Effect
  <2>3. CASE Service!RegisterFails(Asked.rp) /\ Stop
    BY <1>4, <1>9, <1>10, <2>3, ServiceFails DEF ApproveRegistration, Effect
  <2> QED
    BY <1>10, <2>2, <2>3 DEF ApproveRegistration, MakeCredentialFor
<1>11. ASSUME ApproveAssertion PROVE Effect
  <2>1. Asked.rp \in Rps /\ Asked.hash \in Hashes /\ Asked.up = TRUE
    BY <1>1, <1>2, <1>11, Kinds
       DEF ApproveAssertion, Prompting, Acceptable, HasParameters, Prompts
  <2>2. CASE /\ Service!MakeAssertion(Asked.rp, Asked.hash, Asked.allow, Asked.up)
             /\ Respond("OK", {asserted'[Len(asserted')].credential_id})
    <3>1. Ends("OK", {asserted'[Len(asserted')].credential_id})
      BY <1>1, <2>2, AskedEnds DEF Statuses
    <3>2. PICK rp \in Rps, hash \in Hashes : rp = Asked.rp /\ hash = Asked.hash
      BY <2>1
    <3>3. Asserts(rp, hash, Asked.allow, TRUE)
      BY <1>3, <1>4, <1>11, <2>1, <2>2, <3>1, <3>2 DEF ApproveAssertion, Asserts
    <3> QED
      BY <3>3 DEF Effect
  <2>3. CASE Service!AssertionFails(Asked.rp, Asked.hash, Asked.allow, Asked.up) /\ Stop
    BY <1>4, <1>9, <1>11, <2>3, ServiceFails DEF ApproveAssertion, Effect
  <2> QED
    BY <1>11, <2>2, <2>3 DEF ApproveAssertion, AssertFor
<1> QED
  BY <1>5, <1>6, <1>7, <1>8, <1>10, <1>11 DEF HandleAnswer, Effect

\* Every step has one of the effects.
LEMMA NextEffect ==
  ASSUME TypeOK, Prompting, [Next]_vars
  PROVE  Effect
<1>1. ASSUME NEW r \in Requests, Send(r) PROVE Waits
  BY <1>1, RequestAssumption DEF Send, Waits, NoYesRead
<1>2. ASSUME NEW line \in {"y", "n", "?"}, Type(line) PROVE Waits
  BY <1>2 DEF Type, Waits
<1>3. ASSUME CloseInput PROVE Waits
  BY <1>3 DEF CloseInput, Waits, NoYesRead
<1>4. ASSUME PromptFails PROVE Declines("OK")
  <2>1. Ends("OK", {})
    BY <1>4, AskedEnds DEF PromptFails, Stop, Respond, Statuses
  <2> QED
    BY <1>4, <2>1, StillNothingDone DEF PromptFails, Declines, NoYesRead
<1>5. ASSUME ReadFails PROVE Breaks
  BY <1>5 DEF ReadFails, Stop, Breaks
<1>6. ASSUME UNCHANGED vars PROVE Waits
  BY <1>6 DEF vars, serviceVars, Waits, NoYesRead
<1>7. ASSUME Loop PROVE Effect
  BY <1>7, HandleEffect, AnswerEffect DEF Loop
<1> QED
  BY <1>1, <1>2, <1>3, <1>4, <1>5, <1>6, <1>7 DEF Next, Effect

\* For the queue and the responses, the effects come down to five.
LEMMA QueueEffect ==
  ASSUME Effect
  PROVE  \/ Waits \/ Skips \/ Asks \/ Breaks
         \/ \E status, ids : Ends(status, ids)
<1>1. ASSUME NEW status, Declines(status) \/ AgreesInVain(status)
      PROVE  \E s, ids : Ends(s, ids)
  BY <1>1 DEF Declines, AgreesInVain
<1>2. ASSUME Creates PROVE \E s, ids : Ends(s, ids)
  <2>1. PICK ids : ids = {reply'.handle}
    OBVIOUS
  <2>2. Ends("OK", ids)
    BY <1>2, <2>1 DEF Creates
  <2> QED
    BY <2>2
<1>3. ASSUME NEW rp, NEW hash, NEW allow, NEW up, Asserts(rp, hash, allow, up)
      PROVE  \E s, ids : Ends(s, ids)
  <2>1. PICK ids : ids = {asserted'[Len(asserted')].credential_id}
    OBVIOUS
  <2>2. Ends("OK", ids)
    BY <1>3, <2>1 DEF Asserts
  <2> QED
    BY <2>2
<1> QED
  BY <1>1, <1>2, <1>3 DEF Effect

-----------------------------------------------------------------------------
(***************************************************************************)
(* The service keeps its invariant, and every variable its type.           *)
(***************************************************************************)

\* The service is called as it expects.
LEMMA ServiceKept ==
  ASSUME TypeOK, Proofs!CInv, Effect
  PROVE  Proofs!CInv'
<1>1. ASSUME UNCHANGED serviceVars PROVE Proofs!CInv'
  BY <1>1, StillNothingDone, ServiceNothingDone
<1>2. ASSUME NothingDone PROVE Proofs!CInv'
  BY <1>2, ServiceNothingDone
<1>3. ASSUME Creates PROVE Proofs!CInv'
  <2>1. PICK rp \in Rps : rp = Asked.rp
    BY <1>3 DEF Creates
  <2>2. Service!Register(rp)
    BY <1>3, <2>1 DEF Creates
  <2> QED
    BY <2>2, ServiceRegister
<1>4. ASSUME NEW rp \in Rps, NEW hash \in Hashes, NEW up \in BOOLEAN, NEW allow,
             Asserts(rp, hash, allow, up)
      PROVE  Proofs!CInv'
  BY <1>4, ServiceAssertion DEF Asserts
<1> QED
  BY <1>1, <1>2, <1>3, <1>4
     DEF Effect, Waits, Skips, Asks, Breaks, Declines, AgreesInVain

\* A request that ends is one that was sent, and its response is well typed.
LEMMA EndsFacts ==
  ASSUME TypeOK, Prompting, NEW status, NEW ids, Ends(status, ids)
  PROVE  /\ requests' = requests /\ taken' \in 1 .. Len(requests)
         /\ taken' = IF phase = "reading" THEN taken + 1 ELSE taken
         /\ phase' \in {"reading", "stopped"}
         /\ phase \in {"reading", "prompting"}
         /\ \/ phase' = "reading" /\ \E r \in [to : Nat, status : Statuses, credential : {ids}] :
                 /\ r.to = taken' /\ r.credential = ids
                 /\ responses' = Append(responses, r)
            \/ phase' = "stopped" /\ responses' = responses
<1>1. /\ requests' = requests /\ taken' \in 1 .. Len(requests)
      /\ taken' = IF phase = "reading" THEN taken + 1 ELSE taken
      /\ phase \in {"reading", "prompting"}
  BY DEF TypeOK, Prompting, Ends
<1>2. PICK r : r = [to |-> taken', status |-> status, credential |-> ids]
  OBVIOUS
<1>3. /\ r \in [to : Nat, status : Statuses, credential : {ids}]
      /\ r.to = taken' /\ r.credential = ids
  BY <1>1, <1>2 DEF Ends
<1> QED
  BY <1>1, <1>2, <1>3 DEF Ends, Respond

\* The input is open or closed.
LEMMA StdinType ==
  ASSUME TypeOK, [Next]_vars
  PROVE  stdin' \in {"open", "closed"}
<1>1. UNCHANGED stdin \/ CloseInput
  BY DEF Next, Send, Type, Loop, Handle, HandleAnswer, Take, Ignore, AnswerAtOnce,
         Malformed, MissingParameter, UnsupportedAlgorithm, NoCredentials, Prompt,
         AssertWithoutPresence, ReadLine, AskAgain, Deny, Approve, ApproveSelection,
         ApproveFirefoxProbe, ApproveRegistration, ApproveAssertion, PromptFails,
         ReadFails, vars
<1> QED
  BY <1>1 DEF TypeOK, CloseInput

\* What a response names is a handle.
LEMMA EndsType ==
  ASSUME TypeOK, Prompting, Proofs!CInv',
         NEW status, NEW ids \in SUBSET Handles, Ends(status, ids),
         typed' \in Seq({"y", "n", "?"}), stdin' \in {"open", "closed"},
         approved' \subseteq 1 .. taken'
  PROVE  TypeOK'
<1>1. Service!TypeOK'
  BY ServiceTypes, PTL
<1>2. \A r \in [to : Nat, status : Statuses, credential : {ids}] :
        r \in Response
  BY DEF Response
<1>3. responses \in Seq(Response)
  BY DEF TypeOK
<1>4. responses' \in Seq(Response)
  BY <1>2, <1>3, EndsFacts, AppendFacts
<1> QED
  BY <1>1, <1>4, EndsFacts DEF TypeOK

\* Every step keeps the types.
LEMMA NextTypes ==
  ASSUME TypeOK, Prompting, Proofs!CInv, Effect, stdin' \in {"open", "closed"}
  PROVE  TypeOK'
<1>1. Proofs!CInv' /\ Service!TypeOK'
  <2>1. Proofs!CInv'
    BY ServiceKept
  <2> QED
    BY <2>1, ServiceTypes, PTL
<1>2. NoYesRead \/ YesRead => typed' \in Seq({"y", "n", "?"})
  BY TailFacts DEF TypeOK, NoYesRead, YesRead
<1>3. ASSUME Agrees, taken' = taken PROVE approved' \subseteq 1 .. taken'
  BY <1>3 DEF TypeOK, Prompting, Agrees
<1>4. ASSUME NEW status, NEW ids, Ends(status, ids), Agrees
      PROVE  approved' \subseteq 1 .. taken' /\ typed' \in Seq({"y", "n", "?"})
  BY <1>2, <1>3, <1>4 DEF Ends, Agrees
<1>5. ASSUME NEW status, NEW ids, Ends(status, ids), approved' = approved
      PROVE  approved' \subseteq 1 .. taken'
  BY <1>5 DEF TypeOK, Ends
<1>6. ASSUME Waits PROVE TypeOK'
  <2>1. requests' \in Seq(Request) /\ Len(requests') >= Len(requests)
    BY <1>6, AppendFacts DEF TypeOK, Waits
  <2>2. typed' \in Seq({"y", "n", "?"})
    <3>1. typed \in Seq({"y", "n", "?"})
      BY DEF TypeOK
    <3>2. \A line \in {"y", "n", "?"} : Append(typed, line) \in Seq({"y", "n", "?"})
      BY <3>1, AppendFacts
    <3> QED
      BY <1>2, <1>6, <3>2 DEF Waits
  <2>3. UNCHANGED <<taken, phase, responses, approved>>
    BY <1>6 DEF Waits
  <2>4. taken' \in 0 .. Len(requests')
    BY <2>1, <2>3 DEF TypeOK
  <2> QED
    BY <1>1, <2>1, <2>2, <2>3, <2>4 DEF TypeOK
<1>7. ASSUME Skips \/ Asks \/ Breaks PROVE TypeOK'
  <2>1. UNCHANGED <<requests, responses, approved, typed>>
    BY <1>7 DEF Skips, Asks, Breaks
  <2>2. /\ taken' \in 0 .. Len(requests') /\ taken' >= taken
        /\ phase' \in {"reading", "prompting", "stopped"}
    BY <1>7, <2>1 DEF TypeOK, Skips, Asks, Breaks
  <2>3. approved' \subseteq 1 .. taken'
    BY <2>1, <2>2 DEF TypeOK
  <2> QED
    BY <1>1, <2>1, <2>2, <2>3 DEF TypeOK
<1>8. ASSUME NEW status, Declines(status) PROVE TypeOK'
  BY <1>1, <1>2, <1>5, <1>8, EndsType DEF Declines
<1>9. ASSUME NEW status, AgreesInVain(status) PROVE TypeOK'
  BY <1>1, <1>4, <1>9, EndsType DEF AgreesInVain
<1>10. ASSUME Creates PROVE TypeOK'
  <2>1. PICK rp \in Rps : rp = Asked.rp
    BY <1>10 DEF Creates
  <2>2. PICK h : h = reply'.handle
    OBVIOUS
  <2>3. h \in Handles
    BY <1>10, <2>1, <2>2, ServiceRegister DEF Creates, Service!Registration
  <2> QED
    BY <1>1, <1>4, <1>10, <2>2, <2>3, EndsType DEF Creates
<1>11. ASSUME NEW rp \in Rps, NEW hash \in Hashes, NEW up \in BOOLEAN, NEW allow,
              Asserts(rp, hash, allow, up)
       PROVE  TypeOK'
  <2>1. PICK h : h = asserted'[Len(asserted')].credential_id
    OBVIOUS
  <2>2. h \in Handles
    BY <1>11, <2>1, ServiceAssertion
       DEF Asserts, TypeOK, Service!TypeOK, Service!Assertion
  <2>3. Ends("OK", {h})
    BY <1>11, <2>1 DEF Asserts
  <2>4. typed' \in Seq({"y", "n", "?"}) /\ approved' \subseteq 1 .. taken'
    BY <1>4, <1>5, <1>11, <2>3 DEF Asserts, TypeOK
  <2> QED
    BY <1>1, <2>2, <2>3, <2>4, EndsType
<1> QED
  BY <1>6, <1>7, <1>8, <1>9, <1>10, <1>11 DEF Effect

-----------------------------------------------------------------------------
(***************************************************************************)
(* The question and the answers.                                           *)
(***************************************************************************)

\* The requests that were taken stay what they were.
LEMMA TakenKept ==
  ASSUME TypeOK, Prompting, Effect
  PROVE  /\ \A i \in 1 .. Len(requests) : requests'[i] = requests[i]
         /\ Len(requests') \in Nat /\ Len(requests') >= Len(requests)
         /\ taken' \in Nat /\ taken' >= taken
<1>1. requests' = requests \/ \E r \in Request : requests' = Append(requests, r)
  BY QueueEffect, EndsFacts DEF Waits, Skips, Asks, Breaks
<1>2. /\ \A i \in 1 .. Len(requests) : requests'[i] = requests[i]
      /\ Len(requests') \in Nat /\ Len(requests') >= Len(requests)
  BY <1>1, AppendFacts DEF TypeOK
<1>3. taken' \in Nat /\ taken' >= taken
  BY QueueEffect, EndsFacts DEF TypeOK, Waits, Skips, Asks, Breaks
<1> QED
  BY <1>2, <1>3

\* A question stays the one it was until it is settled.
LEMMA NextPrompting ==
  ASSUME TypeOK, Prompting, Effect
  PROVE  Prompting'
<1>1. ASSUME Waits PROVE Prompting'
  <2>1. CASE phase = "prompting"
    <3>1. taken \in 1 .. Len(requests) /\ UNCHANGED <<credentials, taken, approved>>
      BY <1>1, <2>1 DEF TypeOK, Prompting, Waits, serviceVars
    <3>2. Asked' = Asked
      BY <3>1, TakenKept DEF Asked
    <3> QED
      BY <2>1, <3>1, <3>2
         DEF Prompting, Prompts, Acceptable, Decodes, HasParameters, OffersEdDsa,
             IsFirefoxProbe, Matches, IsMake, IsAssert,
             Service!HasMatchingCredential, Service!Matching
  <2>2. CASE phase # "prompting"
    BY <1>1, <2>2 DEF Waits, Prompting
  <2> QED
    BY <2>1, <2>2
<1>2. ASSUME Asks PROVE Prompting'
  <2>1. /\ Asked' = requests[taken + 1] /\ taken' = taken + 1
        /\ UNCHANGED <<credentials, approved>>
    BY <1>2 DEF Asks, Asked, serviceVars
  <2>2. taken + 1 > 0 /\ taken + 1 \notin approved
    BY DEF TypeOK
  <2> QED
    BY <1>2, <2>1, <2>2
       DEF Asks, Prompting, Prompts, Acceptable, Decodes, HasParameters, OffersEdDsa,
           IsFirefoxProbe, Matches, IsMake, IsAssert,
           Service!HasMatchingCredential, Service!Matching
<1>3. ASSUME phase' # "prompting" PROVE Prompting'
  BY <1>3 DEF Prompting
<1> QED
  BY <1>1, <1>2, <1>3, QueueEffect, EndsFacts DEF Skips, Breaks

\* Every response is to a request that was taken.
Addressed == \A j \in DOMAIN responses : responses[j].to \in 1 .. taken

\* It stays so.
LEMMA NextAddressed ==
  ASSUME TypeOK, Prompting, Addressed, Effect
  PROVE  Addressed'
<1>1. ASSUME responses' = responses PROVE Addressed'
  BY <1>1, TakenKept DEF Addressed, TypeOK
<1>2. ASSUME NEW status, NEW ids, Ends(status, ids), responses' # responses
      PROVE  Addressed'
  <2>1. PICK r : /\ r.to = taken' /\ taken' \in 1 .. Len(requests)
                 /\ responses' = Append(responses, r)
    BY <1>2, EndsFacts
  <2>2. responses \in Seq(Response)
    BY DEF TypeOK
  <2> QED
    BY <2>1, <2>2, TakenKept DEF Addressed, TypeOK
<1> QED
  BY <1>1, <1>2, QueueEffect DEF Waits, Skips, Asks, Breaks

\* At the end of a request the responses are as they should be: the new one,
\* if there is one, comes after all others.
LEMMA EndsOneAnswer ==
  ASSUME TypeOK, Prompting, Addressed, OneAnswerEach,
         NEW status, NEW ids, Ends(status, ids)
  PROVE  OneAnswerEach'
<1>1. PICK n \in Nat : n = taken'
  BY EndsFacts
<1>2. /\ requests' = requests /\ n \in 1 .. Len(requests)
      /\ n = IF phase = "reading" THEN taken + 1 ELSE taken
      /\ phase \in {"reading", "prompting"} /\ phase' \in {"reading", "stopped"}
      /\ requests[n] \notin Silent
  BY <1>1, EndsFacts DEF Ends
<1>3. \A i \in 1 .. Len(requests) : Settled(i)' <=> Settled(i) \/ i = n
  BY <1>1, <1>2 DEF TypeOK, Settled
<1>4. ~IsAnswered(n)
  BY <1>2 DEF OneAnswerEach, Settled, TypeOK
<1>5. CASE phase' = "stopped" /\ responses' = responses
  <2>1. \A i : IsAnswered(i)' <=> IsAnswered(i)
    BY <1>5 DEF IsAnswered
  <2> QED
    BY <1>1, <1>2, <1>3, <1>5, <2>1 DEF OneAnswerEach
<1>6. ASSUME phase' = "reading",
             NEW r \in [to : Nat, status : Statuses, credential : {ids}], r.to = taken',
             responses' = Append(responses, r)
      PROVE  OneAnswerEach'
  <2>1. PICK m \in Nat : m = Len(responses)
    BY DEF TypeOK
  <2>2. /\ DOMAIN responses = 1 .. m /\ DOMAIN responses' = 1 .. m + 1
        /\ \A i \in 1 .. m : responses'[i] = responses[i]
        /\ responses'[m + 1].to = n
    BY <1>1, <1>6, <2>1 DEF TypeOK
  <2>3. \A i \in 1 .. m : responses[i].to < n
    <3>1. ASSUME NEW i \in 1 .. m PROVE responses[i].to <= n /\ responses[i].to # n
      BY <1>2, <1>4, <2>2, <3>1 DEF Addressed, IsAnswered, TypeOK
    <3>2. \A i \in 1 .. m : responses[i].to \in Nat
      BY <2>2 DEF Addressed, TypeOK
    <3> QED
      BY <3>1, <3>2
  <2>4. \A i, j \in DOMAIN responses' :
          i < j => responses'[i].to < responses'[j].to
    BY <2>1, <2>2, <2>3 DEF OneAnswerEach
  <2>5. \A i : IsAnswered(i)' <=> IsAnswered(i) \/ i = n
    BY <2>1, <2>2 DEF IsAnswered
  <2> QED
    BY <1>1, <1>2, <1>3, <2>4, <2>5 DEF OneAnswerEach
<1> QED
  BY <1>5, <1>6, EndsFacts

\* Every step keeps the answers in order, one for each request.
LEMMA NextOneAnswer ==
  ASSUME TypeOK, Prompting, Addressed, OneAnswerEach, Effect
  PROVE  OneAnswerEach'
<1>1. ASSUME responses' = responses PROVE \A i : IsAnswered(i)' <=> IsAnswered(i)
  BY <1>1 DEF IsAnswered
<1>2. ASSUME Waits PROVE OneAnswerEach'
  <2>1. UNCHANGED <<taken, phase, responses>>
    BY <1>2 DEF Waits
  <2>2. \A i : Settled(i)' <=> Settled(i)
    BY <2>1 DEF Settled
  <2>3. ASSUME NEW i \in 1 .. Len(requests'), i > Len(requests)
        PROVE  ~IsAnswered(i) /\ ~Settled(i)
    BY <2>3, TakenKept DEF TypeOK, Addressed, IsAnswered, Settled
  <2>4. ASSUME NEW i \in 1 .. Len(requests'), i <= Len(requests)
        PROVE  i \in 1 .. Len(requests) /\ requests'[i] = requests[i]
    BY <2>4, TakenKept DEF TypeOK
  <2>5. \A i \in 1 .. Len(requests') : i > Len(requests) \/ i <= Len(requests)
    BY DEF TypeOK
  <2> QED
    BY <1>1, <2>1, <2>2, <2>3, <2>4, <2>5 DEF OneAnswerEach
<1>3. ASSUME Skips PROVE OneAnswerEach'
  <2>1. /\ UNCHANGED <<requests, responses, phase>> /\ phase = "reading"
        /\ requests[taken + 1] \in Silent /\ taken' = taken + 1
    BY <1>3 DEF Skips
  <2>2. \A i \in 1 .. Len(requests) : Settled(i)' <=> Settled(i) \/ i = taken + 1
    BY <2>1 DEF TypeOK, Settled
  <2> QED
    BY <1>1, <2>1, <2>2 DEF OneAnswerEach
<1>4. ASSUME Asks \/ Breaks PROVE OneAnswerEach'
  <2>1. UNCHANGED <<requests, responses>> /\ phase # "stopped"
    BY <1>4 DEF Asks, Breaks
  <2>2. \A i \in 1 .. Len(requests) : Settled(i)' <=> Settled(i)
    BY <1>4 DEF Asks, Breaks, TypeOK, Settled
  <2> QED
    BY <1>1, <2>1, <2>2 DEF OneAnswerEach
<1> QED
  BY <1>2, <1>3, <1>4, EndsOneAnswer, QueueEffect

-----------------------------------------------------------------------------
(***************************************************************************)
(* Registrations and the consent to them.                                  *)
(***************************************************************************)

\* The responses that report a credential.
Reports(id) ==
  {i \in DOMAIN responses : /\ responses[i].credential = {id}
                            /\ IsMake(requests[responses[i].to])}

\* What the responses report was registered.
Reported ==
  \A id : Reports(id) # {} => \E c \in registered : c.credential_id = id

\* The registration was agreed to and reported, by one response.
ReportedOnce(c) ==
  \E i \in Reports(c.credential_id) :
    /\ Reports(c.credential_id) = {i}
    /\ responses[i].to \in approved
    /\ requests[responses[i].to].rp = c.rp_id

\* The registration was agreed to, and its response was not written.
Unreported(c) ==
  /\ phase = "stopped"
  /\ taken \in approved
  /\ requests[taken].rp = c.rp_id
  /\ Reports(c.credential_id) = {}

\* Every registration is one or the other.
EachConsented == \A c \in registered : ReportedOnce(c) \/ Unreported(c)

\* RegistrationsConsented in these terms.
LEMMA ConsentedSays == RegistrationsConsented <=> EachConsented
  BY DEF RegistrationsConsented, EachConsented, ReportedOnce, Unreported, Reports

\* The same after a step.
LEMMA ConsentedSaysNext == EachConsented' => RegistrationsConsented'
  BY ConsentedSays, PTL

\* The reports are those there were, and those of a response that is added.
LEMMA ReportsGrow ==
  ASSUME TypeOK, Prompting, Addressed, Effect
  PROVE  /\ responses' = responses => \A id : Reports(id)' = Reports(id)
         /\ \A r : responses' = Append(responses, r) =>
              \A id : Reports(id)' =
                IF r.credential = {id} /\ IsMake(requests'[r.to])
                  THEN Reports(id) \cup {Len(responses) + 1} ELSE Reports(id)
<1>1. \A j \in DOMAIN responses :
        requests'[responses[j].to] = requests[responses[j].to]
  BY TakenKept DEF Addressed, TypeOK
<1>2. \A r : IsMake(r)' <=> IsMake(r)
  BY DEF IsMake
<1>3. ASSUME responses' = responses, NEW id PROVE Reports(id)' = Reports(id)
  BY <1>1, <1>3 DEF Reports, IsMake
<1>4. ASSUME NEW r, responses' = Append(responses, r), NEW id
      PROVE  Reports(id)' =
               IF r.credential = {id} /\ IsMake(requests'[r.to])
                 THEN Reports(id) \cup {Len(responses) + 1} ELSE Reports(id)
  <2>1. PICK n \in Nat : n = Len(responses)
    BY DEF TypeOK
  <2>2. /\ DOMAIN responses = 1 .. n /\ DOMAIN responses' = 1 .. n + 1
        /\ \A i \in 1 .. n : responses'[i] = responses[i]
        /\ responses'[n + 1] = r
    BY <1>4, <2>1 DEF TypeOK
  <2>3. Reports(id)' =
          {i \in 1 .. n + 1 : /\ responses'[i].credential = {id}
                              /\ IsMake(requests'[responses'[i].to])}
    BY <2>2 DEF Reports, IsMake
  <2>4. Reports(id) =
          {i \in 1 .. n : /\ responses[i].credential = {id}
                          /\ IsMake(requests'[responses[i].to])}
    BY <1>1, <2>2 DEF Reports, IsMake
  <2> QED
    BY <2>1, <2>2, <2>3, <2>4
<1> QED
  BY <1>3, <1>4

\* A step that registers and reports nothing keeps what was agreed to.
LEMMA QuietConsented ==
  ASSUME TypeOK, Prompting, Addressed, Reported, RegistrationsConsented, Effect,
         UNCHANGED registered, approved \subseteq approved',
         phase = "stopped" => phase' = "stopped" /\ taken' = taken,
         \A id : Reports(id)' = Reports(id)
  PROVE  Reported' /\ RegistrationsConsented'
<1>1. Reported'
  BY DEF Reported
<1>2. ASSUME NEW c \in registered PROVE (ReportedOnce(c) \/ Unreported(c))'
  <2>1. \A i \in 1 .. taken : requests'[i] = requests[i]
    BY TakenKept DEF TypeOK
  <2>2. CASE ReportedOnce(c)
    <3>1. PICK i \in Reports(c.credential_id) :
            /\ Reports(c.credential_id) = {i}
            /\ responses[i].to \in approved
            /\ requests[responses[i].to].rp = c.rp_id
      BY <2>2 DEF ReportedOnce
    <3>2. i \in DOMAIN responses /\ responses'[i] = responses[i]
      <4>1. i \in DOMAIN responses
        BY <3>1 DEF Reports
      <4>2. responses' = responses \/ \E r : responses' = Append(responses, r)
        BY QueueEffect, EndsFacts DEF Waits, Skips, Asks, Breaks
      <4> QED
        BY <4>1, <4>2 DEF TypeOK
    <3>3. responses[i].to \in 1 .. taken
      BY <3>2 DEF Addressed
    <3> QED
      BY <2>1, <3>1, <3>2, <3>3 DEF ReportedOnce
  <2>3. CASE Unreported(c)
    <3>1. taken \in 1 .. taken
      BY <2>3 DEF Unreported, TypeOK
    <3> QED
      BY <2>1, <2>3, <3>1 DEF Unreported
  <2> QED
    BY <2>2, <2>3, ConsentedSays DEF EachConsented
<1>3. EachConsented'
  BY <1>2 DEF EachConsented
<1> QED
  BY <1>1, <1>3, ConsentedSaysNext

\* A registration has no report yet.  If it gets one, it is the only one.
LEMMA CreatesConsented ==
  ASSUME TypeOK, Prompting, Addressed, Reported, RegistrationsConsented, Effect,
         Proofs!CInv, Creates
  PROVE  Reported' /\ RegistrationsConsented'
<1>1. PICK rp \in Rps : rp = Asked.rp
  BY DEF Creates
<1>2. PICK c : /\ registered' = registered \cup {c}
               /\ c.rp_id = rp /\ c.credential_id = reply'.handle
               /\ \A d \in registered : d.credential_id # c.credential_id
  <2>1. Service!Register(rp)
    BY <1>1 DEF Creates
  <2> QED
    BY <2>1, ServiceRegister
<1>3. PICK h : h = reply'.handle
  OBVIOUS
<1>4. /\ phase = "prompting" /\ requests' = requests /\ taken' = taken
      /\ taken \in 1 .. Len(requests)
      /\ taken \in approved' /\ approved \subseteq approved'
      /\ IsMake(requests[taken]) /\ requests[taken].rp = rp
      /\ Ends("OK", {h})
  BY <1>1, <1>3 DEF Creates, Ends, Agrees, Asked, Prompting, TypeOK
<1>5. Reports(h) = {}
  BY <1>2, <1>3 DEF Reported
<1>6. \A d \in registered : ReportedOnce(d)
  BY <1>4, ConsentedSays DEF EachConsented, Unreported
<1>7. CASE phase' = "stopped" /\ responses' = responses
  <2>1. \A id : Reports(id)' = Reports(id)
    BY <1>7, ReportsGrow
  <2>2. Reported'
    BY <1>2, <2>1 DEF Reported
  <2>3. \A d \in registered : ReportedOnce(d)'
    BY <1>4, <1>6, <1>7, <2>1 DEF ReportedOnce
  <2>4. Unreported(c)'
    BY <1>2, <1>3, <1>4, <1>5, <1>7, <2>1 DEF Unreported
  <2>5. EachConsented'
    BY <1>2, <2>3, <2>4 DEF EachConsented
  <2> QED
    BY <2>2, <2>5, ConsentedSaysNext
<1>8. ASSUME phase' = "reading",
             NEW r, r.to = taken' /\ r.credential = {h} /\ responses' = Append(responses, r)
      PROVE  Reported' /\ RegistrationsConsented'
  <2>1. PICK n \in Nat : n = Len(responses)
    BY DEF TypeOK
  <2>2. /\ DOMAIN responses = 1 .. n /\ DOMAIN responses' = 1 .. n + 1
        /\ \A i \in 1 .. n : responses'[i] = responses[i]
        /\ responses'[n + 1] = r
    BY <1>8, <2>1 DEF TypeOK
  <2>3. \A id : Reports(id)' = IF id = h THEN Reports(id) \cup {n + 1} ELSE Reports(id)
    BY <1>4, <1>8, <2>1, ReportsGrow
  <2>4. Reported'
    BY <1>2, <1>3, <2>3 DEF Reported
  <2>5. ASSUME NEW d \in registered PROVE ReportedOnce(d)'
    <3>1. Reports(d.credential_id)' = Reports(d.credential_id)
      BY <1>2, <1>3, <2>3
    <3>2. Reports(d.credential_id) \subseteq 1 .. n
      BY <2>2 DEF Reports
    <3>3. ReportedOnce(d)
      BY <1>6
    <3> QED
      BY <1>4, <2>2, <3>1, <3>2, <3>3 DEF ReportedOnce
  <2>6. Reports(c.credential_id)' = {n + 1}
    BY <1>2, <1>3, <1>5, <2>3
  <2>7. ReportedOnce(c)'
    BY <1>2, <1>4, <1>8, <2>2, <2>6 DEF ReportedOnce
  <2>8. EachConsented'
    BY <1>2, <2>5, <2>7 DEF EachConsented
  <2> QED
    BY <2>4, <2>8, ConsentedSaysNext
<1> QED
  BY <1>4, <1>7, <1>8, EndsFacts

\* Every step keeps the registrations consented.
LEMMA NextConsented ==
  ASSUME TypeOK, Prompting, Addressed, Reported, RegistrationsConsented, Effect,
         Proofs!CInv
  PROVE  Reported' /\ RegistrationsConsented'
<1>1. ASSUME UNCHANGED <<serviceVars, responses, approved>>,
             phase = "stopped" => phase' = "stopped" /\ taken' = taken
      PROVE  Reported' /\ RegistrationsConsented'
  BY <1>1, ReportsGrow, QuietConsented DEF serviceVars
<1>2. ASSUME NEW status, NEW ids, Ends(status, ids), UNCHANGED registered,
             approved \subseteq approved',
             ids = {} \/ ~IsMake(requests[taken'])
      PROVE  Reported' /\ RegistrationsConsented'
  <2>1. phase # "stopped" /\ requests' = requests
    BY <1>2, EndsFacts
  <2>2. CASE responses' = responses
    BY <1>2, <2>1, <2>2, ReportsGrow, QuietConsented
  <2>3. ASSUME NEW r, r.to = taken', r.credential = ids, responses' = Append(responses, r)
        PROVE  Reported' /\ RegistrationsConsented'
    <3>1. \A id : ~(r.credential = {id} /\ IsMake(requests'[r.to]))
      BY <1>2, <2>1, <2>3
    <3>2. \A id : Reports(id)' = Reports(id)
      BY <2>3, <3>1, ReportsGrow
    <3> QED
      BY <1>2, <2>1, <3>2, QuietConsented
  <2> QED
    BY <1>2, <2>2, <2>3, EndsFacts
<1>3. ASSUME Waits \/ Skips \/ Asks \/ Breaks PROVE Reported' /\ RegistrationsConsented'
  BY <1>1, <1>3 DEF Waits, Skips, Asks, Breaks
<1>4. ASSUME NEW status, Declines(status) \/ AgreesInVain(status)
      PROVE  Reported' /\ RegistrationsConsented'
  BY <1>2, <1>4 DEF Declines, AgreesInVain, Agrees, NothingDone
<1>5. ASSUME NEW rp \in Rps, NEW hash \in Hashes, NEW up \in BOOLEAN, NEW allow,
             Asserts(rp, hash, allow, up)
      PROVE  Reported' /\ RegistrationsConsented'
  <2>1. PICK ids : ids = {asserted'[Len(asserted')].credential_id}
    OBVIOUS
  <2>2. Ends("OK", ids) /\ IsAssert(requests[taken']) /\ approved \subseteq approved'
    BY <1>5, <2>1 DEF Asserts, Agrees
  <2>3. ~IsMake(requests[taken'])
    BY <2>2, EndsFacts, Kinds DEF TypeOK
  <2>4. UNCHANGED registered
    BY <1>5, ServiceAssertion DEF Asserts
  <2> QED
    BY <1>2, <2>2, <2>3, <2>4
<1> QED
  BY <1>3, <1>4, <1>5, CreatesConsented DEF Effect

\* No step makes a credential for the probe.
LEMMA NextProbe ==
  ASSUME TypeOK, ProbeRetainsNothing, Effect, Proofs!CInv
  PROVE  ProbeRetainsNothing'
<1>1. ASSUME UNCHANGED registered PROVE ProbeRetainsNothing'
  BY <1>1 DEF ProbeRetainsNothing
<1>2. ASSUME Creates PROVE ProbeRetainsNothing'
  <2>1. PICK rp \in Rps \ {FirefoxRp} : rp = Asked.rp
    BY <1>2 DEF Creates
  <2>2. Service!Register(rp)
    BY <1>2, <2>1 DEF Creates
  <2> QED
    BY <2>1, <2>2, ServiceRegister DEF ProbeRetainsNothing
<1>3. ASSUME NEW rp \in Rps, NEW hash \in Hashes, NEW up \in BOOLEAN, NEW allow,
             Asserts(rp, hash, allow, up)
      PROVE  ProbeRetainsNothing'
  BY <1>1, <1>3, ServiceAssertion DEF Asserts
<1> QED
  BY <1>1, <1>2, <1>3
     DEF Effect, Waits, Skips, Asks, Breaks, Declines, AgreesInVain, NothingDone,
         serviceVars

-----------------------------------------------------------------------------
(***************************************************************************)
(* Claims of presence and yeses, counted.                                  *)
(***************************************************************************)

\* The assertions that claim presence, and the requests for one that the user
\* agreed to.
Claims   == {i \in DOMAIN asserted : asserted[i].data.user_present}
Deserved == {i \in approved : IsAssert(requests[i])}

\* The answers among the lines that are yes.
YesLines == {i \in DOMAIN typed : typed[i] = "y"}

\* All of them are finitely many.
LEMMA CountsFinite ==
  ASSUME TypeOK
  PROVE  /\ IsFiniteSet(Claims) /\ Cardinality(Claims) \in Nat
         /\ IsFiniteSet(Deserved) /\ Cardinality(Deserved) \in Nat
         /\ IsFiniteSet(YesLines) /\ Cardinality(YesLines) \in Nat
<1>1. Claims \subseteq 1 .. Len(asserted) /\ Len(asserted) \in Nat
  BY DEF TypeOK, Service!TypeOK, Claims
<1>2. Deserved \subseteq 1 .. taken /\ taken \in Nat
  <2>1. Deserved \subseteq approved
    BY DEF Deserved
  <2> QED
    BY <2>1 DEF TypeOK
<1>3. YesLines \subseteq 1 .. Len(typed) /\ Len(typed) \in Nat
  BY DEF TypeOK, YesLines
<1>4. \A n \in Nat : IsFiniteSet(1 .. n)
  BY FS_Interval
<1>5. IsFiniteSet(Claims) /\ IsFiniteSet(Deserved) /\ IsFiniteSet(YesLines)
  BY <1>1, <1>2, <1>3, <1>4, FS_Subset
<1> QED
  BY <1>5, FS_CardinalityType

\* An assertion adds one claim if it makes it.
LEMMA ClaimAdded ==
  ASSUME TypeOK, NEW a \in Service!Assertion, asserted' = Append(asserted, a)
  PROVE  Cardinality(Claims)' =
           IF a.data.user_present THEN Cardinality(Claims) + 1 ELSE Cardinality(Claims)
<1>1. asserted \in Seq(Service!Assertion)
  BY DEF TypeOK, Service!TypeOK
<1>2. PICK n \in Nat : n = Len(asserted)
  BY <1>1
<1>3. /\ DOMAIN asserted = 1 .. n /\ DOMAIN asserted' = 1 .. n + 1
      /\ \A i \in 1 .. n : asserted'[i] = asserted[i]
      /\ asserted'[n + 1] = a
  BY <1>1, <1>2, AppendFacts
<1>4. Claims' = IF a.data.user_present THEN Claims \cup {n + 1} ELSE Claims
  BY <1>3 DEF Claims
<1>5. n + 1 \notin Claims
  BY <1>3 DEF Claims
<1> QED
  BY <1>4, <1>5, CountsFinite, FS_AddElement

\* An agreement adds the request if it is for an assertion.
LEMMA DeservedAdded ==
  ASSUME TypeOK, Prompting, Effect, Agrees, taken' = taken
  PROVE  Cardinality(Deserved)' =
           IF IsAssert(Asked) THEN Cardinality(Deserved) + 1 ELSE Cardinality(Deserved)
<1>1. \A i \in approved \cup {taken} : requests'[i] = requests[i]
  BY TakenKept DEF TypeOK, Prompting, Agrees
<1>2. Deserved' = IF IsAssert(Asked) THEN Deserved \cup {taken} ELSE Deserved
  BY <1>1 DEF Agrees, Deserved, Asked, IsAssert
<1>3. taken \notin Deserved
  BY DEF Agrees, Prompting, Deserved
<1> QED
  BY <1>2, <1>3, CountsFinite, FS_AddElement

\* Otherwise nothing changes: the requests stay what they were.
LEMMA DeservedKept ==
  ASSUME TypeOK, Prompting, Effect, UNCHANGED approved
  PROVE  Deserved' = Deserved
<1>1. \A i \in approved : requests'[i] = requests[i]
  BY TakenKept DEF TypeOK
<1> QED
  BY <1>1 DEF Deserved, IsAssert

\* A yes that is typed is one more.
LEMMA YesTyped ==
  ASSUME TypeOK, NEW line \in {"y", "n", "?"}, typed' = Append(typed, line)
  PROVE  Cardinality(YesLines)' =
           IF line = "y" THEN Cardinality(YesLines) + 1 ELSE Cardinality(YesLines)
<1>1. typed \in Seq({"y", "n", "?"})
  BY DEF TypeOK
<1>2. PICK n \in Nat : n = Len(typed)
  BY <1>1
<1>3. /\ DOMAIN typed = 1 .. n /\ DOMAIN typed' = 1 .. n + 1
      /\ \A i \in 1 .. n : typed'[i] = typed[i]
      /\ typed'[n + 1] = line
  BY <1>1, <1>2, AppendFacts
<1>4. YesLines' = IF line = "y" THEN YesLines \cup {n + 1} ELSE YesLines
  BY <1>3 DEF YesLines
<1>5. n + 1 \notin YesLines
  BY <1>3 DEF YesLines
<1> QED
  BY <1>4, <1>5, CountsFinite, FS_AddElement

\* A line that is read takes its yes with it, and moves the others up.
LEMMA LineTaken ==
  ASSUME TypeOK, typed # <<>>, typed' = Tail(typed)
  PROVE  Cardinality(YesLines)' =
           IF Head(typed) = "y" THEN Cardinality(YesLines) - 1 ELSE Cardinality(YesLines)
<1>1. typed \in Seq({"y", "n", "?"})
  BY DEF TypeOK
<1>2. PICK n \in Nat \ {0} : n = Len(typed)
  BY <1>1, TailFacts
<1>3. /\ DOMAIN typed = 1 .. n /\ DOMAIN typed' = 1 .. n - 1
      /\ \A i \in 1 .. n - 1 : typed'[i] = typed[i + 1]
      /\ Head(typed) = typed[1]
  BY <1>1, <1>2, TailFacts
<1> DEFINE Behind == YesLines \ {1}
           shift == [i \in Behind |-> i - 1]
<1>4. Behind \subseteq 2 .. n
  BY <1>3 DEF YesLines
<1>5. YesLines' = {i - 1 : i \in Behind}
  <2>1. \A i \in YesLines' : i + 1 \in Behind /\ i = (i + 1) - 1
    BY <1>3 DEF YesLines
  <2>2. \A i \in Behind : i - 1 \in YesLines'
    BY <1>3 DEF YesLines
  <2> QED
    BY <2>1, <2>2
<1>6. shift \in Bijection(Behind, YesLines')
  <2>1. shift \in [Behind -> YesLines']
    BY <1>5
  <2>2. \A i, j \in Behind : shift[i] = shift[j] => i = j
    BY <1>4
  <2>3. \A k \in YesLines' : \E i \in Behind : shift[i] = k
    BY <1>5
  <2> QED
    BY <2>1, <2>2, <2>3 DEF Bijection, Injection, Surjection, IsInjective
<1>7. IsFiniteSet(Behind) /\ Cardinality(Behind) =
        IF 1 \in YesLines THEN Cardinality(YesLines) - 1 ELSE Cardinality(YesLines)
  BY CountsFinite, FS_RemoveElement
<1>8. Cardinality(YesLines') = Cardinality(Behind)
  BY <1>6, <1>7, FS_Bijection DEF ExistsBijection
<1>9. 1 \in YesLines <=> Head(typed) = "y"
  BY <1>2, <1>3 DEF YesLines
<1> QED
  BY <1>7, <1>8, <1>9

-----------------------------------------------------------------------------
(***************************************************************************)
(* Presence, and the promise to the user.                                  *)
(***************************************************************************)

\* PresenceProven in these terms.
LEMMA PresenceSays ==
  PresenceProven <=>
    \/ Cardinality(Claims) = Cardinality(Deserved)
    \/ phase = "stopped" /\ Cardinality(Claims) + 1 = Cardinality(Deserved)
  BY DEF PresenceProven, Claims, Deserved

\* What an assertion and what an agreement add to the two counts.
LEMMA AssertsCounts ==
  ASSUME TypeOK, Prompting, Effect, Proofs!CInv,
         NEW rp \in Rps, NEW hash \in Hashes, NEW up \in BOOLEAN, NEW allow,
         Asserts(rp, hash, allow, up)
  PROVE  /\ UNCHANGED registered
         /\ Cardinality(Claims)' = IF up THEN Cardinality(Claims) + 1
                                         ELSE Cardinality(Claims)
         /\ Cardinality(Deserved)' = IF up THEN Cardinality(Deserved) + 1
                                           ELSE Cardinality(Deserved)
<1>1. PICK a \in Service!Assertion :
        asserted' = Append(asserted, a) /\ a.data.user_present = up
  BY ServiceAssertion DEF Asserts
<1>2. UNCHANGED registered
  BY ServiceAssertion DEF Asserts
<1>3. up = TRUE => Agrees /\ IsAssert(Asked) /\ taken' = taken
  BY DEF Asserts, Ends, Agrees
<1>4. up = FALSE => UNCHANGED approved
  BY DEF Asserts
<1> QED
  BY <1>1, <1>2, <1>3, <1>4, ClaimAdded, DeservedAdded, DeservedKept

\* Every step keeps a claim for a yes.
LEMMA NextPresence ==
  ASSUME TypeOK, Prompting, PresenceProven, Effect, Proofs!CInv
  PROVE  PresenceProven'
<1>1. PresenceProven <=>
        \/ Cardinality(Claims) = Cardinality(Deserved)
        \/ phase = "stopped" /\ Cardinality(Claims) + 1 = Cardinality(Deserved)
  BY PresenceSays
<1>2. ASSUME \/ Cardinality(Claims)' = Cardinality(Deserved)'
             \/ phase' = "stopped" /\ Cardinality(Claims)' + 1 = Cardinality(Deserved)'
      PROVE  PresenceProven'
  BY <1>2 DEF PresenceProven, Claims, Deserved
<1>3. ASSUME UNCHANGED asserted PROVE Cardinality(Claims)' = Cardinality(Claims)
  BY <1>3 DEF Claims
<1>4. ASSUME UNCHANGED <<asserted, approved>>, phase = "stopped" => phase' = "stopped"
      PROVE  PresenceProven'
  BY <1>1, <1>2, <1>3, <1>4, DeservedKept
<1>5. ASSUME Agrees, taken' = taken, UNCHANGED asserted,
             IsAssert(Asked) => phase' = "stopped"
      PROVE  PresenceProven'
  BY <1>1, <1>2, <1>3, <1>5, DeservedAdded, CountsFinite DEF Agrees
<1>6. ASSUME NEW status, Declines(status) PROVE PresenceProven'
  BY <1>4, <1>6, EndsFacts DEF Declines, NothingDone
<1>7. ASSUME NEW status, AgreesInVain(status) PROVE PresenceProven'
  BY <1>5, <1>7 DEF AgreesInVain, NothingDone, Ends, Agrees
<1>8. ASSUME Creates PROVE PresenceProven'
  <2>1. PICK rp \in Rps : rp = Asked.rp
    BY <1>8 DEF Creates
  <2>2. UNCHANGED asserted
    BY <1>8, <2>1, ServiceRegister DEF Creates
  <2>3. phase = "prompting" /\ taken' = taken /\ Agrees
    BY <1>8 DEF Creates, Ends, Agrees
  <2>4. ~IsAssert(Asked)
    BY <1>8, <2>3, Kinds DEF Creates, TypeOK, Prompting, Asked
  <2> QED
    BY <1>5, <2>2, <2>3, <2>4
<1>9. ASSUME NEW rp \in Rps, NEW hash \in Hashes, NEW up \in BOOLEAN, NEW allow,
             Asserts(rp, hash, allow, up)
      PROVE  PresenceProven'
  <2>1. phase # "stopped"
    BY <1>9, EndsFacts DEF Asserts, Ends
  <2> QED
    BY <1>1, <1>2, <1>9, <2>1, AssertsCounts
<1> QED
  BY <1>4, <1>6, <1>7, <1>8, <1>9
     DEF Effect, Waits, Skips, Asks, Breaks, serviceVars

\* The state of the promise.
Question == IF phase = "prompting" THEN taken ELSE 0
Yeses    == Cardinality(YesLines)
Proven   == Cardinality(Claims)

\* Every step is one that Consent allows.
LEMMA NextConsent ==
  ASSUME TypeOK, Prompting, Effect, Proofs!CInv
  PROVE  [UserConsent!Next]_(UserConsent!vars)
<1> DEFINE Still == UNCHANGED <<Question, Yeses, approved, registered, Proven>>
           Drops == /\ Question # 0 /\ Question' = 0
                    /\ UNCHANGED <<Yeses, approved, registered, Proven>>
<1>1. Still => UNCHANGED UserConsent!vars
  BY DEF Question, Yeses, Proven, YesLines, Claims, UserConsent!vars
<1>2. Drops => UserConsent!Drop
  BY DEF Question, Yeses, Proven, YesLines, Claims, UserConsent!Drop
<1>3. ASSUME Yeses' = Yeses + 1, UNCHANGED <<Question, approved, registered, Proven>>
      PROVE  UserConsent!SayYes
  BY <1>3 DEF Question, Yeses, Proven, YesLines, Claims, UserConsent!SayYes
<1>4. ASSUME UNCHANGED asserted PROVE UNCHANGED Proven
  BY <1>4 DEF Proven, Claims
<1>5. ASSUME NoYesRead PROVE UNCHANGED Yeses
  BY <1>5, LineTaken DEF NoYesRead, Yeses, YesLines
<1>6. ASSUME YesRead PROVE Yeses > 0 /\ Yeses' = Yeses - 1
  <2>1. Cardinality(YesLines)' = Cardinality(YesLines) - 1
    BY <1>6, LineTaken DEF YesRead
  <2>2. 1 \in YesLines
    BY <1>6, TailFacts DEF YesRead, TypeOK, YesLines
  <2>3. Cardinality(YesLines) # 0
    BY <2>2, CountsFinite, FS_EmptySet
  <2> QED
    BY <2>1, <2>3, CountsFinite DEF Yeses
<1>7. ASSUME Waits PROVE [UserConsent!Next]_(UserConsent!vars)
  <2>1. UNCHANGED <<Question, approved, registered, Proven>>
    BY <1>4, <1>7 DEF Waits, serviceVars, Question
  <2>2. CASE NoYesRead
    BY <1>1, <1>5, <2>1, <2>2
  <2>3. ASSUME NEW line \in {"y", "n", "?"}, typed' = Append(typed, line)
        PROVE  Yeses' = Yeses + 1 \/ UNCHANGED Yeses
    BY <2>3, YesTyped DEF Yeses
  <2> QED
    BY <1>1, <1>3, <1>7, <2>1, <2>2, <2>3 DEF Waits, UserConsent!Next
<1>8. ASSUME Skips \/ Breaks PROVE [UserConsent!Next]_(UserConsent!vars)
  <2>1. UNCHANGED <<Question, approved, registered, asserted>> /\ NoYesRead
    BY <1>8 DEF Skips, Breaks, serviceVars, Question, NoYesRead
  <2> QED
    BY <1>1, <1>4, <1>5, <2>1
<1>9. ASSUME Asks PROVE UserConsent!Ask
  <2>1. /\ Question = 0 /\ Question' \in Nat \ (approved \cup {0})
        /\ UNCHANGED <<approved, registered, asserted, typed>>
    BY <1>9 DEF Asks, TypeOK, serviceVars, Question
  <2> QED
    BY <2>1 DEF Question, UserConsent!Ask
<1>10. ASSUME NEW status, NEW ids, Ends(status, ids) PROVE Question' = 0
  BY <1>10, EndsFacts DEF Question
<1>11. ASSUME NEW status, Declines(status) PROVE [UserConsent!Next]_(UserConsent!vars)
  <2>1. /\ Question' = 0
        /\ UNCHANGED <<Yeses, approved, registered, Proven>>
    BY <1>4, <1>5, <1>10, <1>11 DEF Declines, NothingDone
  <2>2. CASE Question = 0
    BY <1>1, <2>1, <2>2
  <2>3. CASE Question # 0
    BY <1>2, <2>1, <2>3 DEF UserConsent!Next
  <2> QED
    BY <2>2, <2>3
<1>12. ASSUME NEW status, NEW ids, Ends(status, ids), Agrees
       PROVE  /\ Question # 0 /\ Question' = 0 /\ Yeses > 0 /\ Yeses' = Yeses - 1
              /\ approved' = approved \cup {Question}
  BY <1>6, <1>10, <1>12 DEF Agrees, Prompting, Question
<1>13. ASSUME NEW status, AgreesInVain(status) PROVE UserConsent!Grant
  <2>1. UNCHANGED <<registered, Proven>>
    BY <1>4, <1>13 DEF AgreesInVain, NothingDone
  <2> QED
    BY <1>12, <1>13, <2>1
       DEF AgreesInVain, Question, Yeses, Proven, YesLines, Claims, UserConsent!Grant
<1>14. ASSUME Creates PROVE UserConsent!Grant
  <2>1. PICK rp \in Rps : rp = Asked.rp
    BY <1>14 DEF Creates
  <2>2. /\ UNCHANGED asserted
        /\ \E c \in Service!Registration \ registered : registered' = registered \cup {c}
    BY <1>14, <2>1, ServiceRegister DEF Creates
  <2>3. PICK ids : ids = {reply'.handle}
    OBVIOUS
  <2>4. Ends("OK", ids) /\ Agrees
    BY <1>14, <2>3 DEF Creates
  <2> QED
    BY <1>4, <1>12, <2>2, <2>4
       DEF Question, Yeses, Proven, YesLines, Claims, UserConsent!Grant
<1>15. ASSUME NEW rp \in Rps, NEW hash \in Hashes, NEW up \in BOOLEAN, NEW allow,
              Asserts(rp, hash, allow, up)
       PROVE  [UserConsent!Next]_(UserConsent!vars)
  <2>1. UNCHANGED registered /\ Proven' = IF up THEN Proven + 1 ELSE Proven
    BY <1>15, AssertsCounts DEF Proven
  <2>2. PICK ids : ids = {asserted'[Len(asserted')].credential_id}
    OBVIOUS
  <2>3. Ends("OK", ids)
    BY <1>15, <2>2 DEF Asserts
  <2>4. CASE up = TRUE
    <3>1. Agrees
      BY <1>15, <2>4 DEF Asserts
    <3> QED
      BY <1>12, <2>1, <2>3, <2>4, <3>1
         DEF Question, Yeses, Proven, YesLines, Claims, UserConsent!Next,
             UserConsent!Grant
  <2>5. CASE up = FALSE
    <3>1. phase = "reading" /\ UNCHANGED <<approved, typed>>
      BY <1>15, <2>5 DEF Asserts
    <3> QED
      BY <1>1, <1>5, <1>10, <2>1, <2>3, <2>5, <3>1 DEF NoYesRead, Question
  <2> QED
    BY <2>4, <2>5
<1> QED
  BY <1>7, <1>8, <1>9, <1>11, <1>13, <1>14, <1>15 DEF Effect, UserConsent!Next

-----------------------------------------------------------------------------
(***************************************************************************)
(* The invariant.                                                          *)
(***************************************************************************)

UInv ==
  /\ Proofs!CInv
  /\ TypeOK /\ Prompting /\ Addressed
  /\ OneAnswerEach
  /\ Reported /\ RegistrationsConsented
  /\ PresenceProven
  /\ ProbeRetainsNothing

\* At first nothing was sent, asked or registered.
LEMMA InitUInv == Init => UInv
<1> SUFFICES ASSUME Init PROVE UInv
  OBVIOUS
<1>1. Proofs!CInv /\ Service!TypeOK
  BY ServiceInit, ServiceTypes DEF Init
<1>2. TypeOK /\ Prompting /\ Addressed /\ OneAnswerEach /\ Reported
  BY <1>1 DEF Init, TypeOK, Prompting, Addressed, OneAnswerEach, IsAnswered, Settled,
              Reported, Reports
<1>3. registered = {} /\ asserted = <<>>
  BY DEF Init, Service!Init
<1>4. RegistrationsConsented /\ ProbeRetainsNothing
  BY <1>3 DEF RegistrationsConsented, ProbeRetainsNothing
<1>5. Claims = {} /\ Deserved = {}
  BY <1>3 DEF Init, Claims, Deserved
<1>6. PresenceProven
  BY <1>5, PresenceSays
<1> QED
  BY <1>1, <1>2, <1>4, <1>6 DEF UInv

\* Every step keeps it.
LEMMA NextUInv == UInv /\ [Next]_vars => UInv'
<1> SUFFICES ASSUME UInv, [Next]_vars PROVE UInv'
  OBVIOUS
<1>1. Effect
  BY NextEffect DEF UInv
<1>2. Proofs!CInv' /\ TypeOK'
  BY <1>1, ServiceKept, StdinType, NextTypes DEF UInv
<1>3. Prompting' /\ Addressed' /\ OneAnswerEach'
  BY <1>1, NextPrompting, NextAddressed, NextOneAnswer DEF UInv
<1>4. Reported' /\ RegistrationsConsented'
  BY <1>1, NextConsented DEF UInv
<1>5. PresenceProven' /\ ProbeRetainsNothing'
  BY <1>1, NextPresence, NextProbe DEF UInv
<1> QED
  BY <1>2, <1>3, <1>4, <1>5 DEF UInv

\* It holds of every state.
LEMMA UInvAlways == Spec => []UInv
  BY InitUInv, NextUInv, PTL DEF Spec

\* The types hold of every state, those of the service included.
THEOREM TypeCorrect == Spec => []TypeOK
<1>1. UInv => TypeOK
  BY DEF UInv
<1> QED
  BY <1>1, UInvAlways, PTL

\* Answers come in the order of the requests, one for each that gets one, and
\* none is left out while the loop runs.
THEOREM OneAnswerEachAlways == Spec => []OneAnswerEach
<1>1. UInv => OneAnswerEach
  BY DEF UInv
<1> QED
  BY <1>1, UInvAlways, PTL

\* No credential exists that its own prompt did not agree to, and none is kept
\* back from the host but by the error that ends the loop.
THEOREM RegistrationsAlwaysConsented == Spec => []RegistrationsConsented
<1>1. UInv => RegistrationsConsented
  BY DEF UInv
<1> QED
  BY <1>1, UInvAlways, PTL

\* Every claim of presence has an agreement of its own.
THEOREM PresenceAlwaysProven == Spec => []PresenceProven
<1>1. UInv => PresenceProven
  BY DEF UInv
<1> QED
  BY <1>1, UInvAlways, PTL

\* The probe of Firefox leaves no credential behind.
THEOREM ProbeNeverRetains == Spec => []ProbeRetainsNothing
<1>1. UInv => ProbeRetainsNothing
  BY DEF UInv
<1> QED
  BY <1>1, UInvAlways, PTL

\* The credential found before a prompt is there after it.
THEOREM MatchAlwaysOutlivesPrompt == Spec => []MatchOutlivesPrompt
<1>1. UInv => MatchOutlivesPrompt
  BY DEF UInv, Prompting, Acceptable, Matches, MatchOutlivesPrompt
<1> QED
  BY <1>1, UInvAlways, PTL

\* What is promised of the service holds of the one the loop calls: the
\* requests the loop lets through keep it in its invariant.
THEOREM ServiceAlwaysKept ==
  Spec => []( /\ Service!RegistrationsUsable
              /\ Service!AssertionsVerify
              /\ Service!CountersSequential )
<1>1. UInv => /\ Service!RegistrationsUsable
              /\ Service!AssertionsVerify
              /\ Service!CountersSequential
  BY ServiceGuarantees DEF UInv
<1> QED
  BY <1>1, UInvAlways, PTL

\* The loop, its prompts and its errors keep the promise to the user.
THEOREM LoopImplementsConsent == Spec => ImplementsConsent
<1>1. Init => UserConsent!Init
  <2> SUFFICES ASSUME Init PROVE UserConsent!Init
    OBVIOUS
  <2>1. {i \in DOMAIN typed : typed[i] = "y"} = {}
    BY DEF Init
  <2>2. {i \in DOMAIN asserted : asserted[i].data.user_present} = {}
    BY DEF Init, Service!Init
  <2> QED
    BY <2>1, <2>2, FS_EmptySet DEF Init, Service!Init, UserConsent!Init
<1>2. UInv /\ [Next]_vars => [UserConsent!Next]_(UserConsent!vars)
  BY NextEffect, NextConsent DEF UInv
<1> QED
  BY <1>1, <1>2, UInvAlways, PTL DEF Spec, ImplementsConsent, UserConsent!Spec

=============================================================================
