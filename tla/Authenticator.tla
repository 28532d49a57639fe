--------------------------- MODULE Authenticator ---------------------------
(***************************************************************************)
(* AuthenticatorService of src/authenticator.rs: the metadata of the       *)
(* credentials, over any backend that keeps the promise of                 *)
(* CredentialBackend.  register and assert take &mut self, so each call is *)
(* one step, with the call to the backend inside it.                       *)
(***************************************************************************)
EXTENDS CredentialBackend, Naturals, Sequences, FiniteSets

CONSTANTS
  Hashes,          \* client data hashes
  MaxCount,        \* u32::MAX, where the signature counter saturates
  MaxAllowed,      \* longest allow list of a request (bounds the model)
  MaxAssertions    \* how many assertions are made (bounds the model)

ASSUME CountAssumption ==
  /\ MaxCount \in Nat \ {0}
  /\ MaxAllowed \in Nat
  /\ MaxAssertions \in Nat

\* authenticator_data followed by the hash: the bytes that are signed.
SignedData == [rp_id : Rps, user_present : BOOLEAN, sign_count : 0 .. MaxCount,
               client_data_hash : Hashes]

ASSUME PayloadAssumption == SignedData \subseteq Payloads

VARIABLES
  credentials,   \* the record of each credential, by credential id
  registered,    \* history: what register returned, with its rp_id
  asserted       \* history: what assert returned, with what it signed

serviceVars == <<credentials, registered, asserted>>
vars == <<keys, reply, credentials, registered, asserted>>

\* A credential id is the bytes of a handle.
CredentialRecord ==
  [rp_id : Rps, backend_handle : Handles, sign_count : 0 .. MaxCount]

Registration == [rp_id : Rps, credential_id : Handles, public_key : Keys]

Assertion == [credential_id : Handles, data : SignedData, signature : Signature_]

AllowLists == UNION {[1 .. n -> Handles] : n \in 0 .. MaxAllowed}

TypeOK ==
  /\ BackendTypeOK
  /\ DOMAIN credentials \subseteq Handles
  /\ \A id \in DOMAIN credentials : credentials[id] \in CredentialRecord
  /\ registered \subseteq Registration
  /\ asserted \in Seq(Assertion)

Init ==
  /\ BackendInit
  /\ credentials = EmptyMap
  /\ registered = {}
  /\ asserted = <<>>

-----------------------------------------------------------------------------

\* register: the record goes in after the backend has made the key.
Register(rp) ==
  /\ Create(rp)
  /\ credentials' = Put(credentials, reply'.handle,
                        [rp_id |-> rp, backend_handle |-> reply'.handle,
                         sign_count |-> 0])
  /\ registered' = registered \cup
       {[rp_id |-> rp, credential_id |-> reply'.handle,
         public_key |-> reply'.public_key]}
  /\ UNCHANGED asserted

\* `?` returns the error of the backend before anything is recorded.
RegisterFails(rp) ==
  /\ CreateFails(rp)
  /\ UNCHANGED serviceVars

-----------------------------------------------------------------------------

\* Seeded fault: the relying party of the credential is not compared.
MatchingAnyRp(rp, allow) ==
  {i \in DOMAIN allow : allow[i] \in DOMAIN credentials}

\* The entries of an allow list that name a credential of the relying party.
Matching(rp, allow) ==
  {i \in DOMAIN allow : /\ allow[i] \in DOMAIN credentials
                        /\ credentials[allow[i]].rp_id = rp}

HasMatchingCredential(rp, allow) == Matching(rp, allow) # {}

\* select_credential: the first of them.
Selects(rp, allow, id) ==
  \E i \in Matching(rp, allow) :
    /\ \A j \in Matching(rp, allow) : i <= j
    /\ id = allow[i]

\* Seeded fault: a plain addition.
NextCountUnchecked(id) == credentials[id].sign_count + 1

\* saturating_add(1)
NextCount(id) ==
  LET n == credentials[id].sign_count
  IN  IF n < MaxCount THEN n + 1 ELSE n

AssertionData(rp, hash, up, id) ==
  [rp_id |-> rp, user_present |-> up, sign_count |-> NextCount(id),
   client_data_hash |-> hash]

\* The counter moves on.
Counted(id) ==
  credentials' = [credentials EXCEPT ![id].sign_count = NextCount(id)]

\* assert: the counter is written once the backend has signed.
MakeAssertion(rp, hash, allow, up) ==
  \E id \in Handles :
    /\ Selects(rp, allow, id)
    /\ Sign(credentials[id].backend_handle, AssertionData(rp, hash, up, id))
    /\ Counted(id)
    /\ asserted' = Append(asserted,
                          [credential_id |-> id,
                           data |-> AssertionData(rp, hash, up, id),
                           signature |-> reply'])
    /\ UNCHANGED registered

\* Seeded fault: the counter is written before the backend is asked.
AssertionFailsCounted(rp, hash, allow, up) ==
  \E id \in Handles :
    /\ Selects(rp, allow, id)
    /\ SignFails(credentials[id].backend_handle,
                 AssertionData(rp, hash, up, id))
    /\ Counted(id)
    /\ UNCHANGED <<registered, asserted>>

\* `?` returns the error of the backend before the counter is written.
AssertionFails(rp, hash, allow, up) ==
  \E id \in Handles :
    /\ Selects(rp, allow, id)
    /\ SignFails(credentials[id].backend_handle,
                 AssertionData(rp, hash, up, id))
    /\ UNCHANGED serviceVars

\* AuthenticatorError::NoCredentials: the backend is not asked.
NoCredentials(rp, allow) ==
  /\ ~HasMatchingCredential(rp, allow)
  /\ UNCHANGED vars

Next ==
  \/ \E rp \in Rps : Register(rp) \/ RegisterFails(rp)
  \/ \E rp \in Rps, allow \in AllowLists :
       \/ \E hash \in Hashes, up \in BOOLEAN :
            \/ /\ Len(asserted) < MaxAssertions
               /\ MakeAssertion(rp, hash, allow, up)
            \/ AssertionFails(rp, hash, allow, up)
       \/ NoCredentials(rp, allow)

Spec == Init /\ [][Next]_vars

-----------------------------------------------------------------------------
(***************************************************************************)
(* Properties.                                                             *)
(***************************************************************************)

\* Every registration that was ever returned stays usable: its record is for
\* its relying party, and the backend still holds the key whose public half
\* the relying party was given.  No later registration takes its handle.
RegistrationsUsable ==
  \A r \in registered :
    /\ r.credential_id \in DOMAIN credentials
    /\ LET record == credentials[r.credential_id]
       IN  /\ record.rp_id = r.rp_id
           /\ record.backend_handle \in DOMAIN keys
           /\ keys[record.backend_handle] = r.public_key

\* An assertion is worth something to the relying party it names and to no
\* other: it was signed, over exactly the data it comes with, by the key that
\* was registered under its credential id for that relying party.
AssertionsVerify ==
  \A i \in DOMAIN asserted :
    LET a == asserted[i]
    IN  /\ \E r \in registered : r.credential_id = a.credential_id
        /\ \A r \in registered :
             r.credential_id = a.credential_id =>
               /\ r.rp_id = a.data.rp_id
               /\ a.signature = Signature(r.public_key, a.data)

\* The assertions of one credential among the first i of a log.
UsesUpTo(log, id, i) == {j \in 1 .. i : log[j].credential_id = id}

\* The n-th assertion of a credential carries the counter n, whatever failed
\* in between and whatever other credentials signed, until the counter is
\* stuck at its largest value.
CountersSequential ==
  \A i \in DOMAIN asserted :
    LET n == Cardinality(UsesUpTo(asserted, asserted[i].credential_id, i))
    IN  asserted[i].data.sign_count = IF n <= MaxCount THEN n ELSE MaxCount

=============================================================================
