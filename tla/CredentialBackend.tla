------------------------- MODULE CredentialBackend -------------------------
(***************************************************************************)
(* What the trait CredentialBackend of src/backend/mod.rs promises to the  *)
(* authenticator service: a map from handles to keys.  A created handle is *)
(* one that no key has, a signature is made with the key of the handle it  *)
(* was asked for, and an operation that fails leaves the map alone.        *)
(*                                                                         *)
(* LocalBackend and FrostBackend implement it.  Authenticator calls it.    *)
(* Cryptography is symbolic: a public key is the name of its key, and a    *)
(* signature names the key and the message it verifies for.                *)
(***************************************************************************)
EXTENDS HashMap

CONSTANTS
  Rps,       \* relying party identifiers
  EmptyRp,   \* the empty identifier, which create_credential refuses
  Handles,   \* credential handles
  Keys,      \* key pairs
  Payloads   \* what can be signed

ASSUME RpAssumption == EmptyRp \in Rps

VARIABLES
  keys,   \* the key of each handle
  reply   \* what the last call returned

backendVars == <<keys, reply>>

\* The results: CreatedCredential, a signature, unit, and BackendError.
Created(h, k)   == [handle |-> h, public_key |-> k]
Signature(k, m) == [key |-> k, message |-> m]
Done            == [done |-> TRUE]
Failure(e)      == [error |-> e]

Created_   == [handle : Handles, public_key : Keys]
Signature_ == [key : Keys, message : Payloads]
Failure_   == [error : {"InvalidInput", "CredentialNotFound", "Internal"}]

BackendTypeOK ==
  /\ DOMAIN keys \subseteq Handles
  /\ \A h \in DOMAIN keys : keys[h] \in Keys
  /\ reply \in Created_ \cup Signature_ \cup Failure_ \cup {Done}

BackendInit == keys = EmptyMap /\ reply = Done

-----------------------------------------------------------------------------

\* Seeded fault: the handle is not drawn again when a key has it.
CreateAnyHandle(rp) ==
  /\ rp # EmptyRp
  /\ \E h \in Handles, k \in Keys :
       /\ keys' = Put(keys, h, k)
       /\ reply' = Created(h, k)

\* create_credential: a new key under a handle no key has.
Create(rp) ==
  /\ rp # EmptyRp
  /\ \E h \in Handles \ DOMAIN keys, k \in Keys :
       /\ keys' = Put(keys, h, k)
       /\ reply' = Created(h, k)

\* The empty identifier is refused; a ceremony can also fail on its own.
CreateFails(rp) ==
  /\ reply' = Failure(IF rp = EmptyRp THEN "InvalidInput" ELSE "Internal")
  /\ UNCHANGED keys

\* sign
Sign(h, m) ==
  /\ h \in DOMAIN keys
  /\ reply' = Signature(keys[h], m)
  /\ UNCHANGED keys

SignFails(h, m) ==
  /\ reply' = Failure(IF h \in DOMAIN keys THEN "Internal"
                                           ELSE "CredentialNotFound")
  /\ UNCHANGED keys

\* delete_credential: the service never calls it.
Delete(h) ==
  /\ h \in DOMAIN keys
  /\ keys' = Remove(keys, h)
  /\ reply' = Done

DeleteFails(h) ==
  /\ h \notin DOMAIN keys
  /\ reply' = Failure("CredentialNotFound")
  /\ UNCHANGED keys

BackendNext ==
  \/ \E rp \in Rps : Create(rp) \/ CreateFails(rp)
  \/ \E h \in Handles :
       \/ \E m \in Payloads : Sign(h, m) \/ SignFails(h, m)
       \/ Delete(h)
       \/ DeleteFails(h)

BackendSpec == BackendInit /\ [][BackendNext]_backendVars

=============================================================================
