---------------------------- MODULE LocalBackend ----------------------------
(***************************************************************************)
(* LocalEd25519Backend of src/backend/local_ed25519.rs: one signing key    *)
(* per handle, held in the process.                                        *)
(***************************************************************************)
EXTENDS HashMap

CONSTANTS Rps, EmptyRp, Handles, Keys, Payloads   \* as in CredentialBackend

VARIABLES
  keys,   \* the signing key of each handle
  reply   \* what the last call returned

vars == <<keys, reply>>

Init == keys = EmptyMap /\ reply = [done |-> TRUE]

\* Seeded fault: the first handle that is drawn is taken.
AnyDraw(h) == TRUE

\* Random bytes are drawn until they are not a handle in use.
Drawn(h) == h \notin DOMAIN keys

CreateCredential(rp) ==
  \/ /\ rp = EmptyRp
     /\ reply' = [error |-> "InvalidInput"]
     /\ UNCHANGED keys
  \/ /\ rp # EmptyRp
     /\ \E h \in Handles, signing_key \in Keys :
          /\ Drawn(h)
          /\ keys' = Put(keys, h, signing_key)
          /\ reply' = [handle |-> h, public_key |-> signing_key]

Sign(h, m) ==
  /\ reply' = IF h \in DOMAIN keys THEN [key |-> keys[h], message |-> m]
                                   ELSE [error |-> "CredentialNotFound"]
  /\ UNCHANGED keys

DeleteCredential(h) ==
  /\ reply' = IF h \in DOMAIN keys THEN [done |-> TRUE]
                                   ELSE [error |-> "CredentialNotFound"]
  /\ keys' = Remove(keys, h)

Next ==
  \/ \E rp \in Rps : CreateCredential(rp)
  \/ \E h \in Handles : (\E m \in Payloads : Sign(h, m)) \/ DeleteCredential(h)

Spec == Init /\ [][Next]_vars

-----------------------------------------------------------------------------

Contract == INSTANCE CredentialBackend

\* The backend keeps every promise of the trait: a created handle is fresh, a
\* signature is made with the key of its handle, a deleted or unknown handle
\* signs nothing, and a failed call changes nothing.
ImplementsCredentialBackend == Contract!BackendSpec

=============================================================================
