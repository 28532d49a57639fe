---------------------------- MODULE FrostBackend ----------------------------
(***************************************************************************)
(* FrostBackend of src/backend/frost.rs: credentials whose key is shared   *)
(* among three participants, two of which sign.  Which participants are    *)
(* available may change between any two calls; key generation involves all *)
(* three whatever their availability.                                      *)
(***************************************************************************)
EXTENDS FrostDkg, Sequences, HashMap

CONSTANTS
  Rps, EmptyRp, Handles, Payloads,   \* as in CredentialBackend
  Polynomials,                       \* what a participant may draw in part1
  NonceDraws,                        \* what a signer may draw in commit
  Hashings                           \* what the hashes of a signature may be

ASSUME DrawAssumption ==
  /\ Polynomials \subseteq Polynomial
  /\ NonceDraws \subseteq Nonces /\ NonceDraws # {}
  /\ Hashings \subseteq Hashing /\ Hashings # {}

VARIABLES
  credentials,             \* the shares and the public key of each handle
  preferred_signers,       \* the pair of the normal signing path
  participant_available,   \* which participants can sign now
  reply                    \* what the last call returned

vars == <<credentials, preferred_signers, participant_available, reply>>

\* validate_signers
ValidSigners == {pair \in Participants \X Participants : pair[1] # pair[2]}

Init ==
  /\ credentials = EmptyMap
  /\ preferred_signers \in ValidSigners
  /\ participant_available = [i \in Participants |-> TRUE]
  /\ reply = [done |-> TRUE]

-----------------------------------------------------------------------------

SetParticipantAvailable(i, available) ==
  /\ participant_available' = [participant_available EXCEPT ![i] = available]
  /\ UNCHANGED <<credentials, preferred_signers, reply>>

CanSign(pair) ==
  participant_available[pair[1]] /\ participant_available[pair[2]]

\* Seeded fault: the pair of the two backup paths is missing one.
CandidatesShort == <<preferred_signers, <<1, 2>>, <<1, 3>>>>

Candidates == <<preferred_signers, <<1, 2>>, <<1, 3>>, <<2, 3>>>>

\* selected_signers: the first candidate that can sign, if there is one.
Selectable == {n \in 1 .. Len(Candidates) : CanSign(Candidates[n])}

Selected == Candidates[CHOOSE n \in Selectable : \A k \in Selectable : n <= k]

\* Seeded fault: the first handle that is drawn is taken.
AnyDraw(h) == TRUE

\* Random bytes are drawn until they are not a handle in use.
Drawn(h) == h \notin DOMAIN credentials

\* create_credential
CreateCredential(rp) ==
  \/ /\ rp = EmptyRp
     /\ reply' = [error |-> "InvalidInput"]
     /\ UNCHANGED credentials
  \/ /\ rp # EmptyRp
     /\ \E polys \in [Participants -> Polynomials] :
          IF CeremonySucceeds(polys)
          THEN \E h \in Handles :
                 /\ Drawn(h)
                 /\ credentials' = Put(credentials, h, FrostCredential(polys))
                 /\ reply' = [handle |-> h,
                              public_key |-> PublicPackage(polys, 1)]
          ELSE reply' = [error |-> "Internal"] /\ UNCHANGED credentials

\* What sign may return, over everything that may be drawn.
SignReplies(h, m) ==
  IF h \notin DOMAIN credentials THEN {[error |-> "CredentialNotFound"]}
  ELSE IF Selectable = {}        THEN {[error |-> "Internal"]}
  ELSE {SignWith(credentials[h], Selected, m, nonces, hash) :
          nonces \in [Participants -> NonceDraws], hash \in Hashings}

Sign(h, m) == reply' \in SignReplies(h, m) /\ UNCHANGED credentials

DeleteCredential(h) ==
  /\ reply' = IF h \in DOMAIN credentials THEN [done |-> TRUE]
                                          ELSE [error |-> "CredentialNotFound"]
  /\ credentials' = Remove(credentials, h)

Next ==
  \/ /\ \/ \E rp \in Rps : CreateCredential(rp)
        \/ \E h \in Handles : (\E m \in Payloads : Sign(h, m)) \/ DeleteCredential(h)
     /\ UNCHANGED <<preferred_signers, participant_available>>
  \/ \E i \in Participants, available \in BOOLEAN :
       SetParticipantAvailable(i, available)

Spec == Init /\ [][Next]_vars

-----------------------------------------------------------------------------
(***************************************************************************)
(* Properties.                                                             *)
(***************************************************************************)

Available == {i \in Participants : participant_available[i]}

\* Every package reaches the participant it is for: whatever polynomials are
\* drawn, all three finish the ceremony and derive the same group key, so the
\* error paths of generate_credential are never taken.
CeremonyAgrees ==
  [][\A rp \in Rps \ {EmptyRp} :
       CreateCredential(rp) => "public_key" \in DOMAIN reply']_vars

\* "Signing automatically selects another valid pair when at least two
\* participants remain": and only then, two different available ones, and the
\* preferred ones whenever they can.
QuorumSelects ==
  /\ (Selectable # {}) <=> (Cardinality(Available) >= 2)
  /\ Selectable # {} =>
       /\ Selected \in ValidSigners
       /\ Selected[1] \in Available /\ Selected[2] \in Available
       /\ CanSign(preferred_signers) => Selected = preferred_signers

\* Whoever has become unavailable since the credential was made, two that
\* remain sign, under the public key that was given out, whatever nonces they
\* draw and whatever the challenge is.
QuorumSigns ==
  Cardinality(Available) >= 2 =>
    \A h \in DOMAIN credentials, m \in Payloads :
      SignReplies(h, m) =
        {[key |-> credentials[h].public_key_package, message |-> m]}

\* The backend keeps every promise of the trait, with the shares and the
\* participants hidden.
Contract == INSTANCE CredentialBackend
  WITH Keys <- Scalar,
       keys <- [h \in DOMAIN credentials |-> credentials[h].public_key_package]

ImplementsCredentialBackend == Contract!BackendSpec

=============================================================================
