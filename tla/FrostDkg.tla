------------------------------ MODULE FrostDkg ------------------------------
(***************************************************************************)
(* The ceremonies of src/backend/frost.rs: the distributed key generation  *)
(* of FrostBackend::generate_credential, which hands every package of the  *)
(* three participants to the right receiver, and the two-party signing of  *)
(* FrostBackend::sign_with.                                                *)
(*                                                                         *)
(* What the frost library does with the packages is modelled by the        *)
(* arithmetic of the scheme, over the integers modulo a small prime: a     *)
(* participant's round-one secret is a polynomial of degree one, its       *)
(* commitment is the polynomial in the exponent, and a package for another *)
(* participant is the polynomial's value there.  A group element is the    *)
(* exponent it stands for.  What is drawn and what hashes come out as are  *)
(* parameters of the ceremonies: they hold for every value or not at all.  *)
(***************************************************************************)
EXTENDS Integers, FiniteSets

CONSTANT P   \* the order of the group, a prime

ASSUME PrimeAssumption ==
  P \in Nat /\ P > 3 /\ \A d \in 2 .. P - 1 : P % d # 0

Scalar       == 0 .. P - 1
Participants == 1 .. 3                         \* identifiers()
Others(i)    == Participants \ {i}

Polynomial == [secret : Scalar, slope : Scalar]

Eval(f, x) == (f.secret + f.slope * x) % P

\* The sum of the values of a function on participants.
Total(f) ==
  LET at(i) == IF i \in DOMAIN f THEN f[i] ELSE 0
  IN  (at(1) + at(2) + at(3)) % P

Inverse_(x) == CHOOSE y \in Scalar : (x * y) % P = 1

-----------------------------------------------------------------------------
(***************************************************************************)
(* Key generation, for the polynomials the participants have drawn.        *)
(***************************************************************************)

\* Round one: everyone's commitment is broadcast (part1).
Round1Broadcasts(polys) == polys

\* What a participant is given: the broadcasts of all the others.
Incoming(polys, i) ==
  [sender \in {j \in Participants : j # i} |-> Round1Broadcasts(polys)[sender]]

\* part2: a value for each sender of a broadcast.
Outgoing(secret, incoming) == [r \in DOMAIN incoming |-> Eval(secret, r)]

\* Seeded fault: the packages are filed under their sender.
ReceivedRound2Swapped(polys, i) ==
  Outgoing(polys[i], Incoming(polys, i))

\* The values sent to a participant, each filed under its sender.
ReceivedRound2(polys, i) ==
  [sender \in {j \in Participants : i \in DOMAIN Outgoing(polys[j], Incoming(polys, j))} |->
     Outgoing(polys[sender], Incoming(polys, sender))[i]]

\* part3 accepts one package from each of the others, each the value of the
\* polynomial its sender has committed to.
Part3Accepts(polys, i) ==
  LET values == ReceivedRound2(polys, i)
  IN  /\ DOMAIN Incoming(polys, i) = Others(i)
      /\ DOMAIN values = Others(i)
      /\ \A j \in Others(i) : values[j] = Eval(Incoming(polys, i)[j], i)

\* The signing share of a participant: its own value and those it was sent.
SigningShare(polys, i) ==
  (Eval(polys[i], i) + Total(ReceivedRound2(polys, i))) % P

\* The group key as a participant derives it from the commitments.
PublicPackage(polys, i) ==
  LET incoming == Incoming(polys, i)
  IN  (polys[i].secret + Total([j \in DOMAIN incoming |-> incoming[j].secret])) % P

\* Everyone finishes, and with the same public package.
CeremonySucceeds(polys) ==
  /\ \A i \in Participants : Part3Accepts(polys, i)
  /\ \A i \in Participants : PublicPackage(polys, i) = PublicPackage(polys, 1)

\* Seeded fault: each share is filed under the participant before.
FrostCredentialShifted(polys) ==
  [participants |-> [i \in Participants |-> SigningShare(polys, (i % 3) + 1)],
   public_key_package |-> PublicPackage(polys, 1)]

FrostCredential(polys) ==
  [participants |-> [i \in Participants |-> SigningShare(polys, i)],
   public_key_package |-> PublicPackage(polys, 1)]

-----------------------------------------------------------------------------
(***************************************************************************)
(* Signing, for the nonces the two signers have drawn.  The hashes of the  *)
(* scheme are given: a binding factor for each signer and a challenge.     *)
(***************************************************************************)

Nonces == [hiding : Scalar, binding : Scalar]

Hashing == [rho : [Participants -> Scalar], challenge : Scalar]

\* The weight of signer i when it signs with j.
Lagrange(i, j) == (j * Inverse_((j - i) % P)) % P

\* Round one: both signers commit to fresh nonces.  A commitment is the nonces
\* in the exponent.
Commitments(pair, nonces) == [i \in {pair[1], pair[2]} |-> nonces[i]]

\* Seeded fault: each signer is given the nonces of the other.
SignatureShareCrossed(credential, pair, i, nonces, hash) ==
  LET j == IF i = pair[1] THEN pair[2] ELSE pair[1]
  IN  (nonces[j].hiding + nonces[j].binding * hash.rho[i]
         + Lagrange(i, j) * credential.participants[i] * hash.challenge) % P

\* Round two: the signer's answer, made with its own nonces and share.
SignatureShare(credential, pair, i, nonces, hash) ==
  LET j == IF i = pair[1] THEN pair[2] ELSE pair[1]
  IN  (nonces[i].hiding + nonces[i].binding * hash.rho[i]
         + Lagrange(i, j) * credential.participants[i] * hash.challenge) % P

\* The nonces a signer brings to round two are those it committed to.
Round2Accepts(pair, nonces) ==
  \A i \in {pair[1], pair[2]} : Commitments(pair, nonces)[i] = nonces[i]

\* aggregate: the group commitment, and the sum of the shares.
Aggregate(credential, pair, nonces, hash) ==
  LET com == Commitments(pair, nonces)
  IN  [R |-> Total([i \in DOMAIN com |->
                      com[i].hiding + com[i].binding * hash.rho[i]]),
       z |-> Total([i \in DOMAIN com |->
                      SignatureShare(credential, pair, i, nonces, hash)])]

\* verify: of the signature, under a public key.
Verifies(signature, hash, public_key) ==
  signature.z = (signature.R + hash.challenge * public_key) % P

\* sign_with: the aggregate is verified under the group key before it is used.
SignWith(credential, pair, m, nonces, hash) ==
  IF /\ Round2Accepts(pair, nonces)
     /\ Verifies(Aggregate(credential, pair, nonces, hash), hash,
                 credential.public_key_package)
  THEN [key |-> credential.public_key_package, message |-> m]
  ELSE [error |-> "Internal"]

=============================================================================
