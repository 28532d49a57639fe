-------------------------- MODULE MCAuthenticator --------------------------
(***************************************************************************)
(* A small instance of Authenticator.                                      *)
(***************************************************************************)
EXTENDS Authenticator, TLC

CONSTANTS r1, r2

\* What can be signed is the data of an assertion.
MCPayloads == [rp_id : {EmptyRp, r1, r2}, user_present : BOOLEAN,
               sign_count : 0 .. MaxCount, client_data_hash : Hashes]

\* Relying parties, handles and keys are interchangeable.
Interchangeable ==
  Permutations({r1, r2}) \cup Permutations(Handles) \cup Permutations(Keys)

=============================================================================
