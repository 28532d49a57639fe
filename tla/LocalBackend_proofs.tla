------------------------ MODULE LocalBackend_proofs ------------------------
(***************************************************************************)
(* The local Ed25519 backend implements the trait.  Its state is that of   *)
(* the abstract backend, so each operation is one of the abstract ones, as *)
(* it succeeds or as it fails.                                             *)
(***************************************************************************)
EXTENDS LocalBackend, TLAPS

\* No keys, and no call made yet.
LEMMA InitImplements == Init => Contract!BackendInit
  BY DEF Init, EmptyMap, Contract!BackendInit, Contract!EmptyMap, Contract!Done

\* create_credential: the handle that is kept is one no key has.
LEMMA CreateImplements ==
  ASSUME NEW rp \in Rps, CreateCredential(rp)
  PROVE  Contract!Create(rp) \/ Contract!CreateFails(rp)
<1>1. CASE rp = EmptyRp
  BY <1>1 DEF CreateCredential, Contract!CreateFails, Contract!Failure
<1>2. CASE rp # EmptyRp
  BY <1>2 DEF CreateCredential, Drawn, Put, Contract!Create, Contract!Created,
              Contract!Put
<1> QED
  BY <1>1, <1>2

\* sign: with the key of the handle, or an error for an unknown handle.
LEMMA SignImplements ==
  ASSUME NEW h \in Handles, NEW m \in Payloads, Sign(h, m)
  PROVE  Contract!Sign(h, m) \/ Contract!SignFails(h, m)
  BY DEF Sign, Contract!Sign, Contract!SignFails, Contract!Signature,
         Contract!Failure

\* The table is a function at all times, so removing a handle it does not have
\* leaves it as it is.
IsMap == keys = [h \in DOMAIN keys |-> keys[h]]

\* The empty map is a function.
LEMMA IsMapInit == Init => IsMap
  BY DEF Init, IsMap, EmptyMap

\* Put and Remove keep keys a function.
LEMMA IsMapNext == IsMap /\ [Next]_vars => IsMap'
<1> SUFFICES ASSUME IsMap, [Next]_vars PROVE IsMap'
  OBVIOUS
<1>1. ASSUME NEW rp \in Rps, CreateCredential(rp) PROVE IsMap'
  BY <1>1 DEF CreateCredential, Put, IsMap
<1>2. ASSUME NEW h \in Handles, NEW m \in Payloads, Sign(h, m) PROVE IsMap'
  BY <1>2 DEF Sign, IsMap
<1>3. ASSUME NEW h \in Handles, DeleteCredential(h) PROVE IsMap'
  BY <1>3 DEF DeleteCredential, Remove, IsMap
<1>4. CASE UNCHANGED vars
  BY <1>4 DEF vars, IsMap
<1> QED
  BY <1>1, <1>2, <1>3, <1>4 DEF Next

\* delete_credential: the key goes, or an unknown handle is reported.
LEMMA DeleteImplements ==
  ASSUME NEW h \in Handles, DeleteCredential(h), IsMap
  PROVE  Contract!Delete(h) \/ Contract!DeleteFails(h)
<1>1. CASE h \in DOMAIN keys
  BY <1>1 DEF DeleteCredential, Remove, Contract!Delete, Contract!Remove,
              Contract!Done
<1>2. CASE h \notin DOMAIN keys
  <2>1. DOMAIN keys \ {h} = DOMAIN keys
    BY <1>2
  <2>2. keys' = keys
    BY <2>1 DEF DeleteCredential, Remove, IsMap
  <2> QED
    BY <1>2, <2>2 DEF DeleteCredential, Contract!DeleteFails, Contract!Failure
<1> QED
  BY <1>1, <1>2

\* Every step is one of the abstract backend or leaves its state alone.
LEMMA NextImplements ==
  IsMap /\ [Next]_vars => [Contract!BackendNext]_Contract!backendVars
<1> SUFFICES ASSUME IsMap, [Next]_vars
             PROVE  Contract!BackendNext \/ UNCHANGED Contract!backendVars
  OBVIOUS
<1>1. ASSUME NEW rp \in Rps, CreateCredential(rp) PROVE Contract!BackendNext
  BY <1>1, CreateImplements DEF Contract!BackendNext
<1>2. ASSUME NEW h \in Handles, NEW m \in Payloads, Sign(h, m)
      PROVE  Contract!BackendNext
  BY <1>2, SignImplements DEF Contract!BackendNext
<1>3. ASSUME NEW h \in Handles, DeleteCredential(h) PROVE Contract!BackendNext
  BY <1>3, DeleteImplements DEF Contract!BackendNext
<1>4. CASE UNCHANGED vars
  BY <1>4 DEF vars, Contract!backendVars
<1> QED
  BY <1>1, <1>2, <1>3, <1>4 DEF Next

\* For any sets of handles, keys and messages the local backend keeps every
\* promise of the trait.
THEOREM LocalImplements == Spec => ImplementsCredentialBackend
<1>1. Spec => []IsMap
  BY IsMapInit, IsMapNext, PTL DEF Spec
<1> QED
  BY <1>1, InitImplements, NextImplements, PTL
     DEF Spec, ImplementsCredentialBackend, Contract!BackendSpec

=============================================================================
