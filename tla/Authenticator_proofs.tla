------------------------ MODULE Authenticator_proofs ------------------------
(***************************************************************************)
(* Proofs about Authenticator, for every set of relying parties, handles   *)
(* and keys, and however many registrations and assertions are made.       *)
(***************************************************************************)
EXTENDS Authenticator, FiniteSetTheorems, TLAPS

\* The strengthening: the service and the backend know the same handles, each
\* record keeps its key under its own handle, and each was registered.
RecordsBacked ==
  /\ DOMAIN credentials = DOMAIN keys
  /\ \A id \in DOMAIN credentials :
       /\ credentials[id].backend_handle = id
       /\ \E r \in registered : r.credential_id = id

\* The assertions made with a credential so far.
Uses(id) == UsesUpTo(asserted, id, Len(asserted))

\* A count as saturating_add leaves it.
Clamp(n) == IF n <= MaxCount THEN n ELSE MaxCount

\* The counter of a record is the number of its assertions, up to MaxCount.
CountsUses ==
  \A id \in DOMAIN credentials :
    credentials[id].sign_count = Clamp(Cardinality(Uses(id)))

\* An assertion is of a credential that exists.
AssertedKnown ==
  \A i \in DOMAIN asserted : asserted[i].credential_id \in DOMAIN credentials

IInv == TypeOK /\ RecordsBacked /\ RegistrationsUsable /\ AssertionsVerify

CInv == IInv /\ AssertedKnown /\ CountsUses /\ CountersSequential

USE DEF Created_, Signature_, Failure_, Created, Signature, Done, Failure

-----------------------------------------------------------------------------
(***************************************************************************)
(* Types.                                                                  *)
(***************************************************************************)

\* What is signed for a stored credential has the type of signed data, and
\* the counter in it does not overflow.
LEMMA DataType ==
  ASSUME TypeOK,
         NEW rp \in Rps, NEW hash \in Hashes, NEW up \in BOOLEAN,
         NEW id \in DOMAIN credentials
  PROVE  /\ NextCount(id) \in 0 .. MaxCount
         /\ AssertionData(rp, hash, up, id) \in SignedData
  BY CountAssumption
     DEF TypeOK, CredentialRecord, NextCount, AssertionData, SignedData

\* What select_credential returns is a stored credential of the relying party.
LEMMA SelectsStored ==
  ASSUME NEW rp, NEW allow, NEW id, Selects(rp, allow, id)
  PROVE  id \in DOMAIN credentials /\ credentials[id].rp_id = rp
  BY DEF Selects, Matching

\* Writing the counter changes nothing else in the records.
LEMMA CountedFacts ==
  ASSUME TypeOK, NEW id \in DOMAIN credentials, Counted(id)
  PROVE  /\ DOMAIN credentials' = DOMAIN credentials
         /\ \A c \in DOMAIN credentials :
              /\ credentials'[c].rp_id = credentials[c].rp_id
              /\ credentials'[c].backend_handle = credentials[c].backend_handle
              /\ credentials'[c].sign_count =
                   IF c = id THEN NextCount(id) ELSE credentials[c].sign_count
              /\ credentials'[c] \in CredentialRecord
<1>1. NextCount(id) \in 0 .. MaxCount
  BY CountAssumption DEF TypeOK, CredentialRecord, NextCount
<1>2. \A c \in DOMAIN credentials : credentials[c] \in CredentialRecord
  BY DEF TypeOK
<1> QED
  BY <1>1, <1>2 DEF Counted, CredentialRecord

\* The initial state is well typed.
LEMMA InitType == Init => TypeOK
  BY DEF Init, TypeOK, BackendInit, BackendTypeOK, EmptyMap

\* A registration keeps the types.
LEMMA RegisterType ==
  ASSUME TypeOK, NEW rp \in Rps, Register(rp)
  PROVE  TypeOK'
<1> USE DEF TypeOK, BackendTypeOK
<1>1. PICK h \in Handles \ DOMAIN keys, k \in Keys :
        keys' = Put(keys, h, k) /\ reply' = Created(h, k)
  BY DEF Register, Create
<1>2. DOMAIN keys' \subseteq Handles /\ \A c \in DOMAIN keys' : keys'[c] \in Keys
  BY <1>1 DEF Put
<1>3. reply' \in Created_
  BY <1>1
<1>4. BackendTypeOK'
  BY <1>2, <1>3
<1>5. PICK record \in CredentialRecord : credentials' = Put(credentials, h, record)
  <2>1. [rp_id |-> rp, backend_handle |-> h, sign_count |-> 0] \in CredentialRecord
    BY CountAssumption DEF CredentialRecord
  <2> QED
    BY <1>1, <2>1 DEF Register
<1>6. /\ DOMAIN credentials' \subseteq Handles
      /\ \A id \in DOMAIN credentials' : credentials'[id] \in CredentialRecord
  BY <1>5 DEF Put
<1>7. registered' \subseteq Registration
  BY <1>1 DEF Register, Registration
<1> QED
  BY <1>4, <1>6, <1>7 DEF Register

\* An assertion keeps the types; in particular its counter does not overflow.
LEMMA AssertionType ==
  ASSUME TypeOK, NEW rp \in Rps, NEW hash \in Hashes, NEW allow,
         NEW up \in BOOLEAN, MakeAssertion(rp, hash, allow, up)
  PROVE  TypeOK'
<1> USE DEF TypeOK, BackendTypeOK
<1>1. PICK id \in Handles :
        /\ Selects(rp, allow, id)
        /\ Sign(credentials[id].backend_handle,
                AssertionData(rp, hash, up, id))
        /\ Counted(id)
        /\ asserted' = Append(asserted,
                              [credential_id |-> id,
                               data |-> AssertionData(rp, hash, up, id),
                               signature |-> reply'])
        /\ UNCHANGED registered
  BY DEF MakeAssertion
<1>2. id \in DOMAIN credentials
  BY <1>1, SelectsStored
<1>3. AssertionData(rp, hash, up, id) \in SignedData
  BY <1>2, DataType
<1>4. BackendTypeOK' /\ reply' \in Signature_
  BY <1>1, <1>2, <1>3, PayloadAssumption DEF Sign
<1>5. asserted' \in Seq(Assertion)
  BY <1>1, <1>3, <1>4 DEF Assertion
<1>6. /\ DOMAIN credentials' \subseteq Handles
      /\ \A c \in DOMAIN credentials' : credentials'[c] \in CredentialRecord
  BY <1>1, <1>2, CountedFacts
<1> QED
  BY <1>1, <1>4, <1>5, <1>6

\* Every step keeps the types.
LEMMA NextType == TypeOK /\ [Next]_vars => TypeOK'
<1> SUFFICES ASSUME TypeOK, [Next]_vars PROVE TypeOK'
  OBVIOUS
<1> USE DEF TypeOK, BackendTypeOK
<1>1. ASSUME NEW rp \in Rps, Register(rp) PROVE TypeOK'
  BY <1>1, RegisterType
<1>2. ASSUME NEW rp \in Rps, RegisterFails(rp) PROVE TypeOK'
  BY <1>2 DEF RegisterFails, CreateFails, serviceVars
<1>3. ASSUME NEW rp \in Rps, NEW hash \in Hashes, NEW allow \in AllowLists,
             NEW up \in BOOLEAN, MakeAssertion(rp, hash, allow, up)
      PROVE  TypeOK'
  BY <1>3, AssertionType
<1>4. ASSUME NEW rp \in Rps, NEW hash \in Hashes, NEW allow \in AllowLists,
             NEW up \in BOOLEAN, AssertionFails(rp, hash, allow, up)
      PROVE  TypeOK'
  BY <1>4 DEF AssertionFails, SignFails, serviceVars
<1>5. ASSUME NEW rp \in Rps, NEW allow \in AllowLists, NoCredentials(rp, allow)
      PROVE  TypeOK'
  BY <1>5 DEF NoCredentials, vars
<1>6. CASE UNCHANGED vars
  BY <1>6 DEF vars
<1> QED
  BY <1>1, <1>2, <1>3, <1>4, <1>5, <1>6 DEF Next

\* The types hold of every state.
THEOREM TypeCorrect == Spec => []TypeOK
  BY InitType, NextType, PTL DEF Spec

-----------------------------------------------------------------------------
(***************************************************************************)
(* Registrations stay usable and assertions verify.                        *)
(***************************************************************************)

\* The invariant without the types.
Rest == RecordsBacked /\ RegistrationsUsable /\ AssertionsVerify

\* At first there is no credential and nothing was asserted.
LEMMA InitIInv == Init => IInv
  BY InitType
     DEF Init, EmptyMap, IInv, BackendInit, RecordsBacked, RegistrationsUsable, AssertionsVerify

\* A new registration takes a handle that neither the backend nor any earlier
\* registration has.
LEMMA RegisterIInv ==
  ASSUME IInv, TypeOK', NEW rp \in Rps, Register(rp)
  PROVE  RecordsBacked' /\ RegistrationsUsable' /\ AssertionsVerify'
<1>1. PICK h \in Handles \ DOMAIN keys, k \in Keys :
        keys' = Put(keys, h, k) /\ reply' = Created(h, k)
  BY DEF Register, Create
<1> DEFINE new    == [rp_id |-> rp, credential_id |-> h, public_key |-> k]
           record == [rp_id |-> rp, backend_handle |-> h, sign_count |-> 0]
<1>2. /\ credentials' = Put(credentials, h, record)
      /\ registered' = registered \cup {new}
      /\ UNCHANGED asserted
  BY <1>1 DEF Register
<1>3. /\ DOMAIN keys' = DOMAIN keys \cup {h}
      /\ keys'[h] = k
      /\ \A c \in DOMAIN keys : keys'[c] = keys[c]
  <2> h \notin DOMAIN keys
    OBVIOUS
  <2> QED
    BY <1>1 DEF Put
<1>4. h \notin DOMAIN credentials
  BY <1>1 DEF IInv, RecordsBacked
<1>5. /\ DOMAIN credentials' = DOMAIN credentials \cup {h}
      /\ credentials'[h] = record
      /\ \A c \in DOMAIN credentials : credentials'[c] = credentials[c]
  <2> HIDE DEF record
  <2> QED
    BY <1>2, <1>4 DEF Put
<1>6. \A r \in registered : r.credential_id \in DOMAIN credentials
  BY DEF IInv, RegistrationsUsable
<1>7. new.credential_id = h /\ new.rp_id = rp /\ new.public_key = k
  OBVIOUS
<1>8. record.backend_handle = h /\ record.rp_id = rp
  OBVIOUS
<1> HIDE DEF new, record
<1>9. RecordsBacked'
  BY <1>2, <1>3, <1>5, <1>7, <1>8 DEF IInv, RecordsBacked
<1>10. RegistrationsUsable'
  BY <1>2, <1>3, <1>5, <1>7, <1>8 DEF IInv, RecordsBacked, RegistrationsUsable
<1>11. AssertionsVerify'
  BY <1>2, <1>4, <1>6, <1>7 DEF IInv, AssertionsVerify
<1> QED
  BY <1>9, <1>10, <1>11

\* The key of the selected credential is the one that was registered with it.
LEMMA AssertionIInv ==
  ASSUME IInv, TypeOK', NEW rp \in Rps, NEW hash \in Hashes,
         NEW allow, NEW up \in BOOLEAN, MakeAssertion(rp, hash, allow, up)
  PROVE  RecordsBacked' /\ RegistrationsUsable' /\ AssertionsVerify'
<1>1. PICK id \in Handles :
        /\ Selects(rp, allow, id)
        /\ Sign(credentials[id].backend_handle, AssertionData(rp, hash, up, id))
        /\ Counted(id)
        /\ asserted' = Append(asserted,
                              [credential_id |-> id,
                               data |-> AssertionData(rp, hash, up, id),
                               signature |-> reply'])
        /\ UNCHANGED registered
  BY DEF MakeAssertion
<1> DEFINE data == AssertionData(rp, hash, up, id)
           new  == [credential_id |-> id, data |-> data, signature |-> reply']
<1>2. id \in DOMAIN credentials /\ credentials[id].rp_id = rp
  BY <1>1, SelectsStored
<1>3. /\ DOMAIN credentials' = DOMAIN credentials
      /\ \A c \in DOMAIN credentials :
           /\ credentials'[c].rp_id = credentials[c].rp_id
           /\ credentials'[c].backend_handle = credentials[c].backend_handle
  BY <1>1, <1>2, CountedFacts DEF IInv
<1>4. UNCHANGED <<keys, registered>>
  BY <1>1 DEF Sign
<1>5. reply' = Signature(keys[id], data)
  BY <1>1, <1>2 DEF IInv, RecordsBacked, Sign
<1>6. data.rp_id = rp
  BY DEF AssertionData
<1>7. RecordsBacked' /\ RegistrationsUsable'
  BY <1>3, <1>4 DEF IInv, RecordsBacked, RegistrationsUsable
<1>8. /\ \E r \in registered : r.credential_id = id
      /\ \A r \in registered :
           r.credential_id = id => r.rp_id = rp /\ keys[id] = r.public_key
  BY <1>2 DEF IInv, RecordsBacked, RegistrationsUsable
<1>9. AssertionsVerify'
  <2>1. asserted \in Seq(Assertion) /\ asserted' = Append(asserted, new)
    BY <1>1 DEF IInv, TypeOK
  <2>2. /\ new.credential_id = id /\ new.data = data
        /\ new.signature = Signature(keys[id], data)
    BY <1>5
  <2>3. DOMAIN asserted' = DOMAIN asserted \cup {Len(asserted) + 1}
    BY <2>1
  <2>4. \A i \in DOMAIN asserted : asserted'[i] = asserted[i]
    BY <2>1
  <2>5. asserted'[Len(asserted) + 1] = new
    BY <2>1
  <2> HIDE DEF new, data
  <2>6. ASSUME NEW i \in DOMAIN asserted
        PROVE  /\ \E r \in registered : r.credential_id = asserted'[i].credential_id
               /\ \A r \in registered :
                    r.credential_id = asserted'[i].credential_id =>
                      /\ r.rp_id = asserted'[i].data.rp_id
                      /\ asserted'[i].signature = Signature(r.public_key, asserted'[i].data)
    BY <2>4 DEF IInv, AssertionsVerify
  <2>7. /\ \E r \in registered : r.credential_id = new.credential_id
        /\ \A r \in registered :
             r.credential_id = new.credential_id =>
               /\ r.rp_id = new.data.rp_id
               /\ new.signature = Signature(r.public_key, new.data)
    BY <1>6, <1>8, <2>2
  <2> QED
    BY <1>4, <2>3, <2>5, <2>6, <2>7 DEF AssertionsVerify
<1> QED
  BY <1>7, <1>9

\* Every step preserves the invariant: a registration under a fresh handle
\* changes no older record, and an assertion changes only a counter.
LEMMA NextIInv == IInv /\ [Next]_vars => IInv'
<1> SUFFICES ASSUME IInv, [Next]_vars PROVE IInv'
  OBVIOUS
<1>1. TypeOK'
  BY NextType DEF IInv
<1>2. ASSUME NEW rp \in Rps, Register(rp) PROVE Rest'
  BY <1>1, <1>2, RegisterIInv DEF Rest
<1>3. ASSUME NEW rp \in Rps, NEW hash \in Hashes, NEW allow \in AllowLists,
             NEW up \in BOOLEAN, MakeAssertion(rp, hash, allow, up)
      PROVE  Rest'
  BY <1>1, <1>3, AssertionIInv DEF Rest
<1>4. ASSUME UNCHANGED <<keys, credentials, registered, asserted>> PROVE Rest'
  BY <1>4 DEF Rest, IInv, RecordsBacked, RegistrationsUsable, AssertionsVerify
<1>5. ASSUME NEW rp \in Rps, RegisterFails(rp) PROVE Rest'
  BY <1>4, <1>5 DEF RegisterFails, CreateFails, serviceVars
<1>6. ASSUME NEW rp \in Rps, NEW hash \in Hashes, NEW allow \in AllowLists,
             NEW up \in BOOLEAN, AssertionFails(rp, hash, allow, up)
      PROVE  Rest'
  BY <1>4, <1>6 DEF AssertionFails, SignFails, serviceVars
<1>7. ASSUME NEW rp \in Rps, NEW allow \in AllowLists, NoCredentials(rp, allow)
      PROVE  Rest'
  BY <1>4, <1>7 DEF NoCredentials, vars
<1>8. ASSUME UNCHANGED vars PROVE Rest'
  BY <1>4, <1>8 DEF vars
<1>9. Rest'
  BY <1>2, <1>3, <1>5, <1>6, <1>7, <1>8 DEF Next
<1> QED
  BY <1>1, <1>9 DEF IInv, Rest

\* Every registration that was returned stays usable, whatever is registered
\* after it.
THEOREM RegistrationsStayUsable == Spec => []RegistrationsUsable
<1>1. IInv => RegistrationsUsable
  BY DEF IInv
<1> QED
  BY <1>1, InitIInv, NextIInv, PTL DEF Spec

\* Every assertion verifies with the key registered for its relying party.
THEOREM AssertionsAlwaysVerify == Spec => []AssertionsVerify
<1>1. IInv => AssertionsVerify
  BY DEF IInv
<1> QED
  BY <1>1, InitIInv, NextIInv, PTL DEF Spec

-----------------------------------------------------------------------------
(***************************************************************************)
(* The counters.                                                           *)
(***************************************************************************)

\* The uses of a credential are finitely many.
LEMMA UsesFinite ==
  ASSUME NEW log, NEW id, NEW i \in Nat
  PROVE  /\ UsesUpTo(log, id, i) \subseteq 1 .. i
         /\ IsFiniteSet(UsesUpTo(log, id, i))
         /\ Cardinality(UsesUpTo(log, id, i)) \in Nat
<1>1. UsesUpTo(log, id, i) \subseteq 1 .. i
  BY DEF UsesUpTo
<1>2. IsFiniteSet(1 .. i)
  BY FS_Interval
<1>3. IsFiniteSet(UsesUpTo(log, id, i))
  BY <1>1, <1>2, FS_Subset
<1> QED
  BY <1>1, <1>3, FS_CardinalityType

\* At first every counter and every log is empty.
LEMMA InitCInv == Init => CInv
  BY InitIInv
     DEF Init, EmptyMap, CInv, AssertedKnown, CountsUses, CountersSequential

\* A step that asserts nothing and keeps the counters keeps CInv; a record it
\* adds starts at zero because nothing was asserted under its handle.
LEMMA QuietCInv ==
  ASSUME CInv, IInv', UNCHANGED asserted,
         \A id \in DOMAIN credentials :
           /\ id \in DOMAIN credentials'
           /\ credentials'[id].sign_count = credentials[id].sign_count,
         \A id \in DOMAIN credentials' \ DOMAIN credentials :
           credentials'[id].sign_count = 0
  PROVE  CInv'
<1>1. \A id : Uses(id)' = Uses(id)
  BY DEF Uses, UsesUpTo
<1>2. AssertedKnown'
  BY DEF CInv, AssertedKnown
<1>3. CountersSequential'
  BY DEF CInv, CountersSequential, UsesUpTo
<1>4. ASSUME NEW id \in DOMAIN credentials' \ DOMAIN credentials
      PROVE  credentials'[id].sign_count = Clamp(Cardinality(Uses(id)))
  <2>1. Uses(id) = {}
    BY DEF CInv, IInv, TypeOK, AssertedKnown, Uses, UsesUpTo
  <2>2. Cardinality(Uses(id)) = 0
    BY <2>1, FS_EmptySet
  <2> QED
    BY <2>2, CountAssumption DEF Clamp
<1>5. CountsUses'
  BY <1>1, <1>4 DEF CInv, CountsUses, Clamp
<1> QED
  BY <1>2, <1>3, <1>5 DEF CInv

\* A registration starts its counter at 0, and no assertion was ever made
\* under its fresh handle.
LEMMA RegisterCInv ==
  ASSUME CInv, IInv', NEW rp \in Rps, Register(rp)
  PROVE  CInv'
<1>1. PICK h \in Handles \ DOMAIN keys, k \in Keys :
        keys' = Put(keys, h, k) /\ reply' = Created(h, k)
  BY DEF Register, Create
<1>2. h \notin DOMAIN credentials
  BY <1>1 DEF CInv, IInv, RecordsBacked
<1> DEFINE record == [rp_id |-> rp, backend_handle |-> h, sign_count |-> 0]
<1>3. credentials' = Put(credentials, h, record) /\ UNCHANGED asserted
  BY <1>1 DEF Register
<1>4. record.sign_count = 0
  OBVIOUS
<1> HIDE DEF record
<1>5. /\ \A id \in DOMAIN credentials :
           /\ id \in DOMAIN credentials'
           /\ credentials'[id].sign_count = credentials[id].sign_count
      /\ \A id \in DOMAIN credentials' \ DOMAIN credentials :
           credentials'[id].sign_count = 0
  BY <1>2, <1>3, <1>4 DEF Put
<1> QED
  BY <1>3, <1>5, QuietCInv

\* The counter that is signed is one more than the uses so far, and it is the
\* one that is stored.
LEMMA AssertionCInv ==
  ASSUME CInv, IInv', NEW rp \in Rps, NEW hash \in Hashes,
         NEW allow, NEW up \in BOOLEAN, MakeAssertion(rp, hash, allow, up)
  PROVE  CInv'
<1>1. PICK id \in Handles :
        /\ Selects(rp, allow, id)
        /\ Counted(id)
        /\ asserted' = Append(asserted,
                              [credential_id |-> id,
                               data |-> AssertionData(rp, hash, up, id),
                               signature |-> reply'])
  BY DEF MakeAssertion
<1>2. TypeOK
  BY DEF CInv, IInv
<1>3. PICK n \in Nat : n = Len(asserted)
  BY <1>2 DEF TypeOK
<1>4. PICK a : a = [credential_id |-> id, data |-> AssertionData(rp, hash, up, id),
                    signature |-> reply']
  OBVIOUS
<1>5. id \in DOMAIN credentials
  BY <1>1, SelectsStored
<1>6. a.credential_id = id /\ a.data.sign_count = NextCount(id)
  BY <1>4 DEF AssertionData
<1>7. asserted' = Append(asserted, a)
  BY <1>1, <1>4
<1>8. /\ n \in Nat /\ Len(asserted') = n + 1
      /\ DOMAIN asserted = 1 .. n /\ DOMAIN asserted' = 1 .. n + 1
      /\ \A i \in 1 .. n : asserted'[i] = asserted[i]
      /\ asserted'[n + 1] = a
  BY <1>2, <1>3, <1>7 DEF TypeOK
<1>9. /\ DOMAIN credentials' = DOMAIN credentials
      /\ \A c \in DOMAIN credentials :
           credentials'[c].sign_count =
             IF c = id THEN NextCount(id) ELSE credentials[c].sign_count
  BY <1>1, <1>5, <1>2, CountedFacts
<1>10. /\ \A c : \A i \in 0 .. n : UsesUpTo(asserted', c, i) = UsesUpTo(asserted, c, i)
      /\ \A c : UsesUpTo(asserted', c, n + 1) = IF id = c THEN UsesUpTo(asserted, c, n) \cup {n + 1}
                                                ELSE UsesUpTo(asserted, c, n)
  BY <1>6, <1>8 DEF UsesUpTo
<1>11. Cardinality(UsesUpTo(asserted', id, n + 1)) = Cardinality(UsesUpTo(asserted, id, n)) + 1
  <2>1. n + 1 \notin UsesUpTo(asserted, id, n) /\ IsFiniteSet(UsesUpTo(asserted, id, n))
    BY <1>3, UsesFinite
  <2>2. UsesUpTo(asserted', id, n + 1) = UsesUpTo(asserted, id, n) \cup {n + 1}
    BY <1>10
  <2>3. Cardinality(UsesUpTo(asserted, id, n) \cup {n + 1}) = Cardinality(UsesUpTo(asserted, id, n)) + 1
    BY <2>1, FS_AddElement
  <2> QED
    BY <2>2, <2>3
<1>12. NextCount(id) = Clamp(Cardinality(UsesUpTo(asserted', id, n + 1)))
  <2>1. credentials[id].sign_count = Clamp(Cardinality(UsesUpTo(asserted, id, n)))
    BY <1>3, <1>5 DEF CInv, CountsUses, Uses
  <2>2. Cardinality(UsesUpTo(asserted, id, n)) \in Nat
    BY <1>8, UsesFinite
  <2> QED
    BY <1>11, <2>1, <2>2, CountAssumption DEF NextCount, Clamp
<1>13. AssertedKnown'
  BY <1>5, <1>6, <1>8, <1>9 DEF CInv, AssertedKnown
<1>14. CountsUses'
  <2>1. ASSUME NEW c \in DOMAIN credentials
        PROVE  credentials'[c].sign_count = Clamp(Cardinality(UsesUpTo(asserted', c, n + 1)))
    <3>1. CASE c = id
      BY <1>9, <1>12, <3>1
    <3>2. CASE c # id
      <4>1. UsesUpTo(asserted', c, n + 1) = UsesUpTo(asserted, c, n)
        BY <1>10, <3>2
      <4> QED
        BY <1>3, <1>9, <3>2, <4>1 DEF CInv, CountsUses, Uses
    <3> QED
      BY <3>1, <3>2
  <2>2. \A c : Uses(c)' = UsesUpTo(asserted', c, n + 1)
    BY <1>8 DEF Uses, UsesUpTo
  <2> QED
    BY <1>9, <2>1, <2>2 DEF CountsUses, Clamp
<1>15. CountersSequential'
  <2>1. ASSUME NEW i \in 1 .. n + 1, NEW c, c = asserted'[i].credential_id
        PROVE  asserted'[i].data.sign_count = Clamp(Cardinality(UsesUpTo(asserted', c, i)))
    <3>1. CASE i = n + 1
      BY <1>6, <1>8, <1>12, <2>1, <3>1
    <3>2. CASE i # n + 1
      <4>1. i \in 1 .. n
        BY <3>2
      <4>2. UsesUpTo(asserted', c, i) = UsesUpTo(asserted, c, i)
        BY <1>10, <4>1
      <4>3. c = asserted[i].credential_id
        BY <1>8, <2>1, <4>1
      <4> QED
        BY <1>8, <4>1, <4>2, <4>3 DEF CInv, CountersSequential, Clamp
    <3> QED
      BY <3>1, <3>2
  <2> QED
    BY <1>8, <2>1 DEF CountersSequential, UsesUpTo, Clamp
<1> QED
  BY <1>13, <1>14, <1>15 DEF CInv

\* Every step keeps the counters equal to the number of assertions: only an
\* assertion that is returned moves one, and by one.
LEMMA NextCInv == CInv /\ [Next]_vars => CInv'
<1> SUFFICES ASSUME CInv, [Next]_vars PROVE CInv'
  OBVIOUS
<1>1. IInv'
  BY NextIInv DEF CInv
<1>2. ASSUME NEW rp \in Rps, Register(rp) PROVE CInv'
  BY <1>1, <1>2, RegisterCInv
<1>3. ASSUME NEW rp \in Rps, NEW hash \in Hashes, NEW allow \in AllowLists,
             NEW up \in BOOLEAN, MakeAssertion(rp, hash, allow, up)
      PROVE  CInv'
  BY <1>1, <1>3, AssertionCInv
<1>4. ASSUME UNCHANGED <<credentials, asserted>> PROVE CInv'
  BY <1>1, <1>4, QuietCInv
<1>5. ASSUME NEW rp \in Rps, RegisterFails(rp) PROVE CInv'
  BY <1>4, <1>5 DEF RegisterFails, serviceVars
<1>6. ASSUME NEW rp \in Rps, NEW hash \in Hashes, NEW allow \in AllowLists,
             NEW up \in BOOLEAN, AssertionFails(rp, hash, allow, up)
      PROVE  CInv'
  BY <1>4, <1>6 DEF AssertionFails, serviceVars
<1>7. ASSUME NEW rp \in Rps, NEW allow \in AllowLists, NoCredentials(rp, allow)
      PROVE  CInv'
  BY <1>4, <1>7 DEF NoCredentials, vars
<1>8. ASSUME UNCHANGED vars PROVE CInv'
  BY <1>4, <1>8 DEF vars
<1> QED
  BY <1>2, <1>3, <1>5, <1>6, <1>7, <1>8 DEF Next

\* The n-th assertion of a credential carries the counter n, up to MaxCount.
THEOREM CountersAlwaysSequential == Spec => []CountersSequential
<1>1. CInv => CountersSequential
  BY DEF CInv
<1> QED
  BY <1>1, InitCInv, NextCInv, PTL DEF Spec

-----------------------------------------------------------------------------
(***************************************************************************)
(* The same call by call, for a component that calls the service.          *)
(***************************************************************************)

\* A registration keeps the invariant.
LEMMA RegisterKeeps ==
  ASSUME CInv, NEW rp \in Rps, Register(rp)
  PROVE  CInv'
<1>1. IInv'
  BY RegisterType, RegisterIInv DEF CInv, IInv
<1> QED
  BY <1>1, RegisterCInv

\* An assertion keeps the invariant.
LEMMA AssertionKeeps ==
  ASSUME CInv, NEW rp \in Rps, NEW hash \in Hashes, NEW allow,
         NEW up \in BOOLEAN, MakeAssertion(rp, hash, allow, up)
  PROVE  CInv'
<1>1. IInv'
  BY AssertionType, AssertionIInv DEF CInv, IInv
<1> QED
  BY <1>1, AssertionCInv

\* So does a call that fails, and so does no call at all.
LEMMA FailureKeeps ==
  ASSUME CInv, reply' \in Failure_ \/ UNCHANGED reply,
         UNCHANGED <<keys, credentials, registered, asserted>>
  PROVE  CInv'
<1>1. IInv'
  BY DEF CInv, IInv, TypeOK, BackendTypeOK, RecordsBacked, RegistrationsUsable,
         AssertionsVerify
<1> QED
  BY <1>1, QuietCInv

\* What register adds to its history is one registration, under an identifier
\* that none before had.
LEMMA RegisterAdds ==
  ASSUME CInv, NEW rp \in Rps, Register(rp)
  PROVE  /\ UNCHANGED asserted
         /\ \E r \in Registration :
              /\ registered' = registered \cup {r}
              /\ r.rp_id = rp /\ r.credential_id = reply'.handle
              /\ \A s \in registered : s.credential_id # r.credential_id
<1>1. PICK h \in Handles \ DOMAIN keys, k \in Keys :
        keys' = Put(keys, h, k) /\ reply' = Created(h, k)
  BY DEF Register, Create
<1>2. PICK r : r = [rp_id |-> rp, credential_id |-> h, public_key |-> k]
  OBVIOUS
<1>3. registered' = registered \cup {r} /\ UNCHANGED asserted
  BY <1>1, <1>2 DEF Register
<1>4. /\ r \in Registration /\ r.rp_id = rp /\ r.credential_id = h
      /\ reply'.handle = h
  BY <1>1, <1>2 DEF Registration
<1>5. \A s \in registered : s.credential_id \in DOMAIN keys
  BY DEF CInv, IInv, RecordsBacked, RegistrationsUsable
<1> QED
  BY <1>1, <1>3, <1>4, <1>5

\* What assert adds to its history is one assertion, which claims presence if
\* it was told to.
LEMMA AssertionAdds ==
  ASSUME CInv, NEW rp \in Rps, NEW hash \in Hashes, NEW allow,
         NEW up \in BOOLEAN, MakeAssertion(rp, hash, allow, up)
  PROVE  /\ UNCHANGED registered
         /\ \E a \in Assertion :
              asserted' = Append(asserted, a) /\ a.data.user_present = up
<1>1. PICK id \in Handles :
        asserted' = Append(asserted, [credential_id |-> id,
                                      data |-> AssertionData(rp, hash, up, id),
                                      signature |-> reply'])
        /\ Selects(rp, allow, id)
        /\ Sign(credentials[id].backend_handle, AssertionData(rp, hash, up, id))
        /\ UNCHANGED registered
  BY DEF MakeAssertion
<1>2. PICK a : a = [credential_id |-> id, data |-> AssertionData(rp, hash, up, id),
                    signature |-> reply']
  OBVIOUS
<1>3. id \in DOMAIN credentials /\ TypeOK
  BY <1>1, SelectsStored DEF CInv, IInv
<1>4. AssertionData(rp, hash, up, id) \in SignedData
  BY <1>3, DataType
<1>5. reply' \in Signature_
  BY <1>1, <1>3, <1>4, PayloadAssumption DEF Sign, TypeOK, BackendTypeOK
<1>6. a \in Assertion
  BY <1>2, <1>4, <1>5 DEF Assertion
<1>7. a.data.user_present = up
  BY <1>2 DEF AssertionData
<1> QED
  BY <1>1, <1>2, <1>6, <1>7

=============================================================================
