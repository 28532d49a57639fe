----------------------- MODULE RequestDecoding_proofs -----------------------
(***************************************************************************)
(* Proofs about the decoders of MakeCredential and GetAssertion, for       *)
(* requests of any length with any entries: what they find is what the     *)
(* request says, nothing added behind changes a registration, and an       *)
(* assertion without asking the user is asked for.                         *)
(***************************************************************************)
EXTENDS RequestDecoding, WellFoundedInduction, TLAPS

(***************************************************************************)
(* The first element that passes.                                          *)
(***************************************************************************)

\* A non-empty set of positions has a first one, which Min returns.
LEMMA FirstPosition ==
  ASSUME NEW n \in Nat, NEW I \in SUBSET (1 .. n), I # {}
  PROVE  Seqs!Min(I) \in I /\ \A j \in I : Seqs!Min(I) <= j
<1>1. I \subseteq Nat
  OBVIOUS
<1>2. PICK R : R = OpToRel(<, Nat)
  OBVIOUS
<1>3. IsWellFoundedOn(R, Nat)
  BY <1>2, NatLessThanWellFounded
<1>4. PICK i \in I : \A j \in I : ~(<<j, i>> \in R)
  BY <1>1, <1>3, WFMin
<1>5. ASSUME NEW j \in I
      PROVE  i <= j
  <2>1. i \in Nat /\ j \in Nat
    BY <1>1
  <2>2. <<j, i>> \in R <=> j < i
    BY <1>2, <2>1 DEF OpToRel
  <2> QED
    BY <1>4, <2>1, <2>2
<1> QED
  BY <1>5 DEF Seqs!Min

\* The element at the first of some positions, as an option.
FirstAt(s, I) == IF I = {} THEN {} ELSE {s[Seqs!Min(I)]}

\* It is the element at one of them, before all the others.
LEMMA FirstAtIs ==
  ASSUME NEW s, NEW n \in Nat, NEW I \in SUBSET (1 .. n)
  PROVE  \/ I = {} /\ FirstAt(s, I) = {}
         \/ \E i \in I : FirstAt(s, I) = {s[i]} /\ \A j \in I : i <= j
<1>1. CASE I = {}
  BY <1>1 DEF FirstAt
<1>2. CASE I # {}
  <2>1. Seqs!Min(I) \in I /\ \A j \in I : Seqs!Min(I) <= j
    BY <1>2, FirstPosition
  <2>2. FirstAt(s, I) = {s[Seqs!Min(I)]}
    BY <1>2 DEF FirstAt
  <2> QED
    BY <2>1, <2>2
<1> QED
  BY <1>1, <1>2

\* The search of FindFirst, as it is written, is FirstAt.
LEMMA FirstAtFound ==
  ASSUME NEW s, NEW n \in Nat, NEW I \in SUBSET (1 .. n)
  PROVE  (IF (IF I # {} THEN Seqs!Min(I) ELSE 0) = 0 THEN None
          ELSE Some(s[IF I # {} THEN Seqs!Min(I) ELSE 0]))
            = FirstAt(s, I)
<1>1. CASE I = {}
  BY <1>1 DEF FirstAt, None
<1>2. CASE I # {}
  <2>1. Seqs!Min(I) \in I
    BY <1>2, FirstPosition
  <2>2. Seqs!Min(I) # 0
    BY <2>1
  <2> QED
    BY <1>2, <2>2 DEF FirstAt, Some
<1> QED
  BY <1>1, <1>2

\* A sequence of entries, and where it begins.
LEMMA SequenceDomain ==
  ASSUME NEW s, IsSequence(s)
  PROVE  Len(s) \in Nat /\ DOMAIN s = 1 .. Len(s)
<1>1. PICK S : S = Seqs!ToSet(s)
  OBVIOUS
<1>2. s \in Seq(S)
  BY <1>1 DEF IsSequence
<1> QED
  BY <1>2

\* The entry that FirstNamed finds is the first of that name.
LEMMA FirstNamedIs ==
  ASSUME NEW fields, IsSequence(fields), NEW name,
         NEW I, I = {i \in DOMAIN fields : fields[i].key = name}
  PROVE  \/ I = {} /\ FirstNamed(fields, name) = {}
         \/ \E i \in I : /\ FirstNamed(fields, name) = {fields[i]}
                         /\ \A j \in I : i <= j
<1>1. PICK n \in Nat : n = Len(fields) /\ DOMAIN fields = 1 .. n
  BY SequenceDomain
<1>2. I \in SUBSET (1 .. n)
  BY <1>1
<1>3. I = {i \in 1 .. Len(fields) : fields[i].key = name}
  BY <1>1
<1>4. FirstNamed(fields, name) = FirstAt(fields, I)
  BY <1>2, <1>3, FirstAtFound DEF FirstNamed, FindFirst, Seqs!SelectInSeq
<1> QED
  BY <1>2, <1>4, FirstAtIs

\* The value that FirstField finds is the first of that name and type.
LEMMA FirstFieldIs ==
  ASSUME NEW fields, IsSequence(fields), NEW name, NEW type,
         NEW I, I = {i \in DOMAIN fields :
                       fields[i].key = name /\ Is(type, fields[i].value)}
  PROVE  \/ I = {} /\ FirstField(fields, name, type) = {}
         \/ \E i \in I : FirstField(fields, name, type) = {fields[i].value[type]}
<1>1. PICK n \in Nat : n = Len(fields) /\ DOMAIN fields = 1 .. n
  BY SequenceDomain
<1>2. I \in SUBSET (1 .. n)
  BY <1>1
<1>3. I = {i \in 1 .. Len(fields) : fields[i].key = name /\ Is(type, fields[i].value)}
  BY <1>1
<1>4. FirstField(fields, name, type) = {e.value[type] : e \in FirstAt(fields, I)}
  BY <1>2, <1>3, FirstAtFound DEF FirstField, FindFirst, Seqs!SelectInSeq
<1>5. \/ I = {} /\ FirstAt(fields, I) = {}
      \/ \E i \in I : FirstAt(fields, I) = {fields[i]}
  BY <1>2, FirstAtIs
<1> QED
  BY <1>4, <1>5

\* The algorithm of a parameter is the first that fits.
LEMMA AlgorithmIs ==
  ASSUME NEW param, NEW fields, fields = Entries(param), IsSequence(fields),
         NEW I, I = {i \in DOMAIN fields : /\ fields[i].key = "alg"
                                           /\ Is("int", fields[i].value)
                                           /\ fields[i].value.int \in I64}
  PROVE  \/ I = {} /\ AlgorithmOf(param) = {}
         \/ \E i \in I : AlgorithmOf(param) = {fields[i].value.int}
<1>1. PICK n \in Nat : n = Len(fields) /\ DOMAIN fields = 1 .. n
  BY SequenceDomain
<1>2. I \in SUBSET (1 .. n)
  BY <1>1
<1>3. I = {i \in 1 .. Len(fields) : /\ fields[i].key = "alg"
                                    /\ Is("int", fields[i].value)
                                    /\ fields[i].value.int \in I64}
  BY <1>1
<1>4. AlgorithmOf(param) = {f.value.int : f \in FirstAt(fields, I)}
  BY <1>2, <1>3, FirstAtFound DEF AlgorithmOf, FindFirst, Seqs!SelectInSeq
<1>5. \/ I = {} /\ FirstAt(fields, I) = {}
      \/ \E i \in I : FirstAt(fields, I) = {fields[i]}
  BY <1>2, FirstAtIs
<1> QED
  BY <1>4, <1>5

\* The rp that DecidingRp finds is the first that decides.
LEMMA DecidingRpIs ==
  ASSUME NEW fields, IsSequence(fields),
         NEW I, I = {i \in DOMAIN fields : Decides(fields[i])}
  PROVE  \/ I = {} /\ DecidingRp(fields) = {}
         \/ \E i \in I : /\ DecidingRp(fields) = {fields[i]}
                         /\ \A j \in I : i <= j
<1>1. PICK n \in Nat : n = Len(fields) /\ DOMAIN fields = 1 .. n
  BY SequenceDomain
<1>2. I \in SUBSET (1 .. n)
  BY <1>1
<1>3. I = {i \in 1 .. Len(fields) : Decides(fields[i])}
  BY <1>1
<1>4. DecidingRp(fields) = FirstAt(fields, I)
  BY <1>2, <1>3, FirstAtFound DEF DecidingRp, FindFirst, Seqs!SelectInSeq
<1> QED
  BY <1>2, <1>4, FirstAtIs

-----------------------------------------------------------------------------
(***************************************************************************)
(* Where no key comes twice, the first is all there is.                    *)
(***************************************************************************)

\* A map without a repeated key has at most one value under a name.
LEMMA NamedOnce ==
  ASSUME NEW fields, IsSequence(fields), Distinct(fields), NEW name
  PROVE  \/ /\ FirstNamed(fields, name) = {}
            /\ Values(fields, name) = {}
         \/ \E i \in DOMAIN fields : /\ fields[i].key = name
                                     /\ FirstNamed(fields, name) = {fields[i]}
                                     /\ Values(fields, name) = {fields[i].value}
<1>1. PICK I : I = {i \in DOMAIN fields : fields[i].key = name}
  OBVIOUS
<1>2. Values(fields, name) = {fields[i].value : i \in I}
  BY <1>1 DEF Values
<1>3. \A i, j \in I : i = j
  BY <1>1 DEF Distinct
<1>4. \/ I = {} /\ FirstNamed(fields, name) = {}
      \/ \E i \in I : FirstNamed(fields, name) = {fields[i]}
  BY <1>1, FirstNamedIs
<1>5. CASE I = {}
  BY <1>2, <1>4, <1>5
<1>6. ASSUME NEW i \in I, FirstNamed(fields, name) = {fields[i]}
      PROVE  Values(fields, name) = {fields[i].value}
  BY <1>2, <1>3
<1> QED
  BY <1>1, <1>4, <1>5, <1>6

\* What FirstField finds is what the map says under that name.
LEMMA FieldOnce ==
  ASSUME NEW fields, IsSequence(fields), Distinct(fields), NEW name, NEW type
  PROVE  FirstField(fields, name, type) = Typed(fields, name, type)
<1>1. PICK I : I = {i \in DOMAIN fields :
                      fields[i].key = name /\ Is(type, fields[i].value)}
  OBVIOUS
<1>2. Typed(fields, name, type) = {fields[i].value[type] : i \in I}
  BY <1>1 DEF Typed, Values
<1>3. \A i, j \in I : i = j
  BY <1>1 DEF Distinct
<1>4. \/ I = {} /\ FirstField(fields, name, type) = {}
      \/ \E i \in I : FirstField(fields, name, type) = {fields[i].value[type]}
  BY <1>1, FirstFieldIs
<1> QED
  BY <1>2, <1>3, <1>4

\* The algorithm of a parameter is what it says under alg, if it is an i64.
LEMMA AlgorithmOnce ==
  ASSUME NEW param, IsSequence(Entries(param)), Distinct(Entries(param))
  PROVE  AlgorithmOf(param) = I64 \cap Typed(Entries(param), "alg", "int")
<1>1. PICK fields : fields = Entries(param)
  OBVIOUS
<1>2. PICK I : I = {i \in DOMAIN fields : /\ fields[i].key = "alg"
                                          /\ Is("int", fields[i].value)
                                          /\ fields[i].value.int \in I64}
  OBVIOUS
<1>3. I64 \cap Typed(fields, "alg", "int") = {fields[i].value.int : i \in I}
  BY <1>2 DEF Typed, Values
<1>4. \A i, j \in I : i = j
  BY <1>1, <1>2 DEF Distinct
<1>5. \/ I = {} /\ AlgorithmOf(param) = {}
      \/ \E i \in I : AlgorithmOf(param) = {fields[i].value.int}
  BY <1>1, <1>2, AlgorithmIs
<1> QED
  BY <1>1, <1>3, <1>4, <1>5

-----------------------------------------------------------------------------
(***************************************************************************)
(* A request is a sequence of the entries a host may send.                 *)
(***************************************************************************)

Sent == entries \in Seq(Fields)

\* What the host adds is one of them.
LEMMA SentAlways == Spec => []Sent
<1>1. Init => Sent
  BY DEF Init, Sent
<1>2. ASSUME Sent, [Next]_entries
      PROVE  Sent'
  <2>1. CASE Next
    BY <1>2, <2>1 DEF Next, Add, Sent
  <2>2. CASE UNCHANGED entries
    BY <1>2, <2>2 DEF Sent
  <2> QED
    BY <1>2, <2>1, <2>2
<1> QED
  BY <1>1, <1>2, PTL DEF Spec

\* The decoders read the entries.
LEMMA PayloadEntries == Entries(Payload) = entries
BY DEF Payload, Entries, Is

\* A request is a sequence, and so are the maps and the arrays in it.
LEMMA SentWellBuilt ==
  ASSUME NEW fields \in Seq(Fields)
  PROVE  IsSequence(fields) /\ \A i \in DOMAIN fields : WellBuilt(fields[i].value)
<1>1. Len(fields) \in Nat /\ fields \in [1 .. Len(fields) -> Fields]
  OBVIOUS
<1>2. fields \in [1 .. Len(fields) -> Seqs!ToSet(fields)]
  BY <1>1 DEF Seqs!ToSet
<1>3. PICK S : S = Seqs!ToSet(fields)
  OBVIOUS
<1>4. fields \in Seq(S)
  BY <1>1, <1>2, <1>3
<1>5. IsSequence(fields)
  BY <1>3, <1>4 DEF IsSequence
<1>6. \A i \in DOMAIN fields : fields[i] \in Fields
  BY <1>1
<1> QED
  BY <1>5, <1>6, DecodingAssumption DEF DecodingAssumption

-----------------------------------------------------------------------------
(***************************************************************************)
(* The three passes of MakeCredential.                                     *)
(***************************************************************************)

\* An rp that is passed over has no id to offer.
LEMMA UndecidedRp ==
  ASSUME NEW e, e.key = "rp", ~Decides(e)
  PROVE  Typed(Entries(e.value), "id", "text") = {}
<1>1. Is("map", e.value) /\ \A i \in DOMAIN e.value.map : e.value.map[i].key # "id"
  BY DEF Decides
<1>2. Values(e.value.map, "id") = {}
  BY <1>1 DEF Values
<1>3. Entries(e.value) = e.value.map
  BY <1>1 DEF Entries
<1> QED
  BY <1>2, <1>3 DEF Typed

\* The pass for the rp.
LEMMA RpDecoded ==
  ASSUME Sent, WellKeyed
  PROVE  RpIdIn(entries) = UNION {Typed(Entries(rp), "id", "text") :
                                    rp \in Values(entries, "rp")}
<1>1. IsSequence(entries) /\ \A i \in DOMAIN entries : WellBuilt(entries[i].value)
  BY SentWellBuilt DEF Sent
<1>2. Distinct(entries) /\ \A i \in DOMAIN entries : Distinct(Entries(entries[i].value))
  BY DEF WellKeyed
<1>3. PICK I : I = {i \in DOMAIN entries : Decides(entries[i])}
  OBVIOUS
<1>4. \/ I = {} /\ DecidingRp(entries) = {}
      \/ \E i \in I : DecidingRp(entries) = {entries[i]}
  BY <1>1, <1>3, DecidingRpIs
<1>5. \A i \in I : entries[i].key = "rp"
  BY <1>3 DEF Decides
<1>6. CASE Values(entries, "rp") = {}
  <2>1. I = {}
    BY <1>3, <1>5, <1>6 DEF Values
  <2> QED
    BY <1>4, <1>6, <2>1 DEF RpIdIn
<1>7. ASSUME NEW i \in DOMAIN entries, entries[i].key = "rp",
             Values(entries, "rp") = {entries[i].value}
      PROVE  RpIdIn(entries) = Typed(Entries(entries[i].value), "id", "text")
  <2>1. \A j \in I : j = i
    BY <1>2, <1>3, <1>5, <1>7 DEF Distinct
  <2>2. CASE ~Decides(entries[i])
    <3>1. DecidingRp(entries) = {}
      BY <1>3, <1>4, <2>1, <2>2
    <3>2. RpIdIn(entries) = {}
      BY <3>1 DEF RpIdIn
    <3> QED
      BY <1>7, <2>2, <3>2, UndecidedRp
  <2>3. CASE Decides(entries[i])
    <3>1. DecidingRp(entries) = {entries[i]}
      BY <1>3, <1>4, <1>7, <2>1, <2>3
    <3>2. PICK fields : fields = Entries(entries[i].value)
      OBVIOUS
    <3>3. RpIdIn(entries) =
            {f.value.text : f \in {g \in FirstNamed(fields, "id") : Is("text", g.value)}}
      BY <3>1, <3>2 DEF RpIdIn
    <3>4. IsSequence(fields) /\ Distinct(fields)
      BY <1>1, <1>2, <1>7, <3>2 DEF WellBuilt
    <3>5. \/ FirstNamed(fields, "id") = {} /\ Values(fields, "id") = {}
          \/ \E k \in DOMAIN fields : /\ FirstNamed(fields, "id") = {fields[k]}
                                      /\ Values(fields, "id") = {fields[k].value}
      BY <3>4, NamedOnce
    <3>6. Typed(fields, "id", "text") =
            {v.text : v \in {u \in Values(fields, "id") : Is("text", u)}}
      BY DEF Typed
    <3>7. RpIdIn(entries) = Typed(fields, "id", "text")
      BY <3>3, <3>5, <3>6
    <3> QED
      BY <3>2, <3>7
  <2> QED
    BY <2>2, <2>3
<1> QED
  BY <1>1, <1>2, <1>6, <1>7, NamedOnce

\* The pass for the user.
LEMMA UserDecoded ==
  ASSUME Sent, WellKeyed
  PROVE  UserId(Payload) = UNION {Typed(Entries(user), "id", "bytes") :
                                    user \in Values(entries, "user")}
<1>1. IsSequence(entries) /\ \A i \in DOMAIN entries : WellBuilt(entries[i].value)
  BY SentWellBuilt DEF Sent
<1>2. Distinct(entries) /\ \A i \in DOMAIN entries : Distinct(Entries(entries[i].value))
  BY DEF WellKeyed
<1>3. UserId(Payload) = UNION {FirstField(Entries(e.value), "id", "bytes") :
                                 e \in FirstNamed(entries, "user")}
  BY PayloadEntries DEF UserId
<1>4. ASSUME NEW i \in DOMAIN entries
      PROVE  FirstField(Entries(entries[i].value), "id", "bytes")
               = Typed(Entries(entries[i].value), "id", "bytes")
  BY <1>1, <1>2, FieldOnce DEF WellBuilt
<1>5. \/ FirstNamed(entries, "user") = {} /\ Values(entries, "user") = {}
      \/ \E i \in DOMAIN entries : /\ FirstNamed(entries, "user") = {entries[i]}
                                   /\ Values(entries, "user") = {entries[i].value}
  BY <1>1, <1>2, NamedOnce
<1> QED
  BY <1>3, <1>4, <1>5

\* The pass for the algorithms.
LEMMA AlgorithmsDecoded ==
  ASSUME Sent, WellKeyed
  PROVE  Algorithms(Payload) =
           {alg \in I64 : \E list \in Typed(entries, "pubKeyCredParams", "array") :
              \E i \in DOMAIN list : alg \in Typed(Entries(list[i]), "alg", "int")}
<1>1. IsSequence(entries) /\ \A i \in DOMAIN entries : WellBuilt(entries[i].value)
  BY SentWellBuilt DEF Sent
<1>2. Distinct(entries)
  BY DEF WellKeyed
<1>3. Parameters(Payload) =
        UNION {IF Is("array", e.value) THEN Seqs!ToSet(e.value.array) ELSE {} :
                 e \in FirstNamed(entries, "pubKeyCredParams")}
  BY PayloadEntries DEF Parameters
<1>4. Typed(entries, "pubKeyCredParams", "array") =
        {v.array : v \in {u \in Values(entries, "pubKeyCredParams") : Is("array", u)}}
  BY DEF Typed
<1>5. \/ /\ FirstNamed(entries, "pubKeyCredParams") = {}
         /\ Values(entries, "pubKeyCredParams") = {}
      \/ \E i \in DOMAIN entries :
           /\ FirstNamed(entries, "pubKeyCredParams") = {entries[i]}
           /\ Values(entries, "pubKeyCredParams") = {entries[i].value}
  BY <1>1, <1>2, NamedOnce
<1>6. \/ /\ Parameters(Payload) = {}
         /\ Typed(entries, "pubKeyCredParams", "array") = {}
      \/ \E i \in DOMAIN entries :
           /\ Is("array", entries[i].value)
           /\ Parameters(Payload) = Seqs!ToSet(entries[i].value.array)
           /\ Typed(entries, "pubKeyCredParams", "array") = {entries[i].value.array}
  BY <1>3, <1>4, <1>5
<1>7. ASSUME NEW i \in DOMAIN entries, Is("array", entries[i].value),
             NEW k \in DOMAIN entries[i].value.array
      PROVE  AlgorithmOf(entries[i].value.array[k])
               = I64 \cap Typed(Entries(entries[i].value.array[k]), "alg", "int")
  <2>1. IsSequence(Entries(entries[i].value.array[k]))
    BY <1>1, <1>7 DEF WellBuilt
  <2>2. Distinct(Entries(entries[i].value.array[k]))
    BY <1>7 DEF WellKeyed
  <2> QED
    BY <2>1, <2>2, AlgorithmOnce
<1>8. Algorithms(Payload) = UNION {AlgorithmOf(param) : param \in Parameters(Payload)}
  BY DEF Algorithms
<1>9. CASE /\ Parameters(Payload) = {}
           /\ Typed(entries, "pubKeyCredParams", "array") = {}
  BY <1>8, <1>9
<1>10. ASSUME NEW i \in DOMAIN entries, Is("array", entries[i].value),
              Parameters(Payload) = Seqs!ToSet(entries[i].value.array),
              Typed(entries, "pubKeyCredParams", "array") = {entries[i].value.array}
       PROVE  Algorithms(Payload) =
                {alg \in I64 : \E list \in Typed(entries, "pubKeyCredParams", "array") :
                  \E k \in DOMAIN list : alg \in Typed(Entries(list[k]), "alg", "int")}
  <2>1. PICK list : list = entries[i].value.array
    OBVIOUS
  <2>2. Algorithms(Payload) = UNION {AlgorithmOf(list[k]) : k \in DOMAIN list}
    BY <1>8, <1>10, <2>1 DEF Seqs!ToSet
  <2>3. \A k \in DOMAIN list :
          AlgorithmOf(list[k]) = I64 \cap Typed(Entries(list[k]), "alg", "int")
    BY <1>7, <1>10, <2>1
  <2>4. Typed(entries, "pubKeyCredParams", "array") = {list}
    BY <1>10, <2>1
  <2> QED
    BY <2>2, <2>3, <2>4
<1> QED
  BY <1>6, <1>9, <1>10

\* A registration that repeats no key is read as what it says, whatever the
\* number and the order of its entries and whatever else is among them: what
\* handle_message makes of the payload of an authenticatorMakeCredential.
THEOREM RegistrationRead == Spec => []MakeDecodesFields
<1>1. Sent => MakeDecodesFields
  BY RpDecoded, UserDecoded, AlgorithmsDecoded, PayloadEntries
     DEF MakeDecodesFields, RpId
<1> QED
  BY <1>1, SentAlways, PTL

-----------------------------------------------------------------------------
(***************************************************************************)
(* What comes behind changes nothing.                                      *)
(***************************************************************************)

\* The entries a request had keep their places when one is added.
Extends(t, s) ==
  /\ \A i \in DOMAIN s : i \in DOMAIN t /\ t[i] = s[i]
  /\ \A i \in DOMAIN t \ DOMAIN s : \A j \in DOMAIN s : ~(i <= j)

\* A request with one more entry extends it.
LEMMA AddedBehind ==
  ASSUME NEW s \in Seq(Fields), NEW e \in Fields
  PROVE  Append(s, e) \in Seq(Fields) /\ Extends(Append(s, e), s)
BY DEF Extends

\* The first of some entries stays the first of them.
LEMMA FirstStays ==
  ASSUME NEW s \in Seq(Fields), NEW t \in Seq(Fields), Extends(t, s),
         NEW I \in SUBSET DOMAIN s, NEW J \in SUBSET DOMAIN t, J \cap DOMAIN s = I,
         NEW i \in I, \A j \in I : i <= j, NEW k \in J, \A j \in J : k <= j
  PROVE  t[k] = s[i]
<1>1. i \in J /\ t[i] = s[i]
  BY DEF Extends
<1>2. k <= i
  BY <1>1
<1>3. k \in DOMAIN s
  BY <1>2 DEF Extends
<1>4. i <= k /\ i \in Nat /\ k \in Nat
  BY <1>3
<1>5. i = k
  BY <1>2, <1>4
<1> QED
  BY <1>1, <1>5

\* The first entry of a name does.
LEMMA FirstNamedStays ==
  ASSUME NEW s \in Seq(Fields), NEW t \in Seq(Fields), Extends(t, s),
         NEW name, FirstNamed(s, name) # {}
  PROVE  FirstNamed(t, name) = FirstNamed(s, name)
<1>1. PICK I : I = {i \in DOMAIN s : s[i].key = name}
  OBVIOUS
<1>2. PICK J : J = {i \in DOMAIN t : t[i].key = name}
  OBVIOUS
<1>3. IsSequence(s) /\ IsSequence(t)
  BY SentWellBuilt
<1>4. PICK i \in I : FirstNamed(s, name) = {s[i]} /\ \A j \in I : i <= j
  BY <1>1, <1>3, FirstNamedIs
<1>5. J \cap DOMAIN s = I
  BY <1>1, <1>2 DEF Extends
<1>6. \/ J = {}
      \/ \E k \in J : FirstNamed(t, name) = {t[k]} /\ \A j \in J : k <= j
  BY <1>2, <1>3, FirstNamedIs
<1>7. PICK k \in J : FirstNamed(t, name) = {t[k]} /\ \A j \in J : k <= j
  BY <1>4, <1>5, <1>6
<1>8. I \in SUBSET DOMAIN s /\ J \in SUBSET DOMAIN t
  BY <1>1, <1>2
<1>9. t[k] = s[i]
  BY <1>4, <1>5, <1>7, <1>8, FirstStays
<1> QED
  BY <1>4, <1>7, <1>9

\* The rp that decides does.
LEMMA DecidingRpStays ==
  ASSUME NEW s \in Seq(Fields), NEW t \in Seq(Fields), Extends(t, s),
         DecidingRp(s) # {}
  PROVE  DecidingRp(t) = DecidingRp(s)
<1>1. PICK I : I = {i \in DOMAIN s : Decides(s[i])}
  OBVIOUS
<1>2. PICK J : J = {i \in DOMAIN t : Decides(t[i])}
  OBVIOUS
<1>3. IsSequence(s) /\ IsSequence(t)
  BY SentWellBuilt
<1>4. PICK i \in I : DecidingRp(s) = {s[i]} /\ \A j \in I : i <= j
  BY <1>1, <1>3, DecidingRpIs
<1>5. J \cap DOMAIN s = I
  BY <1>1, <1>2 DEF Extends
<1>6. \/ J = {}
      \/ \E k \in J : DecidingRp(t) = {t[k]} /\ \A j \in J : k <= j
  BY <1>2, <1>3, DecidingRpIs
<1>7. PICK k \in J : DecidingRp(t) = {t[k]} /\ \A j \in J : k <= j
  BY <1>4, <1>5, <1>6
<1>8. I \in SUBSET DOMAIN s /\ J \in SUBSET DOMAIN t
  BY <1>1, <1>2
<1>9. t[k] = s[i]
  BY <1>4, <1>5, <1>7, <1>8, FirstStays
<1> QED
  BY <1>4, <1>7, <1>9

\* A name that a request has used is found in it.
LEMMA NamedIsFound ==
  ASSUME NEW s \in Seq(Fields), NEW name, Values(s, name) # {}
  PROVE  FirstNamed(s, name) # {}
<1>1. PICK I : I = {i \in DOMAIN s : s[i].key = name}
  OBVIOUS
<1>2. I # {}
  BY <1>1 DEF Values
<1>3. IsSequence(s)
  BY SentWellBuilt
<1>4. \/ I = {} /\ FirstNamed(s, name) = {}
      \/ \E i \in I : FirstNamed(s, name) = {s[i]}
  BY <1>1, <1>3, FirstNamedIs
<1> QED
  BY <1>2, <1>4

\* So is an rp that decides.
LEMMA DecidedIsFound ==
  ASSUME Sent, RpDecided
  PROVE  DecidingRp(entries) # {}
<1>1. PICK i \in DOMAIN entries :
        /\ entries[i].key = "rp"
        /\ Is("map", entries[i].value) => Values(entries[i].value.map, "id") # {}
  BY DEF RpDecided, Values
<1>2. Decides(entries[i])
  BY <1>1 DEF Decides, Values
<1>3. PICK I : I = {j \in DOMAIN entries : Decides(entries[j])}
  OBVIOUS
<1>4. IsSequence(entries)
  BY SentWellBuilt DEF Sent
<1> QED
  BY <1>2, <1>3, <1>4, DecidingRpIs

\* What has decided a part of a registration is final: no entry added behind it
\* gives the registration another rp, user or algorithms, however many follow
\* and whatever they are.
THEOREM NotRedirected == Spec => RegistrationNotRedirected
<1> DEFINE Kept == /\ RpDecided => RpId(Payload)' = RpId(Payload)
                   /\ Values(entries, "user") # {} => UserId(Payload)' = UserId(Payload)
                   /\ Values(entries, "pubKeyCredParams") # {} =>
                        Algorithms(Payload)' = Algorithms(Payload)
<1>1. ASSUME Sent, [Next]_entries
      PROVE  [Kept]_entries
  <2>1. CASE UNCHANGED entries
    BY <2>1
  <2>2. ASSUME NEW e \in Fields, Add(e)
        PROVE  Kept
    <3>1. PICK t : t = entries'
      OBVIOUS
    <3>2. entries \in Seq(Fields) /\ t \in Seq(Fields) /\ Extends(t, entries)
      BY <1>1, <2>2, <3>1, AddedBehind DEF Sent, Add
    <3>3. Entries(Payload) = entries /\ Entries(Payload)' = t
      BY <3>1 DEF Payload, Entries, Is
    <3>4. ASSUME RpDecided
          PROVE  RpId(Payload)' = RpId(Payload)
      <4>1. DecidingRp(t) = DecidingRp(entries)
        BY <1>1, <3>2, <3>4, DecidedIsFound, DecidingRpStays
      <4>2. RpId(Payload) = RpIdIn(entries) /\ RpId(Payload)' = RpIdIn(t)
        BY <3>3 DEF RpId, RpIdIn
      <4> QED
        BY <4>1, <4>2 DEF RpIdIn
    <3>5. ASSUME Values(entries, "user") # {}
          PROVE  UserId(Payload)' = UserId(Payload)
      <4>1. FirstNamed(t, "user") = FirstNamed(entries, "user")
        BY <3>2, <3>5, NamedIsFound, FirstNamedStays
      <4> QED
        BY <3>3, <4>1 DEF UserId
    <3>6. ASSUME Values(entries, "pubKeyCredParams") # {}
          PROVE  Algorithms(Payload)' = Algorithms(Payload)
      <4>1. FirstNamed(t, "pubKeyCredParams") = FirstNamed(entries, "pubKeyCredParams")
        BY <3>2, <3>6, NamedIsFound, FirstNamedStays
      <4>2. Parameters(Payload)' = Parameters(Payload)
        BY <3>3, <4>1 DEF Parameters
      <4> QED
        BY <4>2 DEF Algorithms
    <3> QED
      BY <3>4, <3>5, <3>6
  <2> QED
    BY <1>1, <2>1, <2>2 DEF Next
<1> QED
  BY <1>1, SentAlways, PTL DEF Spec, RegistrationNotRedirected

-----------------------------------------------------------------------------
(***************************************************************************)
(* Folds over sequences of any length.                                     *)
(***************************************************************************)

\* What holds at l and is passed on up to h holds at h.  NatInduction takes an
\* operator; this is its form for a set of numbers.
LEMMA Reach ==
  ASSUME NEW l \in Nat, NEW h \in Nat, l <= h, NEW P,
         l \in P, \A i \in l .. h : i \in P /\ i < h => i + 1 \in P
  PROVE  h \in P
<1> DEFINE Bad == {i \in 1 .. h : i > l /\ i \notin P}
<1> SUFFICES ASSUME h \notin P PROVE FALSE
  OBVIOUS
<1>1. h \in Bad
  OBVIOUS
<1>2. Bad \in SUBSET (1 .. h) /\ Bad # {}
  BY <1>1
<1>3. PICK m \in Bad : \A j \in Bad : m <= j
  BY <1>2, FirstPosition
<1>4. m - 1 \in l .. h /\ m - 1 < h /\ m - 1 \notin Bad
  BY <1>3
<1>5. m - 1 \in P
  BY <1>4
<1>6. m \in P
  BY <1>4, <1>5
<1> QED
  BY <1>3, <1>6

\* A computation of n steps, from base, whose values stay in A.
Computes(A, n, base, step) ==
  n \in Nat /\ base \in A /\ \A x \in A, i \in 1 .. n : step[<<x, i>>] \in A

\* The values on the way of a computation of n steps.
IsRun(a, A, n, base, step) ==
  /\ a \in [0 .. n -> A]
  /\ a[0] = base
  /\ \A i \in 1 .. n : a[i] = step[<<a[i - 1], i>>]

\* There are such values, whatever a step does.
LEMMA RunExists ==
  ASSUME NEW A, NEW n, NEW base, NEW step, Computes(A, n, base, step)
  PROVE  \E a : IsRun(a, A, n, base, step)
<1>0. n \in Nat /\ base \in A /\ \A x \in A, i \in 1 .. n : step[<<x, i>>] \in A
  BY DEF Computes
<1> DEFINE P == {k \in 0 .. n : \E a : /\ a \in [0 .. k -> A] /\ a[0] = base
                                       /\ \A i \in 1 .. k : a[i] = step[<<a[i - 1], i>>]}
<1>1. 0 \in P
  <2>1. PICK a : a = [i \in 0 .. 0 |-> base]
    OBVIOUS
  <2>2. a \in [0 .. 0 -> A] /\ a[0] = base /\ \A i \in 1 .. 0 : FALSE
    BY <1>0, <2>1
  <2> QED
    BY <1>0, <2>2
<1>2. ASSUME NEW k \in 0 .. n, k \in P, k < n
      PROVE  k + 1 \in P
  <2>1. PICK a : /\ a \in [0 .. k -> A] /\ a[0] = base
                 /\ \A i \in 1 .. k : a[i] = step[<<a[i - 1], i>>]
    BY <1>2
  <2>2. k + 1 \in 1 .. n /\ a[k] \in A
    BY <1>0, <1>2, <2>1
  <2>3. step[<<a[k], k + 1>>] \in A
    BY <1>0, <2>2
  <2>4. PICK b : b = [i \in 0 .. k + 1 |-> IF i <= k THEN a[i] ELSE step[<<a[k], k + 1>>]]
    OBVIOUS
  <2>5. b \in [0 .. k + 1 -> A] /\ b[0] = base
    BY <2>1, <2>3, <2>4
  <2>6. \A i \in 1 .. k + 1 : b[i] = step[<<b[i - 1], i>>]
    <3> SUFFICES ASSUME NEW i \in 1 .. k + 1 PROVE b[i] = step[<<b[i - 1], i>>]
      OBVIOUS
    <3>1. CASE i <= k
      <4>1. b[i] = a[i] /\ b[i - 1] = a[i - 1] /\ i \in 1 .. k
        BY <2>4, <3>1
      <4> QED
        BY <2>1, <4>1
    <3>2. CASE i = k + 1
      <4>1. b[i] = step[<<a[k], k + 1>>] /\ b[i - 1] = a[k]
        BY <2>4, <3>2
      <4> QED
        BY <3>2, <4>1
    <3> QED
      BY <3>1, <3>2
  <2> QED
    BY <1>0, <1>2, <2>5, <2>6
<1>3. n \in P
  <2> HIDE DEF P
  <2>1. \A i \in 0 .. n : i \in P /\ i < n => i + 1 \in P
    BY <1>2
  <2> QED
    BY <1>0, <1>1, <2>1, Reach
<1> QED
  BY <1>3 DEF IsRun

\* A stretch of a run on which nothing happens.
LEMMA Steady ==
  ASSUME NEW l \in Nat, NEW h \in Nat, l <= h, NEW a,
         \A i \in l + 1 .. h : a[i] = a[i - 1]
  PROVE  a[h] = a[l]
<1> DEFINE P == {i \in l .. h : a[i] = a[l]}
<1>1. l \in P
  OBVIOUS
<1>2. ASSUME NEW i \in l .. h, i \in P, i < h
      PROVE  i + 1 \in P
  <2>1. i + 1 \in l + 1 .. h /\ i + 1 \in l .. h /\ (i + 1) - 1 = i
    BY <1>2
  <2>2. a[i + 1] = a[i]
    BY <2>1
  <2> QED
    BY <1>2, <2>1, <2>2
<1>3. h \in P
  <2> HIDE DEF P
  <2>1. \A i \in l .. h : i \in P /\ i < h => i + 1 \in P
    BY <1>2
  <2> QED
    BY <1>1, <2>1, Reach
<1> QED
  BY <1>3

\* The greatest position of a set, which Max returns.
LEMMA LastPosition ==
  ASSUME NEW n \in Nat, NEW I \in SUBSET (1 .. n), I # {}
  PROVE  Seqs!Max(I) \in I /\ \A j \in I : j <= Seqs!Max(I)
<1>1. PICK J : J = {i \in 1 .. n : n + 1 - i \in I}
  OBVIOUS
<1>2. PICK i \in I : TRUE
  OBVIOUS
<1>3. n + 1 - i \in J
  BY <1>1
<1>4. J \in SUBSET (1 .. n) /\ J # {}
  BY <1>1, <1>3
<1>5. PICK m \in J : \A j \in J : m <= j
  BY <1>4, FirstPosition
<1>6. ASSUME NEW j \in I
      PROVE  n + 1 - m >= j
  <2>1. n + 1 - j \in J
    BY <1>1
  <2> QED
    BY <1>4, <1>5, <2>1
<1>7. n + 1 - m \in I
  BY <1>1, <1>5
<1> QED
  BY <1>6, <1>7 DEF Seqs!Max

\* The run that leaves out the steps outside of S.
Partly(S, step, A, n) ==
  [x \in A \X (1 .. n) |-> IF x[2] \in S THEN step[x] ELSE x[1]]

PartialRun(S, A, n, base, step) ==
  CHOOSE a : IsRun(a, A, n, base, Partly(S, step, A, n))

\* A run in which only the steps of S are taken.
RunsPartly(a, S, A, n, base, step) ==
  /\ a \in [0 .. n -> A] /\ a[0] = base
  /\ \A i \in 1 .. n : a[i] = IF i \in S THEN step[<<a[i - 1], i>>] ELSE a[i - 1]

\* It is a run.
LEMMA PartialRunIs ==
  ASSUME NEW A, NEW n, NEW base, NEW step, Computes(A, n, base, step), NEW S
  PROVE  RunsPartly(PartialRun(S, A, n, base, step), S, A, n, base, step)
<1> DEFINE a == PartialRun(S, A, n, base, step)
<1> USE DEF Computes
<1>1. PICK part : part = Partly(S, step, A, n)
  OBVIOUS
<1>2. Computes(A, n, base, part)
  <2>1. \A x \in A, i \in 1 .. n : part[<<x, i>>] \in A
    BY <1>1 DEF Partly
  <2> QED
    BY <2>1
<1>3. IsRun(a, A, n, base, part)
  BY <1>1, <1>2, RunExists DEF PartialRun
<1>4. a \in [0 .. n -> A] /\ a[0] = base
  BY <1>3 DEF IsRun
<1>5. ASSUME NEW i \in 1 .. n
      PROVE  a[i] = IF i \in S THEN step[<<a[i - 1], i>>] ELSE a[i - 1]
  <2>1. a[i - 1] \in A
    BY <1>4
  <2>2. PICK x \in A \X (1 .. n) : x = <<a[i - 1], i>>
    BY <2>1
  <2>3. a[i] = part[x]
    BY <1>3, <2>2 DEF IsRun
  <2>4. part[x] = IF x[2] \in S THEN step[x] ELSE x[1]
    BY <1>1 DEF Partly
  <2> QED
    BY <2>2, <2>3, <2>4
<1> QED
  BY <1>4, <1>5 DEF RunsPartly

\* Two such runs agree while they leave out the same.
LEMMA PartialRunsAgree ==
  ASSUME NEW A, NEW n, NEW base, NEW step, Computes(A, n, base, step),
         NEW S, NEW T, NEW m \in 0 .. n, \A i \in 1 .. m : i \in S <=> i \in T
  PROVE  PartialRun(S, A, n, base, step)[m] = PartialRun(T, A, n, base, step)[m]
<1>1. PICK a, b : /\ a = PartialRun(S, A, n, base, step)
                  /\ b = PartialRun(T, A, n, base, step)
  OBVIOUS
<1>2. /\ a[0] = base /\ b[0] = base
      /\ \A i \in 1 .. n : a[i] = IF i \in S THEN step[<<a[i - 1], i>>] ELSE a[i - 1]
      /\ \A i \in 1 .. n : b[i] = IF i \in T THEN step[<<b[i - 1], i>>] ELSE b[i - 1]
  BY <1>1, PartialRunIs DEF RunsPartly
<1>0. n \in Nat
  BY DEF Computes
<1> DEFINE P == {i \in 0 .. m : a[i] = b[i]}
<1>3. 0 \in P
  BY <1>2
<1>4. ASSUME NEW i \in 0 .. m, i \in P, i < m
      PROVE  i + 1 \in P
  <2>1. i + 1 \in 1 .. n /\ i + 1 \in 1 .. m /\ (i + 1) - 1 = i
    BY <1>0, <1>4
  <2>2. i + 1 \in S <=> i + 1 \in T
    BY <2>1
  <2>3. a[i] = b[i]
    BY <1>4
  <2>4. /\ a[i + 1] = IF i + 1 \in S THEN step[<<a[i], i + 1>>] ELSE a[i]
        /\ b[i + 1] = IF i + 1 \in T THEN step[<<b[i], i + 1>>] ELSE b[i]
    BY <1>2, <2>1
  <2>5. a[i + 1] = b[i + 1]
    BY <2>2, <2>3, <2>4
  <2> QED
    BY <2>1, <2>5
<1>5. m \in P
  <2> HIDE DEF P
  <2>1. \A i \in 0 .. m : i \in P /\ i < m => i + 1 \in P
    BY <1>4
  <2> QED
    BY <1>0, <1>3, <2>1, Reach
<1> QED
  BY <1>1, <1>5

\* The recursive function that a fold over a sequence is the end of.
Folds(f, n, base, step) ==
  /\ f[{}] = base
  /\ \A S \in SUBSET (1 .. n) :
       S # {} => f[S] = step[<<f[S \ {Seqs!Max(S)}], Seqs!Max(S)>>]

\* There is one.
LEMMA FoldExists ==
  ASSUME NEW A, NEW n, NEW base, NEW step, Computes(A, n, base, step)
  PROVE  \E f \in [SUBSET (1 .. n) -> A] : Folds(f, n, base, step)
<1>0. n \in Nat
  BY DEF Computes
<1>1. PICK f : f = [S \in SUBSET (1 .. n) |-> PartialRun(S, A, n, base, step)[n]]
  OBVIOUS
<1>2. ASSUME NEW S \in SUBSET (1 .. n)
      PROVE  f[S] = PartialRun(S, A, n, base, step)[n] /\ f[S] \in A
  BY <1>0, <1>1, PartialRunIs DEF RunsPartly
<1>3. f[{}] = base
  <2>1. PICK a : a = PartialRun({}, A, n, base, step)
    OBVIOUS
  <2>2. RunsPartly(a, {}, A, n, base, step)
    BY <2>1, PartialRunIs
  <2>5. a[0] = base /\ \A i \in 1 .. n : a[i] = IF i \in {} THEN step[<<a[i - 1], i>>]
                                                           ELSE a[i - 1]
    BY <2>2 DEF RunsPartly
  <2>3. a[0] = base /\ \A i \in 0 + 1 .. n : a[i] = a[i - 1]
    BY <1>0, <2>5
  <2>4. a[n] = a[0]
    BY <1>0, <2>3, Steady
  <2> QED
    BY <1>2, <2>1, <2>3, <2>4
<1>4. ASSUME NEW S \in SUBSET (1 .. n), S # {}, NEW m, m = Seqs!Max(S), NEW T, T = S \ {m}
      PROVE  f[S] = step[<<f[T], m>>]
  <2>1. m \in S /\ m \in 1 .. n /\ T \in SUBSET (1 .. n) /\ \A j \in S : j <= m
    BY <1>4, <1>0, LastPosition
  <2>2. PICK a, b : /\ a = PartialRun(S, A, n, base, step)
                    /\ b = PartialRun(T, A, n, base, step)
    OBVIOUS
  <2>3. /\ \A i \in 1 .. n : a[i] = IF i \in S THEN step[<<a[i - 1], i>>] ELSE a[i - 1]
        /\ \A i \in 1 .. n : b[i] = IF i \in T THEN step[<<b[i - 1], i>>] ELSE b[i - 1]
    BY <2>2, PartialRunIs DEF RunsPartly
  <2>4. a[n] = a[m]
    <3>1. \A i \in m + 1 .. n : i \in 1 .. n /\ i \notin S
      BY <2>1
    <3>2. \A i \in m + 1 .. n : a[i] = a[i - 1]
      BY <2>3, <3>1
    <3> QED
      BY <1>0, <2>1, <3>2, Steady
  <2>5. b[n] = b[m - 1]
    <3>1. \A i \in m .. n : i \in 1 .. n /\ i \notin T
      BY <1>4, <2>1
    <3>2. \A i \in m .. n : b[i] = b[i - 1]
      BY <2>1, <2>3, <3>1
    <3> QED
      BY <1>0, <2>1, <3>2, Steady
  <2>6. a[m - 1] = b[m - 1]
    <3>1. \A i \in 1 .. m - 1 : i \in S <=> i \in T
      BY <1>4, <2>1
    <3>2. m - 1 \in 0 .. n
      BY <1>0, <2>1
    <3> QED
      BY <2>2, <3>1, <3>2, PartialRunsAgree
  <2>7. a[m] = step[<<a[m - 1], m>>]
    BY <2>1, <2>3
  <2> QED
    BY <1>2, <2>1, <2>2, <2>4, <2>5, <2>6, <2>7
<1>5. f \in [SUBSET (1 .. n) -> A]
  BY <1>1, <1>2
<1>6. \A S \in SUBSET (1 .. n) :
         S # {} => f[S] = step[<<f[S \ {Seqs!Max(S)}], Seqs!Max(S)>>]
  BY <1>4
<1> QED
  BY <1>3, <1>5, <1>6 DEF Folds

\* The positions up to one, and the last of them.
LEMMA Prefix ==
  ASSUME NEW n \in Nat, NEW i \in 1 .. n
  PROVE  /\ 1 .. i \in SUBSET (1 .. n) /\ 1 .. i # {}
         /\ Seqs!Max(1 .. i) = i /\ (1 .. i) \ {i} = 1 .. (i - 1)
<1>1. 1 .. i \in SUBSET (1 .. n) /\ 1 .. i # {} /\ i \in Nat
  OBVIOUS
<1>2. Seqs!Max(1 .. i) \in 1 .. i /\ \A j \in 1 .. i : j <= Seqs!Max(1 .. i)
  BY <1>1, LastPosition
<1>3. Seqs!Max(1 .. i) = i
  BY <1>1, <1>2
<1>4. (1 .. i) \ {i} = 1 .. (i - 1)
  BY <1>1
<1> QED
  BY <1>1, <1>3, <1>4

\* What a function that folds has for the prefixes is a run.
LEMMA FoldRuns ==
  ASSUME NEW A, NEW n, NEW base, NEW step, Computes(A, n, base, step),
         NEW f, Folds(f, n, base, step)
  PROVE  \E a : IsRun(a, A, n, base, step) /\ a[n] = f[1 .. n]
<1>0. n \in Nat /\ base \in A /\ \A x \in A, i \in 1 .. n : step[<<x, i>>] \in A
  BY DEF Computes
<1>1. f[1 .. 0] = base
  <2>1. 1 .. 0 = {}
    OBVIOUS
  <2> QED
    BY <2>1 DEF Folds
<1>2. ASSUME NEW i \in 1 .. n
      PROVE  f[1 .. i] = step[<<f[1 .. (i - 1)], i>>]
  <2>1. /\ 1 .. i \in SUBSET (1 .. n) /\ 1 .. i # {}
        /\ Seqs!Max(1 .. i) = i /\ (1 .. i) \ {i} = 1 .. (i - 1)
    BY <1>0, Prefix
  <2>2. f[1 .. i] = step[<<f[(1 .. i) \ {Seqs!Max(1 .. i)}], Seqs!Max(1 .. i)>>]
    BY <2>1 DEF Folds
  <2> QED
    BY <2>1, <2>2
<1> DEFINE P == {i \in 0 .. n : f[1 .. i] \in A}
<1>3. ASSUME NEW i \in 0 .. n
      PROVE  f[1 .. i] \in A
  <2>1. 0 \in P
    BY <1>0, <1>1
  <2>2. ASSUME NEW k \in 0 .. i, k \in P, k < i
        PROVE  k + 1 \in P
    <3>1. k + 1 \in 1 .. n /\ (k + 1) - 1 = k
      BY <1>0, <2>2
    <3>2. f[1 .. k + 1] = step[<<f[1 .. k], k + 1>>]
      BY <1>2, <3>1
    <3> QED
      BY <1>0, <2>2, <3>1, <3>2
  <2>3. i \in P
    <3> HIDE DEF P
    <3>1. \A k \in 0 .. i : k \in P /\ k < i => k + 1 \in P
      BY <2>2
    <3> QED
      BY <1>0, <2>1, <3>1, Reach
  <2> QED
    BY <2>3
<1>4. PICK a : a = [i \in 0 .. n |-> f[1 .. i]]
  OBVIOUS
<1>5. a \in [0 .. n -> A] /\ a[0] = base /\ a[n] = f[1 .. n]
  BY <1>0, <1>1, <1>3, <1>4
<1>6. \A i \in 1 .. n : a[i] = step[<<a[i - 1], i>>]
  BY <1>0, <1>2, <1>4
<1> QED
  BY <1>5, <1>6 DEF IsRun

\* What the options of an entry make of up.
UpAfterAll(up, s) == Seqs!FoldLeft(UpAfter, up, s)

\* The values of up on the way through them.
UpRuns(a, up, s, n, A) ==
  /\ a \in [0 .. n -> A] /\ a[0] = up
  /\ \A i \in 1 .. n : a[i] = UpAfter(a[i - 1], s[i])
  /\ a[n] = UpAfterAll(up, s)

\* The options end such a run.
LEMMA UpRun ==
  ASSUME NEW up, NEW s, NEW n \in Nat, DOMAIN s = 1 .. n, NEW A, up \in A,
         \A x \in A, i \in 1 .. n : UpAfter(x, s[i]) \in A
  PROVE  \E a : UpRuns(a, up, s, n, A)
<1> DEFINE Def(h) == [S \in SUBSET (1 .. n) |->
                        IF S = {} THEN up
                        ELSE UpAfter(h[S \ {Seqs!Max(S)}], s[Seqs!Max(S)])]
           f == CHOOSE h : h = Def(h)
<1>1. PICK step : step = [x \in (A \cup {f[S] : S \in SUBSET (1 .. n)}) \X (1 .. n) |->
                            UpAfter(x[1], s[x[2]])]
  OBVIOUS
<1>2. Computes(A, n, up, step)
  <2> HIDE DEF f
  <2>1. \A x \in A, i \in 1 .. n : step[<<x, i>>] = UpAfter(x, s[i])
    BY <1>1
  <2> QED
    BY <2>1 DEF Computes
<1>3. f = Def(f)
  <2>1. PICK g \in [SUBSET (1 .. n) -> A] : Folds(g, n, up, step)
    BY <1>2, FoldExists
  <2>2. ASSUME NEW S \in SUBSET (1 .. n), S # {}
        PROVE  g[S] = UpAfter(g[S \ {Seqs!Max(S)}], s[Seqs!Max(S)])
    <3> HIDE DEF f
    <3>1. Seqs!Max(S) \in 1 .. n
      BY <2>2, LastPosition
    <3>2. g[S \ {Seqs!Max(S)}] \in A
      OBVIOUS
    <3>3. \A x \in A, i \in 1 .. n : step[<<x, i>>] = UpAfter(x, s[i])
      BY <1>1
    <3> QED
      BY <2>1, <2>2, <3>1, <3>2, <3>3 DEF Folds
  <2>3. g = Def(g)
    BY <2>1, <2>2 DEF Folds
  <2> HIDE DEF Def
  <2> QED
    BY <2>3
<1>4. Seqs!FoldLeft(UpAfter, up, s) = f[1 .. n]
  BY DEF Seqs!FoldLeft, Seqs!MapThenFoldSet
<1> HIDE DEF f
<1>5. ASSUME NEW S \in SUBSET (1 .. n), S # {}
      PROVE  f[S] = step[<<f[S \ {Seqs!Max(S)}], Seqs!Max(S)>>]
  <2>1. Seqs!Max(S) \in 1 .. n /\ S \ {Seqs!Max(S)} \in SUBSET (1 .. n)
    BY <1>5, LastPosition
  <2>2. f[S] = UpAfter(f[S \ {Seqs!Max(S)}], s[Seqs!Max(S)])
    BY <1>3, <1>5
  <2> QED
    BY <1>1, <2>1, <2>2
<1>6. Folds(f, n, up, step)
  <2>1. f[{}] = up
    BY <1>3
  <2> QED
    BY <1>5, <2>1 DEF Folds
<1>7. PICK a : IsRun(a, A, n, up, step) /\ a[n] = f[1 .. n]
  BY <1>2, <1>6, FoldRuns
<1>8. ASSUME NEW i \in 1 .. n
      PROVE  a[i] = UpAfter(a[i - 1], s[i])
  <2>1. a[i - 1] \in A /\ a[i] = step[<<a[i - 1], i>>]
    BY <1>7 DEF IsRun
  <2> QED
    BY <1>1, <2>1
<1> QED
  BY <1>4, <1>7, <1>8 DEF IsRun, UpRuns, UpAfterAll

\* DescriptorIds, without the name of the fold.
Identifiers(s) == Seqs!FoldLeft(WithDescriptor, <<>>, s)

\* The identifiers on the way through the descriptors.
IdRuns(a, s, n, A) ==
  /\ a \in [0 .. n -> A] /\ a[0] = <<>>
  /\ \A i \in 1 .. n : a[i] = WithDescriptor(a[i - 1], s[i])
  /\ a[n] = Identifiers(s)

\* The identifiers end such a run.
LEMMA DescriptorsRun ==
  ASSUME NEW s, NEW n \in Nat, DOMAIN s = 1 .. n, NEW A, <<>> \in A,
         \A x \in A, i \in 1 .. n : WithDescriptor(x, s[i]) \in A
  PROVE  \E a : IdRuns(a, s, n, A)
<1> DEFINE Def(h) == [S \in SUBSET (1 .. n) |->
                        IF S = {} THEN <<>>
                        ELSE WithDescriptor(h[S \ {Seqs!Max(S)}], s[Seqs!Max(S)])]
           f == CHOOSE h : h = Def(h)
<1>1. PICK step : step = [x \in (A \cup {f[S] : S \in SUBSET (1 .. n)}) \X (1 .. n) |->
                            WithDescriptor(x[1], s[x[2]])]
  OBVIOUS
<1>2. Computes(A, n, <<>>, step)
  <2> HIDE DEF f
  <2>1. \A x \in A, i \in 1 .. n : step[<<x, i>>] = WithDescriptor(x, s[i])
    BY <1>1
  <2> QED
    BY <2>1 DEF Computes
<1>3. f = Def(f)
  <2>1. PICK g \in [SUBSET (1 .. n) -> A] : Folds(g, n, <<>>, step)
    BY <1>2, FoldExists
  <2>2. ASSUME NEW S \in SUBSET (1 .. n), S # {}
        PROVE  g[S] = WithDescriptor(g[S \ {Seqs!Max(S)}], s[Seqs!Max(S)])
    <3> HIDE DEF f
    <3>1. Seqs!Max(S) \in 1 .. n
      BY <2>2, LastPosition
    <3>2. g[S \ {Seqs!Max(S)}] \in A
      OBVIOUS
    <3>3. \A x \in A, i \in 1 .. n : step[<<x, i>>] = WithDescriptor(x, s[i])
      BY <1>1
    <3> QED
      BY <2>1, <2>2, <3>1, <3>2, <3>3 DEF Folds
  <2>3. g = Def(g)
    BY <2>1, <2>2 DEF Folds
  <2> HIDE DEF Def
  <2> QED
    BY <2>3
<1>4. Seqs!FoldLeft(WithDescriptor, <<>>, s) = f[1 .. n]
  BY DEF Seqs!FoldLeft, Seqs!MapThenFoldSet
<1> HIDE DEF f
<1>5. ASSUME NEW S \in SUBSET (1 .. n), S # {}
      PROVE  f[S] = step[<<f[S \ {Seqs!Max(S)}], Seqs!Max(S)>>]
  <2>1. Seqs!Max(S) \in 1 .. n /\ S \ {Seqs!Max(S)} \in SUBSET (1 .. n)
    BY <1>5, LastPosition
  <2>2. f[S] = WithDescriptor(f[S \ {Seqs!Max(S)}], s[Seqs!Max(S)])
    BY <1>3, <1>5
  <2> QED
    BY <1>1, <2>1, <2>2
<1>6. Folds(f, n, <<>>, step)
  <2>1. f[{}] = <<>>
    BY <1>3
  <2> QED
    BY <1>5, <2>1 DEF Folds
<1>7. PICK a : IsRun(a, A, n, <<>>, step) /\ a[n] = f[1 .. n]
  BY <1>2, <1>6, FoldRuns
<1>8. ASSUME NEW i \in 1 .. n
      PROVE  a[i] = WithDescriptor(a[i - 1], s[i])
  <2>1. a[i - 1] \in A /\ a[i] = step[<<a[i - 1], i>>]
    BY <1>7 DEF IsRun
  <2> QED
    BY <1>1, <2>1
<1> QED
  BY <1>4, <1>7, <1>8 DEF IsRun, IdRuns, Identifiers

\* What is read of the entries.
ReadAll(s) == Seqs!FoldLeft(ReadEntry, Defaults, s)

\* The requests on the way through the entries.
Reads(a, s, n, A) ==
  /\ a \in [0 .. n -> A] /\ a[0] = Defaults
  /\ \A i \in 1 .. n : a[i] = ReadEntry(a[i - 1], s[i])
  /\ a[n] = ReadAll(s)

\* The request ends such a run.
LEMMA ReadRun ==
  ASSUME NEW s, NEW n \in Nat, DOMAIN s = 1 .. n, NEW A, Defaults \in A,
         \A x \in A, i \in 1 .. n : ReadEntry(x, s[i]) \in A
  PROVE  \E a : Reads(a, s, n, A)
<1> DEFINE Def(h) == [S \in SUBSET (1 .. n) |->
                        IF S = {} THEN Defaults
                        ELSE ReadEntry(h[S \ {Seqs!Max(S)}], s[Seqs!Max(S)])]
           f == CHOOSE h : h = Def(h)
<1>1. PICK step : step = [x \in (A \cup {f[S] : S \in SUBSET (1 .. n)}) \X (1 .. n) |->
                            ReadEntry(x[1], s[x[2]])]
  OBVIOUS
<1>2. Computes(A, n, Defaults, step)
  <2> HIDE DEF f
  <2>1. \A x \in A, i \in 1 .. n : step[<<x, i>>] = ReadEntry(x, s[i])
    BY <1>1
  <2> QED
    BY <2>1 DEF Computes
<1>3. f = Def(f)
  <2>1. PICK g \in [SUBSET (1 .. n) -> A] : Folds(g, n, Defaults, step)
    BY <1>2, FoldExists
  <2>2. ASSUME NEW S \in SUBSET (1 .. n), S # {}
        PROVE  g[S] = ReadEntry(g[S \ {Seqs!Max(S)}], s[Seqs!Max(S)])
    <3> HIDE DEF f
    <3>1. Seqs!Max(S) \in 1 .. n
      BY <2>2, LastPosition
    <3>2. g[S \ {Seqs!Max(S)}] \in A
      OBVIOUS
    <3>3. \A x \in A, i \in 1 .. n : step[<<x, i>>] = ReadEntry(x, s[i])
      BY <1>1
    <3> QED
      BY <2>1, <2>2, <3>1, <3>2, <3>3 DEF Folds
  <2>3. g = Def(g)
    BY <2>1, <2>2 DEF Folds
  <2> HIDE DEF Def
  <2> QED
    BY <2>3
<1>4. Seqs!FoldLeft(ReadEntry, Defaults, s) = f[1 .. n]
  BY DEF Seqs!FoldLeft, Seqs!MapThenFoldSet
<1> HIDE DEF f
<1>5. ASSUME NEW S \in SUBSET (1 .. n), S # {}
      PROVE  f[S] = step[<<f[S \ {Seqs!Max(S)}], Seqs!Max(S)>>]
  <2>1. Seqs!Max(S) \in 1 .. n /\ S \ {Seqs!Max(S)} \in SUBSET (1 .. n)
    BY <1>5, LastPosition
  <2>2. f[S] = ReadEntry(f[S \ {Seqs!Max(S)}], s[Seqs!Max(S)])
    BY <1>3, <1>5
  <2> QED
    BY <1>1, <2>1, <2>2
<1>6. Folds(f, n, Defaults, step)
  <2>1. f[{}] = Defaults
    BY <1>3
  <2> QED
    BY <1>5, <2>1 DEF Folds
<1>7. PICK a : IsRun(a, A, n, Defaults, step) /\ a[n] = f[1 .. n]
  BY <1>2, <1>6, FoldRuns
<1>8. ASSUME NEW i \in 1 .. n
      PROVE  a[i] = ReadEntry(a[i - 1], s[i])
  <2>1. a[i - 1] \in A /\ a[i] = step[<<a[i - 1], i>>]
    BY <1>7 DEF IsRun
  <2> QED
    BY <1>1, <2>1
<1> QED
  BY <1>4, <1>7, <1>8 DEF IsRun, Reads, ReadAll

-----------------------------------------------------------------------------
(***************************************************************************)
(* What is read of an assertion, entry by entry.                           *)
(***************************************************************************)

\* Somewhere in the first k positions there is a No with no Yes behind it.
LastIsNo(No, Yes, k) ==
  \E i \in 1 .. k : i \in No /\ \A j \in 1 .. k : j > i => j \notin Yes

\* A switch that each No turns off and each Yes on, a position that is both
\* turning it off.
Switched(Off, No, Yes, n) ==
  \A k \in 1 .. n : k \in Off <=> k \in No \/ (k - 1 \in Off /\ k \notin Yes)

\* It is off in the end where No has the last word, or nobody any and it was off.
LEMMA LastWord ==
  ASSUME NEW n \in Nat, NEW Off, NEW No, NEW Yes, Switched(Off, No, Yes, n)
  PROVE  n \in Off <=> \/ LastIsNo(No, Yes, n)
                       \/ 0 \in Off /\ \A j \in 1 .. n : j \notin Yes
<1> DEFINE W(k) == \/ LastIsNo(No, Yes, k)
                   \/ 0 \in Off /\ \A j \in 1 .. k : j \notin Yes
           P == {k \in 0 .. n : k \in Off <=> W(k)}
<1>1. 0 \in P
  BY DEF LastIsNo
<1>2. ASSUME NEW k \in 0 .. n, k \in P, k < n
      PROVE  k + 1 \in P
  <2>1. k + 1 \in 1 .. n /\ (k + 1) - 1 = k /\ k + 1 \in 0 .. n
    BY <1>2
  <2>2. k + 1 \in Off <=> k + 1 \in No \/ (k \in Off /\ k + 1 \notin Yes)
    BY <2>1 DEF Switched
  <2>3. \A i \in 1 .. k + 1 : i \in 1 .. k \/ i = k + 1
    BY <2>1
  <2>4. 1 .. k \subseteq 1 .. k + 1 /\ k + 1 \in 1 .. k + 1 /\ k + 1 \notin 1 .. k
    BY <2>1
  <2>5. /\ \A i \in 1 .. k : k + 1 > i
        /\ \A i \in 1 .. k + 1 : ~(i > k + 1)
    BY <2>1
  <2>6. ASSUME k + 1 \in No
        PROVE  LastIsNo(No, Yes, k + 1)
    BY <2>4, <2>5, <2>6 DEF LastIsNo
  <2>7. ASSUME k + 1 \notin No
        PROVE  LastIsNo(No, Yes, k + 1) <=> LastIsNo(No, Yes, k) /\ k + 1 \notin Yes
    <3>1. ASSUME LastIsNo(No, Yes, k + 1)
          PROVE  LastIsNo(No, Yes, k) /\ k + 1 \notin Yes
      <4>1. PICK i \in 1 .. k + 1 : i \in No /\ \A j \in 1 .. k + 1 : j > i => j \notin Yes
        BY <3>1 DEF LastIsNo
      <4>2. i \in 1 .. k
        BY <2>3, <2>7, <4>1
      <4> QED
        BY <2>4, <2>5, <4>1, <4>2 DEF LastIsNo
    <3>2. ASSUME LastIsNo(No, Yes, k), k + 1 \notin Yes
          PROVE  LastIsNo(No, Yes, k + 1)
      <4>1. PICK i \in 1 .. k : i \in No /\ \A j \in 1 .. k : j > i => j \notin Yes
        BY <3>2 DEF LastIsNo
      <4> QED
        BY <2>3, <2>4, <3>2, <4>1 DEF LastIsNo
    <3> QED
      BY <3>1, <3>2
  <2>8. (\A j \in 1 .. k + 1 : j \notin Yes) <=>
          (\A j \in 1 .. k : j \notin Yes) /\ k + 1 \notin Yes
    BY <2>3, <2>4
  <2>9. k \in Off <=> W(k)
    BY <1>2
  <2>10. k + 1 \in Off <=> W(k + 1)
    <3>1. PICK p, q, u, v : /\ p = LastIsNo(No, Yes, k) /\ q = LastIsNo(No, Yes, k + 1)
                            /\ u = (\A j \in 1 .. k : j \notin Yes)
                            /\ v = (\A j \in 1 .. k + 1 : j \notin Yes)
      OBVIOUS
    <3> QED
      BY <2>2, <2>6, <2>7, <2>8, <2>9
  <2> QED
    BY <2>1, <2>10
<1>3. n \in P
  <2> HIDE DEF P
  <2>1. \A k \in 0 .. n : k \in P /\ k < n => k + 1 \in P
    BY <1>2
  <2> QED
    BY <1>1, <2>1, Reach
<1> QED
  BY <1>3

\* The fields of a map that set up to b.
Setting(s, b) ==
  {k \in DOMAIN s : s[k].key = "up" /\ Is("bool", s[k].value) /\ s[k].value.bool = b}

\* The last option of a map to set up decides, or the request so far.
LEMMA OptionsUp ==
  ASSUME NEW up \in BOOLEAN, NEW s, IsSequence(s),
         \A i \in DOMAIN s : Is("bool", s[i].value) => s[i].value.bool \in BOOLEAN
  PROVE  /\ UpAfterAll(up, s) \in BOOLEAN
         /\ UpAfterAll(up, s) = FALSE <=>
              \/ \E k \in Setting(s, FALSE) : \A l \in Setting(s, TRUE) : ~(l > k)
              \/ up = FALSE /\ Setting(s, TRUE) = {}
<1>1. PICK n \in Nat : n = Len(s) /\ DOMAIN s = 1 .. n
  BY SequenceDomain
<1>0. PICK A : A = BOOLEAN
  OBVIOUS
<1>2. up \in A /\ \A x \in A, i \in 1 .. n : UpAfter(x, s[i]) \in A
  BY <1>0, <1>1 DEF UpAfter
<1>3. PICK a : UpRuns(a, up, s, n, A)
  BY <1>1, <1>2, UpRun
<1>4. PICK Off, No, Yes : /\ Off = {k \in 0 .. n : a[k] = FALSE}
                          /\ No = Setting(s, FALSE) /\ Yes = Setting(s, TRUE)
  OBVIOUS
<1>5. No \in SUBSET (1 .. n) /\ Yes \in SUBSET (1 .. n)
  BY <1>1, <1>4 DEF Setting
<1>6. ASSUME NEW k \in 1 .. n
      PROVE  k \in Off <=> k \in No \/ (k - 1 \in Off /\ k \notin Yes)
  <2>1. k - 1 \in 0 .. n /\ k \in 0 .. n
    OBVIOUS
  <2>2. a[k] = UpAfter(a[k - 1], s[k]) /\ a[k - 1] \in BOOLEAN
    BY <1>0, <1>3, <2>1 DEF UpRuns
  <2>3. CASE s[k].key = "up" /\ Is("bool", s[k].value)
    <3>1. a[k] = s[k].value.bool
      BY <2>2, <2>3 DEF UpAfter
    <3>2. s[k].value.bool \in BOOLEAN
      BY <1>1, <2>3
    <3>3. /\ k \in No <=> s[k].value.bool = FALSE
          /\ k \in Yes <=> s[k].value.bool = TRUE
      BY <1>1, <1>4, <2>3 DEF Setting
    <3>4. k \in Off <=> a[k] = FALSE
      BY <1>4, <2>1
    <3> QED
      BY <3>1, <3>2, <3>3, <3>4
  <2>4. CASE ~(s[k].key = "up" /\ Is("bool", s[k].value))
    <3>1. a[k] = a[k - 1]
      BY <2>2, <2>4 DEF UpAfter
    <3>2. k \notin No /\ k \notin Yes
      BY <1>4, <2>4 DEF Setting
    <3> QED
      BY <1>4, <2>1, <3>1, <3>2
  <2> QED
    BY <2>3, <2>4
<1>7. n \in Off <=> \/ LastIsNo(No, Yes, n)
                    \/ 0 \in Off /\ \A j \in 1 .. n : j \notin Yes
  BY <1>6, LastWord DEF Switched
<1>8. LastIsNo(No, Yes, n) <=> \E k \in No : \A l \in Yes : ~(l > k)
  BY <1>5 DEF LastIsNo
<1>9. (\A j \in 1 .. n : j \notin Yes) <=> Yes = {}
  BY <1>5
<1>10. /\ n \in Off <=> UpAfterAll(up, s) = FALSE
       /\ 0 \in Off <=> up = FALSE
  BY <1>3, <1>4 DEF UpRuns
<1>11. UpAfterAll(up, s) \in BOOLEAN
  BY <1>0, <1>3 DEF UpRuns
<1>12. UpAfterAll(up, s) = FALSE <=>
         \/ \E k \in No : \A l \in Yes : ~(l > k)
         \/ up = FALSE /\ Yes = {}
  BY <1>7, <1>8, <1>9, <1>10
<1> QED
  BY <1>4, <1>11, <1>12

\* What an entry makes of each part of a request r.
Reading(x, r, e, ids, up) ==
  /\ x.rp = IF e.key = "rpId" /\ Is("text", e.value) THEN Some(e.value.text) ELSE r.rp
  /\ x.hash = IF e.key = "clientDataHash" /\ Is("bytes", e.value)
              THEN Some(e.value.bytes) \cap Hashes ELSE r.hash
  /\ x.allow = IF e.key = "allowList" /\ Is("array", e.value) THEN ids ELSE r.allow
  /\ x.up = IF e.key = "options" /\ Is("map", e.value) THEN up ELSE r.up

\* That is what ReadEntry does.
LEMMA EntryRead ==
  ASSUME NEW R, NEW H, NEW W, NEW r \in [rp : R, hash : H, allow : W, up : BOOLEAN],
         NEW e, NEW x, x = ReadEntry(r, e), NEW ids, ids = Identifiers(e.value.array),
         NEW up, up = UpAfterAll(r.up, e.value.map)
  PROVE  /\ Reading(x, r, e, ids, up)
         /\ x = [rp |-> x.rp, hash |-> x.hash, allow |-> x.allow, up |-> x.up]
<1>1. ids = DescriptorIds(e.value.array)
  BY DEF DescriptorIds, Identifiers
<1>2. PICK rp, hash : rp = Some(e.value.text) /\ hash = Some(e.value.bytes) \cap Hashes
  OBVIOUS
<1>3. CASE e.key = "rpId" /\ Is("text", e.value)
  <2>1. x = [r EXCEPT !.rp = rp]
    BY <1>2, <1>3 DEF ReadEntry
  <2> QED
    BY <1>2, <1>3, <2>1 DEF Reading
<1>4. CASE e.key = "clientDataHash" /\ Is("bytes", e.value)
  <2>1. x = [r EXCEPT !.hash = hash]
    BY <1>2, <1>4 DEF ReadEntry
  <2> QED
    BY <1>2, <1>4, <2>1 DEF Reading
<1>5. CASE e.key = "allowList" /\ Is("array", e.value)
  <2>1. x = [r EXCEPT !.allow = ids]
    BY <1>1, <1>5 DEF ReadEntry
  <2> QED
    BY <1>5, <2>1 DEF Reading
<1>6. CASE e.key = "options" /\ Is("map", e.value)
  <2>1. x = [r EXCEPT !.up = up]
    BY <1>6 DEF ReadEntry, UpAfterAll
  <2> QED
    BY <1>6, <2>1 DEF Reading
<1>7. CASE /\ ~(e.key = "rpId" /\ Is("text", e.value))
           /\ ~(e.key = "clientDataHash" /\ Is("bytes", e.value))
           /\ ~(e.key = "allowList" /\ Is("array", e.value))
           /\ ~(e.key = "options" /\ Is("map", e.value))
  <2>1. x = r
    BY <1>7 DEF ReadEntry
  <2> QED
    BY <1>7, <2>1 DEF Reading
<1> QED
  BY <1>3, <1>4, <1>5, <1>6, <1>7

\* What the parts may become.
Rps(s)    == {None} \cup {Some(s[i].value.text) : i \in DOMAIN s}
HashesOf(s) == {None} \cup {Some(s[i].value.bytes) \cap Hashes : i \in DOMAIN s}
Allows(s) == {<<>>} \cup {Identifiers(s[i].value.array) : i \in DOMAIN s}

Requests(s) == [rp : Rps(s), hash : HashesOf(s), allow : Allows(s), up : BOOLEAN]

\* The entries are read one by one.
LEMMA RequestRuns ==
  ASSUME NEW s \in Seq(Fields), NEW n \in Nat, n = Len(s)
  PROVE  \E a : Reads(a, s, n, Requests(s))
<1>1. DOMAIN s = 1 .. n /\ \A i \in 1 .. n : WellBuilt(s[i].value)
  BY SentWellBuilt
<1>2. Defaults \in Requests(s)
  BY DEF Defaults, Requests, Rps, HashesOf, Allows
<1>3. ASSUME NEW x \in Requests(s), NEW i \in 1 .. n
      PROVE  ReadEntry(x, s[i]) \in Requests(s)
  <2>1. PICK e : e = s[i]
    OBVIOUS
  <2>2. PICK R, H, W : R = Rps(s) /\ H = HashesOf(s) /\ W = Allows(s)
    OBVIOUS
  <2>3. x \in [rp : R, hash : H, allow : W, up : BOOLEAN]
    BY <2>2 DEF Requests
  <2>4. PICK y, ids, up : /\ y = ReadEntry(x, e)
                          /\ ids = Identifiers(e.value.array)
                          /\ up = UpAfterAll(x.up, e.value.map)
    OBVIOUS
  <2>5. /\ Reading(y, x, e, ids, up)
        /\ y = [rp |-> y.rp, hash |-> y.hash, allow |-> y.allow, up |-> y.up]
    BY <2>3, <2>4, EntryRead
  <2>6. /\ Some(e.value.text) \in R /\ Some(e.value.bytes) \cap Hashes \in H
        /\ Identifiers(e.value.array) \in W
    BY <1>1, <2>1, <2>2 DEF Rps, HashesOf, Allows
  <2>7. Is("map", e.value) => up \in BOOLEAN
    <3>1. ASSUME Is("map", e.value)
          PROVE  /\ IsSequence(e.value.map)
                 /\ \A k \in DOMAIN e.value.map :
                      Is("bool", e.value.map[k].value) => e.value.map[k].value.bool \in BOOLEAN
      BY <1>1, <2>1, <3>1 DEF WellBuilt, Entries
    <3>2. x.up \in BOOLEAN
      BY <2>3
    <3> QED
      BY <2>4, <3>1, <3>2, OptionsUp
  <2>8. y.rp \in R /\ y.hash \in H /\ y.allow \in W /\ y.up \in BOOLEAN
    BY <2>3, <2>4, <2>5, <2>6, <2>7 DEF Reading
  <2> QED
    BY <2>1, <2>2, <2>4, <2>5, <2>8 DEF Requests
<1> QED
  BY <1>1, <1>2, <1>3, ReadRun

\* What an entry of the request does on the way.
LEMMA RequestStep ==
  ASSUME NEW s, NEW n \in Nat, NEW a, Reads(a, s, n, Requests(s)), NEW i \in 1 .. n,
         NEW r, r = a[i - 1], NEW x, x = a[i], NEW e, e = s[i],
         NEW ids, ids = Identifiers(e.value.array),
         NEW up, up = UpAfterAll(r.up, e.value.map)
  PROVE  r \in Requests(s) /\ x \in Requests(s) /\ Reading(x, r, e, ids, up)
<1>1. r \in Requests(s) /\ x \in Requests(s) /\ x = ReadEntry(r, e)
  BY DEF Reads
<1>2. r \in [rp : Rps(s), hash : HashesOf(s), allow : Allows(s), up : BOOLEAN]
  BY <1>1 DEF Requests
<1> QED
  BY <1>1, <1>2, EntryRead

\* The assertion is what the entries end with.
LEMMA AssertionRead ==
  ASSUME NEW n, NEW a, NEW A, Reads(a, entries, n, A)
  PROVE  Assertion(Payload) = a[n]
BY PayloadEntries DEF Reads, ReadAll, Assertion

\* The options of entry i that set up to b.
Sets(i, b) == {k \in DOMAIN Entries(entries[i].value) : SaysUp(i, k, b)}

\* An entry turns presence off where the last of its options to set it does, and
\* on where one does and no later one turns it off.
LEMMA EntryUp ==
  ASSUME Sent, NEW n \in Nat, NEW a, Reads(a, entries, n, Requests(entries)),
         NEW i \in 1 .. n, i \in DOMAIN entries
  PROVE  /\ a[i - 1].up \in BOOLEAN /\ a[i].up \in BOOLEAN
         /\ a[i].up = FALSE <=>
              \/ \E k \in Sets(i, FALSE) : \A l \in Sets(i, TRUE) : ~(l > k)
              \/ a[i - 1].up = FALSE /\ Sets(i, TRUE) = {}
<1>1. PICK e, r, x, ids, up :
        /\ e = entries[i] /\ r = a[i - 1] /\ x = a[i]
        /\ ids = Identifiers(e.value.array) /\ up = UpAfterAll(r.up, e.value.map)
  OBVIOUS
<1>2. r \in Requests(entries) /\ x \in Requests(entries) /\ Reading(x, r, e, ids, up)
  BY <1>1, RequestStep
<1>3. r.up \in BOOLEAN /\ x.up \in BOOLEAN
  BY <1>2 DEF Requests
<1>4. PICK No, Yes : No = Sets(i, FALSE) /\ Yes = Sets(i, TRUE)
  OBVIOUS
<1>5. x.up = FALSE <=> \/ \E k \in No : \A l \in Yes : ~(l > k)
                       \/ r.up = FALSE /\ Yes = {}
  <2>1. CASE e.key = "options" /\ Is("map", e.value)
    <3>1. PICK s : s = e.value.map
      OBVIOUS
    <3>2. /\ IsSequence(s) /\ s = Entries(e.value)
          /\ \A k \in DOMAIN s : Is("bool", s[k].value) => s[k].value.bool \in BOOLEAN
      BY <1>1, <2>1, <3>1, SentWellBuilt DEF WellBuilt, Entries, Sent
    <3>3. No = Setting(s, FALSE) /\ Yes = Setting(s, TRUE)
      BY <1>1, <1>4, <2>1, <3>2 DEF Sets, Setting, SaysUp
    <3>4. x.up = UpAfterAll(r.up, s)
      BY <1>1, <1>2, <2>1, <3>1 DEF Reading
    <3> QED
      BY <1>3, <3>2, <3>3, <3>4, OptionsUp
  <2>2. CASE ~(e.key = "options" /\ Is("map", e.value))
    <3>1. x.up = r.up
      BY <1>2, <2>2 DEF Reading
    <3>2. No = {} /\ Yes = {}
      BY <1>1, <1>4, <2>2 DEF Sets, SaysUp, Entries
    <3> QED
      BY <3>1, <3>2
  <2> QED
    BY <2>1, <2>2
<1> QED
  BY <1>1, <1>3, <1>4, <1>5

\* An assertion is made without asking exactly where the last option to set up
\* says so, however many entries and options the request has, whichever of them
\* it repeats, in one map or in several, and whatever is ill-typed among them.
THEOREM PresenceKept == Spec => []PresenceWaivedExplicitly
<1>1. ASSUME Sent
      PROVE  PresenceWaivedExplicitly
  <2>1. PICK n \in Nat : n = Len(entries) /\ DOMAIN entries = 1 .. n
    BY <1>1, SentWellBuilt, SequenceDomain DEF Sent
  <2>2. PICK a : Reads(a, entries, n, Requests(entries))
    BY <1>1, <2>1, RequestRuns DEF Sent
  <2>3. PICK Off, No, Yes :
          /\ Off = {i \in 0 .. n : a[i].up = FALSE}
          /\ No = {i \in 1 .. n : \E k \in Sets(i, FALSE) :
                                    \A l \in Sets(i, TRUE) : ~(l > k)}
          /\ Yes = {i \in 1 .. n : Sets(i, TRUE) # {}}
    OBVIOUS
  <2>4. ASSUME NEW i \in 1 .. n
        PROVE  i \in Off <=> i \in No \/ (i - 1 \in Off /\ i \notin Yes)
    <3>1. a[i].up = FALSE <=>
            \/ \E k \in Sets(i, FALSE) : \A l \in Sets(i, TRUE) : ~(l > k)
            \/ a[i - 1].up = FALSE /\ Sets(i, TRUE) = {}
      BY <1>1, <2>1, <2>2, EntryUp
    <3>2. /\ i \in Off <=> a[i].up = FALSE
          /\ i - 1 \in Off <=> a[i - 1].up = FALSE
      BY <2>3
    <3> QED
      BY <2>3, <3>1, <3>2
  <2>5. 0 \notin Off
    <3>1. a[0].up = TRUE
      BY <2>2 DEF Reads, Defaults
    <3> QED
      BY <2>3, <3>1
  <2>6. n \in Off <=> LastIsNo(No, Yes, n)
    BY <2>4, <2>5, LastWord DEF Switched
  <2>7. ~Assertion(Payload).up <=> n \in Off
    <3>1. Assertion(Payload) = a[n] /\ a[n] \in Requests(entries)
      <4>1. a[n] \in Requests(entries)
        BY <2>2 DEF Reads
      <4> QED
        BY <2>2, <4>1, AssertionRead
    <3>2. a[n].up \in BOOLEAN
      BY <3>1 DEF Requests
    <3> QED
      BY <2>3, <3>1, <3>2
  <2> DEFINE Last(i, k) ==
        /\ k \in Sets(i, FALSE)
        /\ \A j \in 1 .. n : \A l \in Sets(j, TRUE) : ~Behind(j, l, i, k)
  <2>8. LastIsNo(No, Yes, n) <=> \E i \in 1 .. n : \E k \in Sets(i, FALSE) : Last(i, k)
    <3>1. ASSUME LastIsNo(No, Yes, n)
          PROVE  \E i \in 1 .. n : \E k \in Sets(i, FALSE) : Last(i, k)
      <4>1. PICK i \in 1 .. n : i \in No /\ \A j \in 1 .. n : j > i => j \notin Yes
        BY <3>1 DEF LastIsNo
      <4>2. PICK k \in Sets(i, FALSE) : \A l \in Sets(i, TRUE) : ~(l > k)
        BY <2>3, <4>1
      <4>3. \A j \in 1 .. n : j > i => Sets(j, TRUE) = {}
        BY <2>3, <4>1
      <4>4. Last(i, k)
        BY <4>2, <4>3 DEF Behind
      <4> QED
        BY <4>2, <4>4
    <3>2. ASSUME NEW i \in 1 .. n, NEW k \in Sets(i, FALSE), Last(i, k)
          PROVE  LastIsNo(No, Yes, n)
      <4>1. \A l \in Sets(i, TRUE) : ~(l > k)
        BY <3>2 DEF Behind
      <4>2. i \in No
        BY <2>3, <4>1
      <4>3. \A j \in 1 .. n : j > i => Sets(j, TRUE) = {}
        BY <3>2 DEF Behind
      <4>4. \A j \in 1 .. n : j > i => j \notin Yes
        BY <2>3, <4>3
      <4> QED
        BY <4>2, <4>4 DEF LastIsNo
    <3> QED
      BY <3>1, <3>2
  <2>9. (\E i \in 1 .. n : \E k \in Sets(i, FALSE) : Last(i, k)) <=>
          \E i \in DOMAIN entries : \E k \in DOMAIN Entries(entries[i].value) :
            /\ SaysUp(i, k, FALSE)
            /\ \A j \in DOMAIN entries : \A l \in DOMAIN Entries(entries[j].value) :
                 SaysUp(j, l, TRUE) => ~Behind(j, l, i, k)
    BY <2>1 DEF Sets
  <2> QED
    BY <2>6, <2>7, <2>8, <2>9 DEF PresenceWaivedExplicitly
<1> QED
  BY <1>1, SentAlways, PTL

-----------------------------------------------------------------------------
(***************************************************************************)
(* The parts of an assertion that repeats no key.                          *)
(***************************************************************************)

\* Of n steps, those of S set a value, and S has one at most.
SetsOnce(a, v, S, n) ==
  /\ n \in Nat /\ S \in SUBSET (1 .. n) /\ \A i, j \in S : i = j
  /\ \A i \in 1 .. n : a[i] = IF i \in S THEN v[i] ELSE a[i - 1]

\* The value is the one set, or the first.
LEMMA SetOnce ==
  ASSUME NEW n, NEW S, NEW a, NEW v, SetsOnce(a, v, S, n)
  PROVE  \/ S = {} /\ a[n] = a[0]
         \/ \E i \in S : S = {i} /\ a[n] = v[i]
<1> USE DEF SetsOnce
<1>1. CASE S = {}
  <2>1. \A i \in 0 + 1 .. n : a[i] = a[i - 1]
    BY <1>1
  <2> QED
    BY <1>1, <2>1, Steady
<1>2. ASSUME NEW i \in S
      PROVE  S = {i} /\ a[n] = v[i]
  <2>1. i \in 1 .. n /\ i \in Nat /\ i <= n
    OBVIOUS
  <2>2. \A k \in i + 1 .. n : k \in 1 .. n /\ k \notin S
    BY <2>1
  <2>3. \A k \in i + 1 .. n : a[k] = a[k - 1]
    BY <2>2
  <2>4. a[n] = a[i]
    BY <2>1, <2>3, Steady
  <2> QED
    BY <2>1, <2>4
<1> QED
  BY <1>1, <1>2

\* ids are those of the first k descriptors of s that have one, in their order.
Named(at, ids, s, k) ==
  /\ at \in [1 .. Len(ids) -> 1 .. k]
  /\ \A i, j \in 1 .. Len(ids) : i < j => at[i] < at[j]
  /\ \A j \in 1 .. Len(ids) : DescriptorId(s[at[j]]) = {ids[j]}
  /\ \A i \in 1 .. k : DescriptorId(s[i]) # {} => \E j \in 1 .. Len(ids) : at[j] = i

\* One more descriptor.
LEMMA NamedStep ==
  ASSUME NEW X, NEW ids \in Seq(X), NEW s, NEW k \in Nat, NEW at, Named(at, ids, s, k),
         NEW id \in X, NEW new,
         \/ DescriptorId(s[k + 1]) = {} /\ new = ids
         \/ DescriptorId(s[k + 1]) = {id} /\ new = Append(ids, id)
  PROVE  \E b : Named(b, new, s, k + 1)
<1>1. PICK n \in Nat : n = Len(ids)
  OBVIOUS
<1>2. /\ at \in [1 .. n -> 1 .. k]
      /\ \A i, j \in 1 .. n : i < j => at[i] < at[j]
      /\ \A j \in 1 .. n : DescriptorId(s[at[j]]) = {ids[j]}
      /\ \A i \in 1 .. k : DescriptorId(s[i]) # {} => \E j \in 1 .. n : at[j] = i
  BY <1>1 DEF Named
<1>3. CASE DescriptorId(s[k + 1]) = {} /\ new = ids
  <2>1. at \in [1 .. n -> 1 .. k + 1]
    BY <1>2
  <2>2. \A i \in 1 .. k + 1 : DescriptorId(s[i]) # {} => i \in 1 .. k
    BY <1>3
  <2>3. Named(at, new, s, k + 1)
    BY <1>1, <1>2, <1>3, <2>1, <2>2 DEF Named
  <2> QED
    BY <2>3
<1>4. CASE DescriptorId(s[k + 1]) = {id} /\ new = Append(ids, id)
  <2>1. PICK b : b = [j \in 1 .. n + 1 |-> IF j = n + 1 THEN k + 1 ELSE at[j]]
    OBVIOUS
  <2>2. Len(new) = n + 1 /\ new[n + 1] = id /\ \A j \in 1 .. n : new[j] = ids[j]
    BY <1>1, <1>4
  <2>3. b \in [1 .. n + 1 -> 1 .. k + 1]
    BY <1>2, <2>1
  <2>4. \A j \in 1 .. n : b[j] = at[j] /\ at[j] \in 1 .. k
    BY <1>2, <2>1
  <2>5. b[n + 1] = k + 1
    BY <2>1
  <2>6. \A i, j \in 1 .. n + 1 : i < j => b[i] < b[j]
    <3> SUFFICES ASSUME NEW i \in 1 .. n + 1, NEW j \in 1 .. n + 1, i < j
                 PROVE  b[i] < b[j]
      OBVIOUS
    <3>1. i \in 1 .. n
      OBVIOUS
    <3>2. CASE j = n + 1
      BY <2>4, <2>5, <3>1, <3>2
    <3>3. CASE j \in 1 .. n
      BY <1>2, <2>4, <3>1, <3>3
    <3> QED
      BY <3>2, <3>3
  <2>7. \A j \in 1 .. n + 1 : DescriptorId(s[b[j]]) = {new[j]}
    <3> SUFFICES ASSUME NEW j \in 1 .. n + 1
                 PROVE  DescriptorId(s[b[j]]) = {new[j]}
      OBVIOUS
    <3>1. CASE j = n + 1
      BY <1>4, <2>2, <2>5, <3>1
    <3>2. CASE j \in 1 .. n
      BY <1>2, <2>2, <2>4, <3>2
    <3> QED
      BY <3>1, <3>2
  <2>8. \A i \in 1 .. k + 1 : DescriptorId(s[i]) # {} => \E j \in 1 .. n + 1 : b[j] = i
    <3> SUFFICES ASSUME NEW i \in 1 .. k + 1, DescriptorId(s[i]) # {}
                 PROVE  \E j \in 1 .. n + 1 : b[j] = i
      OBVIOUS
    <3>1. CASE i = k + 1
      BY <2>5, <3>1
    <3>2. CASE i \in 1 .. k
      <4>1. PICK j \in 1 .. n : at[j] = i
        BY <1>2, <3>2
      <4> QED
        BY <2>4, <4>1
    <3> QED
      BY <3>1, <3>2
  <2> QED
    <3>1. PICK m : m = n + 1 /\ Len(new) = m
      BY <2>2
    <3>2. /\ b \in [1 .. m -> 1 .. k + 1]
          /\ \A i, j \in 1 .. m : i < j => b[i] < b[j]
          /\ \A j \in 1 .. m : DescriptorId(s[b[j]]) = {new[j]}
          /\ \A i \in 1 .. k + 1 : DescriptorId(s[i]) # {} => \E j \in 1 .. m : b[j] = i
      BY <2>3, <2>6, <2>7, <2>8, <3>1
    <3>3. Named(b, new, s, k + 1)
      BY <3>1, <3>2 DEF Named
    <3> QED
      BY <3>3
<1> QED
  BY <1>3, <1>4

\* A descriptor has at most one identifier.
LEMMA OneId ==
  ASSUME NEW v, IsSequence(Entries(v))
  PROVE  DescriptorId(v) # {} => DescriptorId(v) = {CHOOSE id \in DescriptorId(v) : TRUE}
<1>1. PICK fields : fields = Entries(v)
  OBVIOUS
<1>2. PICK I : I = {i \in DOMAIN fields :
                      fields[i].key = "id" /\ Is("bytes", fields[i].value)}
  OBVIOUS
<1>3. \/ FirstField(fields, "id", "bytes") = {}
      \/ \E i \in I : FirstField(fields, "id", "bytes") = {fields[i].value["bytes"]}
  BY <1>1, <1>2, FirstFieldIs
<1>4. PICK ids : ids = DescriptorId(v)
  OBVIOUS
<1>5. ids = {} \/ \E x : ids = {x}
  BY <1>1, <1>3, <1>4 DEF DescriptorId
<1>6. ids # {} => ids = {CHOOSE id \in ids : TRUE}
  BY <1>5
<1> QED
  BY <1>4, <1>6

\* The identifiers of an allow list of any length are those of its descriptors.
LEMMA AllNamed ==
  ASSUME NEW s, IsSequence(s), \A i \in DOMAIN s : IsSequence(Entries(s[i]))
  PROVE  \E X : /\ Identifiers(s) \in Seq(X)
                /\ \E at : Named(at, Identifiers(s), s, Len(s))
<1>1. PICK n \in Nat : n = Len(s) /\ DOMAIN s = 1 .. n
  BY SequenceDomain
<1>2. PICK f : f = [i \in 1 .. n |-> CHOOSE id \in DescriptorId(s[i]) : TRUE]
  OBVIOUS
<1>3. PICK X : X = {f[i] : i \in 1 .. n}
  OBVIOUS
<1>4. PICK A : A = Seq(X)
  OBVIOUS
<1>5. ASSUME NEW i \in 1 .. n
      PROVE  DescriptorId(s[i]) # {} => DescriptorId(s[i]) = {f[i]}
  BY <1>1, <1>2, OneId
<1>6. ASSUME NEW x \in A, NEW i \in 1 .. n
      PROVE  /\ f[i] \in X
             /\ \/ DescriptorId(s[i]) = {} /\ WithDescriptor(x, s[i]) = x
                \/ DescriptorId(s[i]) = {f[i]} /\ WithDescriptor(x, s[i]) = Append(x, f[i])
  <2>1. f[i] = CHOOSE id \in DescriptorId(s[i]) : TRUE
    BY <1>2
  <2> QED
    BY <1>3, <1>5, <2>1 DEF WithDescriptor, None
<1>7. <<>> \in A /\ \A x \in A, i \in 1 .. n : WithDescriptor(x, s[i]) \in A
  BY <1>4, <1>6
<1>8. PICK a : IdRuns(a, s, n, A)
  BY <1>1, <1>7, DescriptorsRun
<1>9. /\ a \in [0 .. n -> A] /\ a[0] = <<>> /\ a[n] = Identifiers(s)
      /\ \A i \in 1 .. n : a[i] = WithDescriptor(a[i - 1], s[i])
  BY <1>8 DEF IdRuns
<1> DEFINE P == {k \in 0 .. n : \E at : Named(at, a[k], s, k)}
<1>10. 0 \in P
  <2>1. PICK at : at = [j \in 1 .. 0 |-> j]
    OBVIOUS
  <2>2. Named(at, <<>>, s, 0)
    BY <2>1 DEF Named
  <2> QED
    BY <1>9, <2>2
<1>11. ASSUME NEW k \in 0 .. n, k \in P, k < n
       PROVE  k + 1 \in P
  <2>1. k + 1 \in 1 .. n /\ (k + 1) - 1 = k /\ k \in Nat
    BY <1>11
  <2>2. PICK at : Named(at, a[k], s, k)
    BY <1>11
  <2>3. a[k] \in A /\ a[k] \in Seq(X) /\ a[k + 1] = WithDescriptor(a[k], s[k + 1])
    BY <1>4, <1>9, <2>1
  <2>4. /\ f[k + 1] \in X
        /\ \/ DescriptorId(s[k + 1]) = {} /\ a[k + 1] = a[k]
           \/ DescriptorId(s[k + 1]) = {f[k + 1]} /\ a[k + 1] = Append(a[k], f[k + 1])
    BY <1>6, <2>1, <2>3
  <2>5. \E b : Named(b, a[k + 1], s, k + 1)
    BY <2>1, <2>2, <2>3, <2>4, NamedStep
  <2> QED
    BY <2>1, <2>5
<1>12. n \in P
  <2> HIDE DEF P
  <2>1. \A k \in 0 .. n : k \in P /\ k < n => k + 1 \in P
    BY <1>11
  <2> QED
    BY <1>10, <2>1, Reach
<1> QED
  BY <1>1, <1>4, <1>9, <1>12

\* Where no descriptor repeats a key, the allow list is what it says.
LEMMA AllowRead ==
  ASSUME NEW s, IsSequence(s),
         \A i \in DOMAIN s : IsSequence(Entries(s[i])) /\ Distinct(Entries(s[i])),
         NEW allow, allow = Identifiers(s)
  PROVE  AllowedBy(allow, s)
<1>1. PICK n \in Nat : n = Len(s) /\ DOMAIN s = 1 .. n
  BY SequenceDomain
<1>2. PICK X, at : allow \in Seq(X) /\ Named(at, allow, s, n)
  BY <1>1, AllNamed
<1>3. DOMAIN allow = 1 .. Len(allow)
  BY <1>2
<1>4. \A i \in DOMAIN s : DescriptorId(s[i]) = Typed(Entries(s[i]), "id", "bytes")
  BY FieldOnce DEF DescriptorId
<1>5. at \in [DOMAIN allow -> DOMAIN s]
  BY <1>1, <1>2, <1>3 DEF Named
<1>6. DOMAIN at = 1 .. Len(allow)
  BY <1>3, <1>5
<1>7. \A k \in DOMAIN at : Typed(Entries(s[at[k]]), "id", "bytes") = {allow[k]}
  BY <1>2, <1>3, <1>4, <1>5, <1>6 DEF Named
<1>8. \A i \in DOMAIN s : Typed(Entries(s[i]), "id", "bytes") # {} =>
                            \E k \in DOMAIN at : at[k] = i
  BY <1>1, <1>2, <1>4, <1>6 DEF Named
<1>9. \A j, k \in DOMAIN at : j < k => at[j] < at[k]
  BY <1>2, <1>6 DEF Named
<1> QED
  BY <1>5, <1>7, <1>8, <1>9 DEF AllowedBy

\* Of the entries of s, those under key that have the type set a value.
SetsPart(b, v, s, n, key, type) ==
  /\ n \in Nat /\ DOMAIN s = 1 .. n /\ Distinct(s)
  /\ \A i \in 1 .. n : b[i] = IF s[i].key = key /\ Is(type, s[i].value)
                              THEN v[i] ELSE b[i - 1]

\* Where no key comes twice, it is what one entry says, or the first.
LEMMA PartRead ==
  ASSUME NEW s, NEW n, NEW key, NEW type, NEW b, NEW v, SetsPart(b, v, s, n, key, type)
  PROVE  \/ Typed(s, key, type) = {} /\ b[n] = b[0]
         \/ \E i \in 1 .. n : /\ Is(type, s[i].value) /\ b[n] = v[i]
                              /\ Typed(s, key, type) = {s[i].value[type]}
<1> USE DEF SetsPart
<1>1. PICK S : S = {i \in 1 .. n : s[i].key = key /\ Is(type, s[i].value)}
  OBVIOUS
<1>2. S \in SUBSET (1 .. n) /\ \A i, j \in S : i = j
  BY <1>1 DEF Distinct
<1>3. Typed(s, key, type) = {s[i].value[type] : i \in S}
  BY <1>1 DEF Typed, Values
<1>4. \A i \in 1 .. n : b[i] = IF i \in S THEN v[i] ELSE b[i - 1]
  BY <1>1
<1>5. \/ S = {} /\ b[n] = b[0]
      \/ \E i \in S : S = {i} /\ b[n] = v[i]
  <2>1. SetsOnce(b, v, S, n)
    BY <1>2, <1>4 DEF SetsOnce
  <2> QED
    BY <2>1, SetOnce
<1> QED
  BY <1>1, <1>3, <1>5

\* Where no key comes twice, each part is what its one entry says.
LEMMA PartsRead ==
  ASSUME Sent, Distinct(entries), NEW req, req = Assertion(Payload)
  PROVE  /\ req.rp = Typed(entries, "rpId", "text")
         /\ req.hash = Typed(entries, "clientDataHash", "bytes") \cap Hashes
         /\ \/ Typed(entries, "allowList", "array") = {} /\ req.allow = <<>>
            \/ \E i \in DOMAIN entries :
                 /\ Is("array", entries[i].value)
                 /\ Typed(entries, "allowList", "array") = {entries[i].value.array}
                 /\ req.allow = Identifiers(entries[i].value.array)
<1>1. PICK n \in Nat : n = Len(entries) /\ DOMAIN entries = 1 .. n
  BY SentWellBuilt, SequenceDomain DEF Sent
<1>2. PICK a : Reads(a, entries, n, Requests(entries))
  BY <1>1, RequestRuns DEF Sent
<1>3. req = a[n]
  BY <1>2, AssertionRead
<1>4. a[0] = Defaults
  BY <1>2 DEF Reads
<1>5. ASSUME NEW i \in 1 .. n
      PROVE  \E ids, up : /\ Reading(a[i], a[i - 1], entries[i], ids, up)
                          /\ ids = Identifiers(entries[i].value.array)
  <2>1. PICK r, x, e : r = a[i - 1] /\ x = a[i] /\ e = entries[i]
    OBVIOUS
  <2>2. PICK ids, up : /\ ids = Identifiers(e.value.array)
                       /\ up = UpAfterAll(r.up, e.value.map)
    OBVIOUS
  <2>3. Reading(x, r, e, ids, up)
    BY <1>2, <2>1, <2>2, RequestStep
  <2> QED
    BY <2>1, <2>2, <2>3
<1>6. req.rp = Typed(entries, "rpId", "text")
  <2>1. PICK b, v : /\ b = [i \in 0 .. n |-> a[i].rp]
                    /\ v = [i \in 1 .. n |-> Some(entries[i].value.text)]
    OBVIOUS
  <2>2. ASSUME NEW i \in 1 .. n
        PROVE  b[i] = IF entries[i].key = "rpId" /\ Is("text", entries[i].value)
                      THEN v[i] ELSE b[i - 1]
    <3>1. /\ b[i] = a[i].rp /\ b[i - 1] = a[i - 1].rp
          /\ v[i] = Some(entries[i].value.text)
      BY <2>1
    <3> QED
      BY <1>5, <3>1 DEF Reading
  <2>3. PICK said : said = Typed(entries, "rpId", "text")
    OBVIOUS
  <2>4. \/ said = {} /\ b[n] = b[0]
        \/ \E i \in 1 .. n : /\ Is("text", entries[i].value) /\ b[n] = v[i]
                             /\ said = {entries[i].value["text"]}
    <3>1. SetsPart(b, v, entries, n, "rpId", "text")
      BY <1>1, <2>2 DEF SetsPart
    <3> QED
      BY <2>3, <3>1, PartRead
  <2>5. b[n] = req.rp /\ b[0] = {}
    BY <1>3, <1>4, <2>1 DEF Defaults, None
  <2>6. \A i \in 1 .. n : v[i] = Some(entries[i].value.text)
    BY <2>1
  <2> QED
    BY <2>3, <2>4, <2>5, <2>6 DEF Some
<1>7. req.hash = Typed(entries, "clientDataHash", "bytes") \cap Hashes
  <2>1. PICK b, v : /\ b = [i \in 0 .. n |-> a[i].hash]
                    /\ v = [i \in 1 .. n |-> Some(entries[i].value.bytes) \cap Hashes]
    OBVIOUS
  <2>2. ASSUME NEW i \in 1 .. n
        PROVE  b[i] = IF entries[i].key = "clientDataHash" /\ Is("bytes", entries[i].value)
                      THEN v[i] ELSE b[i - 1]
    <3>1. /\ b[i] = a[i].hash /\ b[i - 1] = a[i - 1].hash
          /\ v[i] = Some(entries[i].value.bytes) \cap Hashes
      BY <2>1
    <3> QED
      BY <1>5, <3>1 DEF Reading
  <2>3. PICK said : said = Typed(entries, "clientDataHash", "bytes")
    OBVIOUS
  <2>4. \/ said = {} /\ b[n] = b[0]
        \/ \E i \in 1 .. n : /\ Is("bytes", entries[i].value) /\ b[n] = v[i]
                             /\ said = {entries[i].value["bytes"]}
    <3>1. SetsPart(b, v, entries, n, "clientDataHash", "bytes")
      BY <1>1, <2>2 DEF SetsPart
    <3> QED
      BY <2>3, <3>1, PartRead
  <2>5. b[n] = req.hash /\ b[0] = {}
    BY <1>3, <1>4, <2>1 DEF Defaults, None
  <2>6. \A i \in 1 .. n : v[i] = Some(entries[i].value.bytes) \cap Hashes
    BY <2>1
  <2> QED
    BY <2>3, <2>4, <2>5, <2>6 DEF Some
<1>8. \/ Typed(entries, "allowList", "array") = {} /\ req.allow = <<>>
      \/ \E i \in DOMAIN entries :
           /\ Is("array", entries[i].value)
           /\ Typed(entries, "allowList", "array") = {entries[i].value.array}
           /\ req.allow = Identifiers(entries[i].value.array)
  <2>1. PICK b, v : /\ b = [i \in 0 .. n |-> a[i].allow]
                    /\ v = [i \in 1 .. n |-> Identifiers(entries[i].value.array)]
    OBVIOUS
  <2>2. ASSUME NEW i \in 1 .. n
        PROVE  b[i] = IF entries[i].key = "allowList" /\ Is("array", entries[i].value)
                      THEN v[i] ELSE b[i - 1]
    <3>1. /\ b[i] = a[i].allow /\ b[i - 1] = a[i - 1].allow
          /\ v[i] = Identifiers(entries[i].value.array)
      BY <2>1
    <3> QED
      BY <1>5, <3>1 DEF Reading
  <2>3. PICK said : said = Typed(entries, "allowList", "array")
    OBVIOUS
  <2>4. \/ said = {} /\ b[n] = b[0]
        \/ \E i \in 1 .. n : /\ Is("array", entries[i].value) /\ b[n] = v[i]
                             /\ said = {entries[i].value["array"]}
    <3>1. SetsPart(b, v, entries, n, "allowList", "array")
      BY <1>1, <2>2 DEF SetsPart
    <3> QED
      BY <2>3, <3>1, PartRead
  <2>5. b[n] = req.allow /\ b[0] = <<>>
    BY <1>3, <1>4, <2>1 DEF Defaults, None
  <2>6. \A i \in 1 .. n : v[i] = Identifiers(entries[i].value.array)
    BY <2>1
  <2> QED
    BY <1>1, <2>3, <2>4, <2>5, <2>6
<1> QED
  BY <1>6, <1>7, <1>8

\* An assertion that repeats no key is read as what it says, whatever the
\* number and the order of its entries and of the descriptors in its allow list
\* and whatever is ill-formed among them: what parse_get_assertion_request
\* makes of the payload of an authenticatorGetAssertion.
THEOREM AssertionDecoded == Spec => []GetDecodesFields
<1>1. ASSUME Sent, WellKeyed, NEW req, req = Assertion(Payload),
             NEW lists, lists = Typed(entries, "allowList", "array")
      PROVE  /\ req.rp = Typed(entries, "rpId", "text")
             /\ req.hash = Typed(entries, "clientDataHash", "bytes") \cap Hashes
             /\ lists = {} => req.allow = <<>>
             /\ \A list \in lists : AllowedBy(req.allow, list)
  <2>1. /\ req.rp = Typed(entries, "rpId", "text")
        /\ req.hash = Typed(entries, "clientDataHash", "bytes") \cap Hashes
        /\ \/ lists = {} /\ req.allow = <<>>
           \/ \E i \in DOMAIN entries :
                /\ Is("array", entries[i].value)
                /\ lists = {entries[i].value.array}
                /\ req.allow = Identifiers(entries[i].value.array)
    BY <1>1, PartsRead DEF WellKeyed
  <2>2. ASSUME NEW list \in lists
        PROVE  AllowedBy(req.allow, list)
    <3>1. PICK i \in DOMAIN entries : /\ Is("array", entries[i].value)
                                      /\ list = entries[i].value.array
                                      /\ req.allow = Identifiers(list)
      BY <2>1, <2>2
    <3>2. WellBuilt(entries[i].value)
      BY <1>1, SentWellBuilt DEF Sent
    <3>3. IsSequence(list) /\ \A k \in DOMAIN list : IsSequence(Entries(list[k]))
      BY <3>1, <3>2 DEF WellBuilt
    <3>4. \A k \in DOMAIN list : Distinct(Entries(list[k]))
      BY <1>1, <3>1 DEF WellKeyed
    <3> QED
      BY <3>1, <3>3, <3>4, AllowRead
  <2> QED
    BY <2>1, <2>2
<1>2. Sent => GetDecodesFields
  <2> SUFFICES ASSUME Sent, WellKeyed PROVE GetDecodesFields
    BY DEF GetDecodesFields
  <2>1. PICK req, lists : /\ req = Assertion(Payload)
                          /\ lists = Typed(entries, "allowList", "array")
    OBVIOUS
  <2>2. /\ req.rp = Typed(entries, "rpId", "text")
        /\ req.hash = Typed(entries, "clientDataHash", "bytes") \cap Hashes
        /\ lists = {} => req.allow = <<>>
        /\ \A list \in lists : AllowedBy(req.allow, list)
    BY <1>1, <2>1
  <2> QED
    BY <2>1, <2>2 DEF GetDecodesFields
<1> QED
  BY <1>2, SentAlways, PTL

=============================================================================
