---------------------------- MODULE CtapRequests ----------------------------
(***************************************************************************)
(* How src/linux_uhid.rs reads a message: the commands and subcommands     *)
(* that handle_message and handle_u2f_compatibility_message tell apart,    *)
(* and the decoders of the two CBOR requests.  Classify gives the request  *)
(* as Uhid handles it.                                                     *)
(*                                                                         *)
(* A CBOR value is a record whose one field names its type: text, bytes,   *)
(* int, bool, array or map, a map being the sequence of its entries, in    *)
(* the order of the payload and with the same key as often as it comes.    *)
(* Keys, be they integers or texts, are names.  The payload of a request   *)
(* is a value, or [malformed |-> TRUE] when ciborium cannot read one, or   *)
(* [short |-> TRUE] when there is nothing after the command byte.          *)
(***************************************************************************)
EXTENDS Naturals, Sequences

CONSTANTS
  NoRp,      \* stands for a required parameter that is absent, as in Uhid
  Hashes,    \* the byte strings that have the 32 bytes of a hash
  EdDsa,     \* COSE_ALGORITHM_EDDSA
  I64        \* the integers that fit an i64

Seqs == INSTANCE SequencesExt

Is(type, value) == type \in DOMAIN value

Some(x) == {x}
None    == {}

\* The entries of a payload that is a map.
Entries(payload) == IF Is("map", payload) THEN payload.map ELSE <<>>

\* find: the first element that passes, as an option.
FindFirst(s, Test(_)) ==
  LET n == Seqs!SelectInSeq(s, Test) IN IF n = 0 THEN None ELSE Some(s[n])

\* The first field of that name.
FirstNamed(fields, key) == FindFirst(fields, LAMBDA f : f.key = key)

\* The first field of that name and type.
FirstField(fields, key, type) ==
  {e.value[type] : e \in FindFirst(fields,
     LAMBDA f : f.key = key /\ Is(type, f.value))}

-----------------------------------------------------------------------------
(***************************************************************************)
(* MakeCredential: three passes over the same payload.                     *)
(***************************************************************************)

\* Whether an rp ends the search, which goes on behind a map without an id.
Decides(e) ==
  /\ e.key = "rp"
  /\ Is("map", e.value) =>
       \E i \in DOMAIN e.value.map : e.value.map[i].key = "id"

\* The rp that ends it.
DecidingRp(entries) == FindFirst(entries, Decides)

\* Its first id, where that is a text.
RpIdIn(entries) ==
  LET ids == UNION {FirstNamed(Entries(e.value), "id") : e \in DecidingRp(entries)}
  IN  {f.value.text : f \in {g \in ids : Is("text", g.value)}}

\* Seeded fault: the last rp decides.
RpIdOfLast(payload) == RpIdIn(Seqs!Reverse(Entries(payload)))

\* make_credential_rp_id: the first rp that is no map or has an id decides.
RpId(payload) == RpIdIn(Entries(payload))

\* make_credential_user_id: the first user must be a map; its first id that is
\* a byte string.
UserId(payload) ==
  UNION {FirstField(Entries(e.value), "id", "bytes") :
           e \in FirstNamed(Entries(payload), "user")}

\* The first usable alg of an element that is a map.
AlgorithmOf(param) ==
  {f.value.int : f \in FindFirst(Entries(param),
     LAMBDA f : f.key = "alg" /\ Is("int", f.value) /\ f.value.int \in I64)}

\* The elements of the first list.
Parameters(payload) ==
  UNION {IF Is("array", e.value) THEN Seqs!ToSet(e.value.array) ELSE {} :
           e \in FirstNamed(Entries(payload), "pubKeyCredParams")}

\* Seeded fault: one element that is no map spoils the list.
AlgorithmsOfMaps(payload) ==
  IF \A param \in Parameters(payload) : Is("map", param)
  THEN UNION {AlgorithmOf(param) : param \in Parameters(payload)}
  ELSE {}

\* make_credential_algorithms.  Only membership is ever asked.
Algorithms(payload) ==
  UNION {AlgorithmOf(param) : param \in Parameters(payload)}

-----------------------------------------------------------------------------
(***************************************************************************)
(* GetAssertion: one pass, in which the last of several entries counts.    *)
(***************************************************************************)

\* credential_descriptor_id
DescriptorId(v) == FirstField(Entries(v), "id", "bytes")

\* Seeded fault: a descriptor without an id ends the list.
DescriptorIdsUntil(descriptors) ==
  LET n == Seqs!SelectInSeq(descriptors, LAMBDA v : DescriptorId(v) = None)
  IN  [i \in 1 .. (IF n = 0 THEN Len(descriptors) ELSE n - 1) |->
         CHOOSE id \in DescriptorId(descriptors[i]) : TRUE]

\* filter_map: a descriptor without an id is left out.
WithDescriptor(ids, v) ==
  IF DescriptorId(v) = None THEN ids
  ELSE Append(ids, CHOOSE id \in DescriptorId(v) : TRUE)

DescriptorIds(descriptors) == Seqs!FoldLeft(WithDescriptor, <<>>, descriptors)

Defaults == [rp |-> None, hash |-> None, allow |-> <<>>, up |-> TRUE]

\* Seeded fault: what a later up allows does not undo an earlier one.
UpAfterAny(up, option) ==
  IF option.key = "up" /\ Is("bool", option.value) THEN up /\ option.value.bool ELSE up

\* The option up, where it is a boolean.
UpAfter(up, option) ==
  IF option.key = "up" /\ Is("bool", option.value) THEN option.value.bool ELSE up

ReadEntry(req, e) ==
  CASE e.key = "rpId" /\ Is("text", e.value) ->
         [req EXCEPT !.rp = Some(e.value.text)]
    [] e.key = "clientDataHash" /\ Is("bytes", e.value) ->
         [req EXCEPT !.hash = Some(e.value.bytes) \cap Hashes]
    [] e.key = "allowList" /\ Is("array", e.value) ->
         [req EXCEPT !.allow = DescriptorIds(e.value.array)]
    [] e.key = "options" /\ Is("map", e.value) ->
         [req EXCEPT !.up = Seqs!FoldLeft(UpAfter, @, e.value.map)]
    [] OTHER -> req

\* parse_get_assertion_request
Assertion(payload) == Seqs!FoldLeft(ReadEntry, Defaults, Entries(payload))

-----------------------------------------------------------------------------
(***************************************************************************)
(* The requests of Uhid.                                                   *)
(***************************************************************************)

OrNoRp(option) == IF option = None THEN NoRp ELSE CHOOSE x \in option : TRUE

MakeCredentialRequest(payload) ==
  [kind |-> "makeCredential", wellformed |-> ~Is("malformed", payload),
   rp |-> OrNoRp(RpId(payload)), user |-> UserId(payload) # None,
   eddsa |-> EdDsa \in Algorithms(payload)]

\* Without a hash the request is missing a parameter just as without an rpId.
GetAssertionRequest(payload) ==
  LET req == Assertion(payload)
  IN  [kind |-> "getAssertion", wellformed |-> ~Is("malformed", payload),
       rp |-> IF req.hash = None THEN NoRp ELSE OrNoRp(req.rp),
       hash |-> CHOOSE x \in Hashes : req.hash = None \/ x \in req.hash,
       allow |-> req.allow, up |-> req.up]

\* A CBOR message, by its CTAP2 command byte, if it has one.
ClassifyCbor(m) ==
  CASE m.ctap = "none"           -> [kind |-> "emptyCbor"]
    [] m.ctap = "makeCredential" -> MakeCredentialRequest(m.payload)
    [] m.ctap = "getAssertion"   -> GetAssertionRequest(m.payload)
    [] m.ctap \in {"getInfo", "clientPin", "selection"} -> [kind |-> m.ctap]
    [] OTHER                     -> [kind |-> "unknown"]

\* An APDU: only a registration that asks for presence prompts.
ClassifyMsg(m) ==
  [kind |-> IF m.instruction = "register" /\ m.parameter_1 = "userPresence"
            THEN "u2fRegister" ELSE "u2f"]

\* handle_message: nonce says whether an INIT has its 8 bytes.
Classify(m) ==
  CASE m.cmd = "CBOR" -> ClassifyCbor(m)
    [] m.cmd = "MSG"  -> ClassifyMsg(m)
    [] m.cmd = "INIT" -> [kind |-> IF m.nonce THEN "init" ELSE "shortInit"]
    [] m.cmd = "PING" -> [kind |-> "ping"]
    [] m.cmd = "WINK" -> [kind |-> "wink"]
    [] OTHER          -> [kind |-> "cancel"]

=============================================================================
