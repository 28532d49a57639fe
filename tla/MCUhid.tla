------------------------------- MODULE MCUhid -------------------------------
(***************************************************************************)
(* Small instances of Uhid.  Its requests are what CtapRequests makes of   *)
(* messages: one of every way of being handled, and those that reach each  *)
(* branch of MakeCredential and GetAssertion.                              *)
(***************************************************************************)
EXTENDS Uhid

CONSTANTS r1, h1, h2, hash

MCPayloads == [rp_id : Rps, user_present : BOOLEAN, sign_count : 0 .. MaxCount,
               client_data_hash : Hashes]

Codec == INSTANCE CtapRequests WITH EdDsa <- "EdDSA", I64 <- {"EdDSA", "ES256"}

Entry(key, value) == [key |-> key, value |-> value]
Map(entries)      == [map |-> entries]
IdMap(value)      == Map(<<Entry("id", value)>>)

Rp(id)    == Entry("rp", IdMap([text |-> id]))
User      == Entry("user", IdMap([bytes |-> "u"]))
Alg(name) == Entry("pubKeyCredParams",
                   [array |-> <<Map(<<Entry("alg", [int |-> name])>>)>>])

RpId      == Entry("rpId", [text |-> r1])
Hash      == Entry("clientDataHash", [bytes |-> hash])
Allow(ids) ==
  Entry("allowList", [array |-> [i \in DOMAIN ids |-> IdMap([bytes |-> ids[i]])]])
Silently  == Entry("options", Map(<<Entry("up", [bool |-> FALSE])>>))

Cbor(ctap, payload) == [cmd |-> "CBOR", ctap |-> ctap, payload |-> payload]
Make(entries) == Cbor("makeCredential", Map(entries))
Get(entries)  == Cbor("getAssertion", Map(entries))

MCMessages ==
  { [cmd |-> "PING"], [cmd |-> "CANCEL"], Cbor("selection", Map(<<>>)),
    [cmd |-> "MSG", instruction |-> "register", parameter_1 |-> "userPresence"],
    Make(<<Rp(r1), User, Alg("EdDSA")>>),
    Make(<<Rp(EmptyRp), User, Alg("EdDSA")>>),
    Make(<<Rp(FirefoxRp), User, Alg("ES256")>>),
    Make(<<Rp(FirefoxRp), User, Alg("EdDSA")>>),
    Make(<<Rp(r1), User, Alg("ES256")>>),
    Make(<<Rp(r1), Alg("EdDSA")>>),
    Get(<<RpId, Hash, Allow(<<h1>>)>>),
    Get(<<RpId, Hash, Allow(<<h2, h1>>), Silently>>),
    Get(<<RpId, Allow(<<h1>>)>>),
    Cbor("getAssertion", [malformed |-> TRUE]) }

MCRequests == {Codec!Classify(m) : m \in MCMessages}

\* One request of each way of being handled: at once, with a prompt, not at
\* all, and with a registration behind the prompt.
FewRequests ==
  {Codec!Classify(m) : m \in
     { [cmd |-> "PING"], [cmd |-> "CANCEL"], Cbor("selection", Map(<<>>)),
       Make(<<Rp(r1), User, Alg("EdDSA")>>) }}

=============================================================================
