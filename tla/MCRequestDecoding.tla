------------------------- MODULE MCRequestDecoding -------------------------
(***************************************************************************)
(* Small sets of entries: each field well typed, of the wrong type, with   *)
(* its inner field absent, of the wrong type or there twice.               *)
(***************************************************************************)
EXTENDS RequestDecoding

Entry(key, value) == [key |-> key, value |-> value]

Text(t)  == [text |-> t]
Bytes(b) == [bytes |-> b]
Int(n)   == [int |-> n]
Bool(b)  == [bool |-> b]
Map(s)   == [map |-> s]
Array(s) == [array |-> s]

Id(value)  == Entry("id", value)
Alg(name)  == Map(<<Entry("type", Text("public-key")), Entry("alg", Int(name))>>)

MakeFields ==
  { Entry("rp", Map(<<Id(Text("r1"))>>)),
    Entry("rp", Map(<<Entry("name", Text("R")), Id(Text("r2"))>>)),
    Entry("rp", Map(<<Id(Bytes("r1")), Id(Text("r1"))>>)),
    Entry("rp", Map(<<>>)),
    Entry("rp", Text("r1")),
    Entry("user", Map(<<Id(Bytes("u1"))>>)),
    Entry("user", Map(<<Id(Text("u1")), Id(Bytes("u2"))>>)),
    Entry("user", Bytes("u1")),
    Entry("pubKeyCredParams", Array(<<Alg("ES256"), Text("EdDSA"), Alg("EdDSA")>>)),
    Entry("pubKeyCredParams", Array(<<Alg("wide")>>)),
    Entry("pubKeyCredParams", Alg("EdDSA")),
    Entry("clientDataHash", Bytes("hash")) }

GetFields ==
  { Entry("rpId", Text("r1")),
    Entry("rpId", Text("r2")),
    Entry("rpId", Bytes("r1")),
    Entry("clientDataHash", Bytes("hash")),
    Entry("clientDataHash", Bytes("short")),
    Entry("clientDataHash", Text("hash")),
    Entry("allowList", Array(<<Map(<<Id(Bytes("c1"))>>), Map(<<Id(Text("c2"))>>),
                               Map(<<Entry("type", Text("public-key")),
                                     Id(Bytes("c3"))>>)>>)),
    Entry("allowList", Array(<<>>)),
    Entry("allowList", Map(<<Id(Bytes("c1"))>>)),
    Entry("options", Map(<<Entry("up", Bool(FALSE))>>)),
    Entry("options", Map(<<Entry("uv", Bool(FALSE)), Entry("up", Bool(TRUE))>>)),
    Entry("options", Map(<<Entry("up", Bool(TRUE)), Entry("up", Bool(FALSE))>>)),
    Entry("options", Map(<<Entry("up", Bool(FALSE)), Entry("up", Bool(TRUE))>>)),
    Entry("options", Map(<<Entry("up", Text("false"))>>)),
    Entry("options", Bool(FALSE)),
    Entry("rp", Map(<<Id(Text("r2"))>>)) }

MCFields == MakeFields \cup GetFields

=============================================================================
