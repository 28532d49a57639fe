-------------------------- MODULE RequestDecoding --------------------------
(***************************************************************************)
(* The CBOR decoders of CtapRequests against what the fields of a request  *)
(* mean.  A host puts a request together entry by entry: any entries, well *)
(* typed or not, in any order, any of them several times.                  *)
(***************************************************************************)
EXTENDS CtapRequests

CONSTANTS
  Fields,       \* the entries a request may have
  MaxEntries    \* how many it has (bounds the model)

IsSequence(s) == s \in Seq(Seqs!ToSet(s))

\* The maps and the arrays of an entry are sequences, and a map's booleans are
\* booleans.
WellBuilt(value) ==
  /\ IsSequence(Entries(value))
  /\ \A i \in DOMAIN Entries(value) :
       LET field == Entries(value)[i].value
       IN  Is("bool", field) => field.bool \in BOOLEAN
  /\ Is("array", value) =>
       /\ IsSequence(value.array)
       /\ \A i \in DOMAIN value.array : IsSequence(Entries(value.array[i]))

ASSUME DecodingAssumption ==
  /\ MaxEntries \in Nat
  /\ \A e \in Fields : WellBuilt(e.value)

VARIABLE entries   \* the request so far

Init == entries = <<>>

Add(e) ==
  /\ Len(entries) < MaxEntries
  /\ entries' = Append(entries, e)

Next == \E e \in Fields : Add(e)

Spec == Init /\ [][Next]_entries

-----------------------------------------------------------------------------
(***************************************************************************)
(* What a request says, whatever the order of its entries.                 *)
(***************************************************************************)

Payload == [map |-> entries]

\* The values a map has under a key, all of them or those of a type.
Values(fields, key) ==
  {fields[i].value : i \in {j \in DOMAIN fields : fields[j].key = key}}

Typed(fields, key, type) ==
  {v[type] : v \in {u \in Values(fields, key) : Is(type, u)}}

Distinct(fields) ==
  \A i, j \in DOMAIN fields : i # j => fields[i].key # fields[j].key

\* No map in the request has a key twice, as CBOR demands.
WellKeyed ==
  /\ Distinct(entries)
  /\ \A i \in DOMAIN entries :
       LET v == entries[i].value
       IN  /\ Distinct(Entries(v))
           /\ Is("array", v) =>
                \A k \in DOMAIN v.array : Distinct(Entries(v.array[k]))

\* An allow list has the identifiers that the descriptors name, in their order.
AllowedBy(allow, descriptors) ==
  LET named(i) == Typed(Entries(descriptors[i]), "id", "bytes")
  IN  \E at \in [DOMAIN allow -> DOMAIN descriptors] :
        /\ \A j, k \in DOMAIN at : j < k => at[j] < at[k]
        /\ \A k \in DOMAIN at : named(at[k]) = {allow[k]}
        /\ \A i \in DOMAIN descriptors :
             named(i) # {} => \E k \in DOMAIN at : at[k] = i

\* An rp that is no map, or one with an id.
RpDecided ==
  \E rp \in Values(entries, "rp") : Is("map", rp) => Values(rp.map, "id") # {}

\* Field k of entry i is an option up of the value b.
SaysUp(i, k, b) ==
  LET option == Entries(entries[i].value)[k]
  IN  /\ entries[i].key = "options"
      /\ option.key = "up"
      /\ Is("bool", option.value)
      /\ option.value.bool = b

\* Field l of entry j comes behind field k of entry i.
Behind(j, l, i, k) ==
  \/ j > i
  \/ j = i /\ l > k

-----------------------------------------------------------------------------
(***************************************************************************)
(* Properties.                                                             *)
(***************************************************************************)

\* The three passes of MakeCredential find what the request says in whatever
\* order it says it, and an entry that is unknown or has the wrong type hides
\* none of the others.
MakeDecodesFields ==
  WellKeyed =>
    /\ RpId(Payload) = UNION {Typed(Entries(rp), "id", "text") :
                                rp \in Values(entries, "rp")}
    /\ UserId(Payload) = UNION {Typed(Entries(user), "id", "bytes") :
                                  user \in Values(entries, "user")}
    /\ Algorithms(Payload) =
         {alg \in I64 : \E list \in Typed(entries, "pubKeyCredParams", "array") :
            \E i \in DOMAIN list : alg \in Typed(Entries(list[i]), "alg", "int")}

\* The one pass of GetAssertion finds the rp, the hash and the allow list, too:
\* the list has the identifiers of its descriptors in their order and nothing
\* else, so that a credential the host did not name is never used, and one it
\* named is never passed over for an ill-formed neighbour.
GetDecodesFields ==
  WellKeyed =>
    LET req   == Assertion(Payload)
        lists == Typed(entries, "allowList", "array")
    IN  /\ req.rp = Typed(entries, "rpId", "text")
        /\ req.hash = Typed(entries, "clientDataHash", "bytes") \cap Hashes
        /\ lists = {} => req.allow = <<>>
        /\ \A list \in lists : AllowedBy(req.allow, list)

\* The user is left out exactly where that is the last word of the host: the
\* last boolean up, over all the maps of options the assertion has and in their
\* order, is false.  Where there is none, or where an up: true comes behind it,
\* in the same map or in a later one, the user is asked.
PresenceWaivedExplicitly ==
  ~Assertion(Payload).up <=>
    \E i \in DOMAIN entries : \E k \in DOMAIN Entries(entries[i].value) :
      /\ SaysUp(i, k, FALSE)
      /\ \A j \in DOMAIN entries : \A l \in DOMAIN Entries(entries[j].value) :
           SaysUp(j, l, TRUE) => ~Behind(j, l, i, k)

\* What has decided a part of a registration is final, be it of use or not: no
\* entry added behind it gives the registration another rp, user or algorithms.
\* A user or a list decides whatever it is, so that an ill-typed one is not made
\* good by a second; of the rps, a map without an id leaves it to the next.
RegistrationNotRedirected ==
  [][/\ RpDecided => RpId(Payload)' = RpId(Payload)
     /\ Values(entries, "user") # {} => UserId(Payload)' = UserId(Payload)
     /\ Values(entries, "pubKeyCredParams") # {} =>
          Algorithms(Payload)' = Algorithms(Payload)]_entries

=============================================================================
