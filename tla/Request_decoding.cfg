\* Every request of up to four entries.  It is complete after MaxEntries.
SPECIFICATION Spec
CONSTANTS
  NoRp = NoRp
  Hashes = {"hash"}
  EdDsa = "EdDSA"
  I64 = {"EdDSA", "ES256"}
  Fields <- MCFields
  MaxEntries = 4
INVARIANTS
  MakeDecodesFields
  GetDecodesFields
  PresenceWaivedExplicitly
PROPERTIES
  RegistrationNotRedirected
CHECK_DEADLOCK FALSE
