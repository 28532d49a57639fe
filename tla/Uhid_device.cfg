\* Three requests, up to two lines typed ahead.  The device stops after an
\* error and the hosts after MaxRequests.
SPECIFICATION Spec
CONSTANTS
  r1 = r1
  h1 = h1
  h2 = h2
  hash = hash
  EmptyRp = EmptyRp
  FirefoxRp = FirefoxRp
  NoRp = NoRp
  Rps = {EmptyRp, FirefoxRp, r1}
  Handles = {h1, h2}
  Keys = {k1}
  Payloads <- MCPayloads
  Hashes = {hash}
  MaxCount = 1
  MaxAllowed = 2
  MaxAssertions = 3
  Requests <- MCRequests
  MaxRequests = 3
  MaxTyped = 2
INVARIANTS
  TypeOK
  OneAnswerEach
  RegistrationsConsented
  PresenceProven
  ProbeRetainsNothing
  MatchOutlivesPrompt
PROPERTIES
  ImplementsConsent
CHECK_DEADLOCK FALSE
