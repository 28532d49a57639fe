\* Three requests, up to two lines typed ahead.  The device stops after an
\* error and the hosts after MaxRequests.
SPECIFICATION FairSpec
CONSTANTS
  r1 = r1
  h1 = h1
  h2 = h2
  hash = hash
  EmptyRp = EmptyRp
  FirefoxRp = FirefoxRp
  NoRp = NoRp
  Rps = {EmptyRp, FirefoxRp, r1}
  Handles = {h1, h2}
  Keys = {k1}
  Payloads <- MCPayloads
  Hashes = {hash}
  MaxCount = 1
  MaxAllowed = 2
  MaxAssertions = 3
  Requests <- FewRequests
  MaxRequests = 3
  MaxTyped = 2
PROPERTIES
  EveryRequestSettled
CHECK_DEADLOCK FALSE
