\* Two relying parties share two handles and two keys; the counter saturates
\* at 2 within the four assertions that are made.
SPECIFICATION Spec
CONSTANTS
  r1 = r1
  r2 = r2
  EmptyRp = EmptyRp
  Rps = {EmptyRp, r1, r2}
  Handles = {h1, h2}
  Keys = {k1, k2}
  Payloads <- MCPayloads
  Hashes = {hash}
  MaxCount = 2
  MaxAllowed = 2
  MaxAssertions = 4
SYMMETRY Interchangeable
INVARIANTS
  TypeOK
  RegistrationsUsable
  AssertionsVerify
  CountersSequential
