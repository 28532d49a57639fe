SPECIFICATION Spec
CONSTANTS
  EmptyRp = EmptyRp
  Rps = {EmptyRp, rp}
  Handles = {h1, h2, h3}
  Keys = {k1, k2}
  Payloads = {m1, m2}
PROPERTIES
  ImplementsCredentialBackend
