\* Two handles, every preferred pair, every change of availability.
SPECIFICATION Spec
CONSTANTS
  P = 5
  EmptyRp = EmptyRp
  Rps = {EmptyRp, rp}
  Handles = {h1, h2}
  Payloads = {m1}
  Polynomials <- MCPolynomials
  NonceDraws <- MCNonceDraws
  Hashings <- MCHashings
INVARIANTS
  QuorumSelects
  QuorumSigns
PROPERTIES
  CeremonyAgrees
  ImplementsCredentialBackend
