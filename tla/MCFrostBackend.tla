--------------------------- MODULE MCFrostBackend ---------------------------
(***************************************************************************)
(* A small instance of FrostBackend: the integers modulo 5.                *)
(***************************************************************************)
EXTENDS FrostBackend

\* Secrets and slopes that make the three shares of a key differ.
MCPolynomials == {[secret |-> 1, slope |-> 2], [secret |-> 3, slope |-> 1]}

\* Nonces that tell the signers, and the two nonces of one, apart.
MCNonceDraws == {[hiding |-> 0, binding |-> 1], [hiding |-> 2, binding |-> 3]}

MCHashings == {[rho |-> <<1, 2, 3>>, challenge |-> 1],
               [rho |-> <<4, 0, 2>>, challenge |-> 3]}

=============================================================================
