------------------------------ MODULE Consent ------------------------------
(***************************************************************************)
(* What the prompts of src/linux_uhid.rs promise the user: a credential is *)
(* made, or presence claimed, only in answer to a question, about the      *)
(* request the question was about, at most one thing for each yes, and     *)
(* each yes is one the user has typed.  Whatever else happens (a refusal,  *)
(* a senseless or an empty line, an error, an assertion that asks nothing) *)
(* makes no credential and claims no presence.  Uhid implements it.        *)
(***************************************************************************)
EXTENDS Naturals

CONSTANT Credentials   \* what a registration may make

VARIABLES
  asked,     \* the request the user is being asked about, 0 when there is none
  yeses,     \* how many times the user has said yes to no question yet
  granted,   \* the requests the user has agreed to
  created,   \* the credentials made
  claims     \* how many assertions claimed that the user was present

vars == <<asked, yeses, granted, created, claims>>

Init == asked = 0 /\ yeses = 0 /\ granted = {} /\ created = {} /\ claims = 0

SayYes == yeses' = yeses + 1 /\ UNCHANGED <<asked, granted, created, claims>>

Ask ==
  /\ asked = 0
  /\ asked' \in Nat \ (granted \cup {0})
  /\ UNCHANGED <<yeses, granted, created, claims>>

\* The user agrees, and at most one thing comes of it.
Grant ==
  /\ asked # 0
  /\ yeses > 0 /\ yeses' = yeses - 1
  /\ granted' = granted \cup {asked}
  /\ asked' = 0
  /\ \/ UNCHANGED <<created, claims>>
     \/ \E c \in Credentials \ created :
          created' = created \cup {c} /\ UNCHANGED claims
     \/ claims' = claims + 1 /\ UNCHANGED created

\* The user declines, or the question is given up.
Drop ==
  /\ asked # 0
  /\ asked' = 0
  /\ UNCHANGED <<yeses, granted, created, claims>>

Next == SayYes \/ Ask \/ Grant \/ Drop

Spec == Init /\ [][Next]_vars

=============================================================================
