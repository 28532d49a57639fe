----------------------------- MODULE AtomicLink -----------------------------
(***************************************************************************)
(* What the framing layer promises to the layer above it: on each channel  *)
(* a message is delivered as a whole, unchanged, once, at the moment its   *)
(* sender is done with it, or not at all.                                  *)
(***************************************************************************)
EXTENDS Sequences, HashMap

CONSTANTS Cids, Messages

VARIABLES
  current,     \* the message each busy channel is sending
  delivered    \* the messages delivered so far, per channel

vars == <<current, delivered>>

Init ==
  /\ current = EmptyMap
  /\ delivered = [c \in Cids |-> <<>>]

Begin(c, m) ==
  /\ c \notin DOMAIN current
  /\ current' = Put(current, c, m)
  /\ UNCHANGED delivered

Deliver(c) ==
  /\ c \in DOMAIN current
  /\ delivered' = [delivered EXCEPT ![c] = Append(@, current[c])]
  /\ current' = Remove(current, c)

GiveUp(c) ==
  /\ c \in DOMAIN current
  /\ current' = Remove(current, c)
  /\ UNCHANGED delivered

Next ==
  \E c \in Cids :
    \/ \E m \in Messages : Begin(c, m)
    \/ Deliver(c)
    \/ GiveUp(c)

Spec == Init /\ [][Next]_vars

=============================================================================
