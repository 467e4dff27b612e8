---------------------------- MODULE SlotAllocator ----------------------------
(***************************************************************************)
(* What -limit promises: at most Limit requests hold a slot.  A slot is    *)
(* taken while one is free, given back, or handed over from a request that *)
(* gives it back to one that waits for it.                                 *)
(***************************************************************************)
EXTENDS Naturals, FiniteSets

CONSTANTS Clients, Limit

VARIABLE holders   \* the requests that hold a slot

Init == holders = {}

Take(c) ==
  /\ c \in Clients \ holders
  /\ Cardinality(holders) < Limit
  /\ holders' = holders \union {c}

Give(c) ==
  /\ c \in holders
  /\ holders' = holders \ {c}

Handover(c, d) ==
  /\ c \in holders
  /\ d \in Clients \ holders
  /\ holders' = (holders \ {c}) \union {d}

Next ==
  \/ \E c \in Clients : Take(c) \/ Give(c)
  \/ \E c, d \in Clients : Handover(c, d)

Spec == Init /\ [][Next]_holders
=============================================================================
