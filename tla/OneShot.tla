------------------------------- MODULE OneShot -------------------------------
(***************************************************************************)
(* What a session owner may rely on when it arms a watchdog: the watchdog  *)
(* is settled once, either cancelled or expired, and the expiry callback   *)
(* runs exactly once, after expiry and never after a cancellation.         *)
(***************************************************************************)
EXTENDS Naturals

VARIABLES
  outcome,   \* "pending", "cancelled" or "expired"
  calls      \* how many times the expiry callback has been invoked

vars == <<outcome, calls>>

Init ==
  /\ outcome = "pending"
  /\ calls = 0

Cancel ==
  /\ outcome = "pending"
  /\ outcome' = "cancelled"
  /\ UNCHANGED calls

Expire ==
  /\ outcome = "pending"
  /\ outcome' = "expired"
  /\ UNCHANGED calls

Call ==
  /\ outcome = "expired"
  /\ calls = 0
  /\ calls' = 1
  /\ UNCHANGED outcome

Next == Cancel \/ Expire \/ Call

Spec == Init /\ [][Next]_vars /\ WF_vars(Call)
=============================================================================
