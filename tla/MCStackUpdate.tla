---------------------------- MODULE MCStackUpdate ----------------------------
(***************************************************************************)
(* The images for TLC: a tag that is no version, as in the documented      *)
(* compose file, and a version in a registry of one's own.  The server     *)
(* starts from one of them, and the other service from the other.          *)
(***************************************************************************)
EXTENDS StackUpdate

MCImages == {[tag |-> 0, plain |-> TRUE], [tag |-> 1, plain |-> FALSE]}

MCInit == Init /\ \A s \in Services \ {Self} : base[s] # base[Self]
MCSpec == MCInit /\ [][Next]_vars /\ WF_vars(UpdaterStep)
==============================================================================
