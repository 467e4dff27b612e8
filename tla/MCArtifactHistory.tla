-------------------------- MODULE MCArtifactHistory --------------------------
(***************************************************************************)
(* The artifact history on small sets: two DELETEs of one session and one  *)
(* of another, and two requests that change the settings.  What a second   *)
(* DELETE of a session and a second request do is seen with one session,   *)
(* what the janitor does with two: Few keeps these apart.  The DELETEs of  *)
(* one session are alike, so that the first may be d1.                     *)
(***************************************************************************)
EXTENDS ArtifactHistory

CONSTANTS s1, s2, d1, d2, d3, a1, a2

MCOf == [d \in Deletes |-> IF d = d3 THEN s2 ELSE s1]

Few ==
  /\ state[s2] = "new" \/ (pc[d2] = "idle" /\ puts[a2] = None /\ ~overlap)
  /\ pc[d2] # "idle" => pc[d1] # "idle"

MCNext == Next /\ Few'

\* No fair step makes Few false.
MCSpec == Init /\ [][MCNext]_vars /\ WF_vars(JanitorStep) /\ WF_vars(Restart)
==============================================================================
