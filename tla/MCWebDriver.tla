---------------------------- MODULE MCWebDriver ----------------------------
(***************************************************************************)
(* Two session requests and two DELETE requests about one session, for     *)
(* TLC.                                                                    *)
(***************************************************************************)
EXTENDS WebDriver, TLC

CONSTANTS s1, s2, c1, c2

BothSame == (c1 :> s1) @@ (c2 :> s1)
=============================================================================
