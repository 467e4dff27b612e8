--------------------------- MODULE MCCredentials ---------------------------
EXTENDS Credentials, TLC

CONSTANTS t1, t2, a, b

MCOwner == t1 :> a @@ t2 :> b
=============================================================================
