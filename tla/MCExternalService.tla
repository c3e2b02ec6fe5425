-------------------------- MODULE MCExternalService --------------------------
(* Values for the constants of ExternalService that a configuration file   *)
(* cannot write.                                                           *)
EXTENDS ExternalService, TLC

CONSTANTS r1, r2, x1, f1, f2

OnePattern == [r \in Requests |-> x1]
OneOfEach == [r \in Requests |-> IF r = r1 THEN "async" ELSE "sync"]
=============================================================================
