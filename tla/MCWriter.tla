------------------------------ MODULE MCWriter ------------------------------
(* Two bits of one byte and a REAL, which is written with more decimals than *)
(* a read-back keeps.                                                        *)
EXTENDS Writer, TLC

CONSTANTS b1, b2, x

MCTypeOf  == b1 :> "BOOL" @@ b2 :> "BOOL" @@ x :> "REAL"
MCTargets == b1 :> {0, 1} @@ b2 :> {1} @@ x :> {10, 22, 30}

=============================================================================
