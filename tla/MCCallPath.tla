------------------------------ MODULE MCCallPath ------------------------------
(* An instance of CallPath for TLC. *)
EXTENDS CallPath, TLC

CONSTANTS u1, r1, r2

TwoBrowsers == r1 :> u1 @@ r2 :> u1
=============================================================================
