-------------------------------- MODULE Clock --------------------------------
(***************************************************************************)
(* The clock that RateLimiter and TokenSource read, and small operators on *)
(* functions they share.                                                   *)
(***************************************************************************)
EXTENDS Integers, Sequences, FiniteSets

VARIABLE now          \* the clock of the server

Put(f, x, v) == [y \in DOMAIN f \cup {x} |-> IF y = x THEN v ELSE f[y]]

=============================================================================
