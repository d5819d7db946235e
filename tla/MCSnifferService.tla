-------------------------- MODULE MCSnifferService --------------------------
(***************************************************************************)
(* SnifferService for TLC: two request threads and the lifespan thread,    *)
(* three calls between them; two sessions, so that one can be abandoned,   *)
(* or still be stopping, while the next one runs.                          *)
(***************************************************************************)
EXTENDS SnifferService

CONSTANTS r1, r2, lifespan

MCRequests == {r1, r2}
=============================================================================
