----------------------------- MODULE MCGateway -----------------------------
(***************************************************************************)
(* Small instance of Gateway: two documents and a window of two ticks,     *)
(* with three requests of one client of which one may pass per window.     *)
(***************************************************************************)
EXTENDS Gateway

CONSTANTS r1, r2, r3, d1, d2, cl1

ThreeRequests == {r1, r2, r3}
OneClient == {cl1}
TwoDocs == {d1, d2}
=============================================================================
