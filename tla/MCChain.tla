------------------------------ MODULE MCChain ------------------------------
(* Two requests, one child at a time, sockets that hold one request, two log *)
(* files, and three events: requests, SIGHUPs, kills, changes of the log or  *)
(* locks that fail; httimed gives up after the least time that it takes.     *)
EXTENDS Chain

CONSTANTS r1, r2
MCReqs == {r1, r2}
=============================================================================
