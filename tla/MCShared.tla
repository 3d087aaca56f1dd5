------------------------------ MODULE MCShared ------------------------------
(* Two programs and two requests for the same user, three sockets that       *)
(* userplex may make, and four events: programs and requests that come, or   *)
(* whatever crashes, is closed or fails.                                     *)
EXTENDS Shared

CONSTANTS p1, p2, r1, r2, u
MCClients == {p1, p2}
MCReqs == {r1, r2}
MCUsers == {u}
MCUserOf == [r \in MCReqs |-> u]
=============================================================================
