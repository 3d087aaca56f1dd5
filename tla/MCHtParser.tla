----------------------------- MODULE MCHtParser -----------------------------
(* Two ports and two connections at a time.                                *)
EXTENDS HtParser

MCPort == {"ipv6", "ipv4"}
MCConn == {"c1", "c2"}
=============================================================================
