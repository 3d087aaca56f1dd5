----------------------------- MODULE MCPyServe -----------------------------
(* Three requests and two threads; iterators that give nothing, data, more  *)
(* than a buffer takes at once, or something empty, and one that raises.   *)
EXTENDS PyServe

MCBodies == {<<>>, <<"data", "data">>, <<"", "data", "raise">>}
=============================================================================
