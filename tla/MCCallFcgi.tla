------------------------------- MODULE MCCallFcgi ------------------------------
(***************************************************************************)
(* The instance of CallFcgi that is checked: callfcgi with a handler of    *)
(* its own, and callscgi, whose requests have one muth, with an address.   *)
(***************************************************************************)
EXTENDS CallFcgi, TLC

MCProtocol == (<<"anon", "unix">> :> {"fcgi"})
              @@ [c \in {"launch", "mixed"} \X {"unix", "tcp"} \cup {<<"client", "tcp">>} |-> {"scgi"}]
MCCalls == DOMAIN MCProtocol
=============================================================================
