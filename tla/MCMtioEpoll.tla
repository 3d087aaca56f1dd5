---------------------------- MODULE MCMtioEpoll ----------------------------
(* Two muths that share descriptors 3 and 4, and a listener; descriptor 9  *)
(* is one that epoll refuses (a regular file).                             *)
EXTENDS MtioEpoll

CONSTANTS m1, m2, lone

MCMuth == {m1, m2, lone}
MCLone == {lone}
MCFd == {3, 4}
MCBadFd == {9}
MCTimeouts == {0, 1}
MCSpecs == {<<[fd |-> 3, ev |-> {"r"}]>>,
            <<[fd |-> 3, ev |-> {"w"}], [fd |-> 4, ev |-> {"r"}]>>,
            <<[fd |-> NoFd, ev |-> {}]>>,
            <<[fd |-> 9, ev |-> {"r"}]>>,
            <<>>}
=============================================================================
