------------------------------ MODULE ReqSock ------------------------------
(***************************************************************************)
(* The SOCK_SEQPACKET sockets on which ashd programs give requests, each   *)
(* with the connection it came on, to one another (lib/proc.c, and         *)
(* sendreq() and recvreq() of lib/req.c).  A socket is a record of what is *)
(* under way and of what the two ends have done.                           *)
(***************************************************************************)
EXTENDS Sequences, SequencesExt

CONSTANT Room   \* the requests that a socket holds before a sender has to wait

\* A socket as socketpair() makes it.
Open == [q |-> <<>>, snd |-> TRUE, rcv |-> "open"]

\* recvmsg() gives what is queued, and then the end, also after a shutdown().
AtEnd(s) == s.q = <<>> /\ (~s.snd \/ s.rcv # "open")
Readable(s) == s.q # <<>> \/ AtEnd(s)

\* What the sender meets: EPIPE or ECONNRESET (and POLLHUP), or a full socket.
Refuses(s) == s.rcv # "open"
Fits(s) == ~Refuses(s) /\ Len(s.q) < Room

Put(s, r) == [s EXCEPT !.q = Append(@, r)]
Take(s) == [s EXCEPT !.q = Tail(@)]

\* shutdown(SHUT_RDWR) and close() by the receiver, and close() by the sender.
Shut(s) == [s EXCEPT !.rcv = IF @ = "open" THEN "shut" ELSE @]
Leave(s) == [s EXCEPT !.rcv = "gone", !.q = <<>>]
Finish(s) == [s EXCEPT !.snd = FALSE]

\* A process that reads `in' and writes `out' is gone; nobody will get what it had queued.
Quit(socks, in, out) == [socks EXCEPT ![in] = Leave(@), ![out] = Finish(@)]
Lose(fate, rs) == [r \in DOMAIN fate |-> IF r \in rs THEN "lost" ELSE fate[r]]
Queued(s) == ToSet(s.q)
=============================================================================
