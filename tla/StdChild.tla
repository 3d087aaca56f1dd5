------------------------------ MODULE StdChild ------------------------------
(***************************************************************************)
(* The processes that a program of ashd passes requests to: stdhandle()    *)
(* and mergechildren() of lib/cf.c and stdmkchild() of lib/proc.c.         *)
(*                                                                         *)
(* A kernel K is a record of what the program's calls act on: `end' is its *)
(* table of descriptors with the process at the other end of each socket,  *)
(* `up' the processes that run, and `queue' the requests that wait in a    *)
(* socket.  A child declaration is a record [name, type, fd].  An operator *)
(* that makes system calls returns the set of their possible outcomes.     *)
(***************************************************************************)
EXTENDS Integers, Sequences, FiniteSets, SequencesExt

CONSTANTS Fd,        \* the descriptors the program may have for children
          Proc,      \* the processes it may start
          QueueMax,  \* the requests that a socket takes
          Big        \* the requests that are too large for a message

NoFd == -1
Closed == "closed"
Leaked == "leaked"   \* open, but forgotten by the program

ASSUME StdChildAssumption == /\ Fd \subseteq Nat /\ IsFiniteSet(Fd)
                             /\ Proc \cap {Closed, Leaked} = {}
                             /\ QueueMax \in Nat \ {0}

\* The declarations of children, and the sockets that some of them have.
Decl == [name : STRING, type : {"child", "fchild"}, fd : Fd \cup {NoFd}]
WithFd(c, fd) == [c EXCEPT !.fd = fd]
Rewired(chs, i, fd) == [chs EXCEPT ![i] = WithFd(@, fd)]
Owned(chs) == {chs[i].fd : i \in DOMAIN chs} \ {NoFd}

NewKernel == [end |-> [f \in Fd |-> Closed], up |-> {}, started |-> {},
              queue |-> [p \in Proc |-> <<>>]]

Free(K) == {f \in Fd : K.end[f] = Closed}
Close(K, f) == IF f = NoFd THEN K ELSE [K EXCEPT !.end[f] = Closed]

\* The process p is at the other end of fd, and runs if it is in live.
Started(K, fd, p, live) == [end |-> [K.end EXCEPT ![fd] = p], up |-> K.up \cup live,
                            started |-> K.started \cup {p}, queue |-> K.queue]

\* stdmkchild(): a socket pair and a process, which may fail to start or end at
\* once.  When fork() fails both sockets are left open.
Forked(K) ==
  LET a == Min(Free(K))
      b == Min(Free(K) \ {a})
      p == CHOOSE q \in Proc \ K.started : TRUE
      lost == [K EXCEPT !.end = [@ EXCEPT ![a] = Leaked, ![b] = Leaked]]
  IN  {[k |-> K, fd |-> NoFd]}
        \cup (IF Cardinality(Free(K)) < 2 THEN {} ELSE {[k |-> lost, fd |-> NoFd]})
        \cup (IF Cardinality(Free(K)) < 2 \/ Proc \subseteq K.started THEN {}
              ELSE {[k |-> Started(K, b, p, live), fd |-> b] : live \in {{}, {p}}})

\* The errno of sendreq2(), "ok" if it sends.
SendResult(K, fd, r) ==
  IF fd = NoFd THEN "EBADF"
  ELSE IF r \in Big THEN "EMSGSIZE"
  ELSE IF K.end[fd] \notin K.up THEN "EPIPE"
  ELSE IF Len(K.queue[K.end[fd]]) >= QueueMax THEN "EAGAIN"
  ELSE "ok"
Sent(K, fd, r) == [K EXCEPT !.queue[K.end[fd]] = Append(@, r)]

\* What stdhandle() makes of the last sendreq2(): the kernel, sd->fd, whether
\* the request was sent, and whether 0 is returned.
Done(x, r) ==
  LET res == SendResult(x.k, x.fd, r) IN
    IF res = "ok" THEN [k |-> Sent(x.k, x.fd, r), fd |-> x.fd, sent |-> TRUE, ok |-> TRUE]
    ELSE IF res = "EAGAIN" THEN [k |-> x.k, fd |-> x.fd, sent |-> FALSE, ok |-> FALSE]
    ELSE [k |-> Close(x.k, x.fd), fd |-> NoFd, sent |-> FALSE, ok |-> FALSE]

\* Mutant: after a restart the request is passed on, but an error returned.
HandleSocket_ErrorToo(K, fd, r) ==
  LET first == IF fd = NoFd THEN Forked(K) ELSE {[k |-> K, fd |-> fd]}
      crashed == {x \in first : SendResult(x.k, x.fd, r) = "EPIPE"}
  IN  {Done(x, r) : x \in first \ crashed}
        \cup UNION {{[Done(y, r) EXCEPT !.ok = FALSE] : y \in Forked(Close(x.k, x.fd))}
                      : x \in crashed}

\* stdhandle() for a `child': start it if it has no socket; and once more, if
\* its process turns out to be gone.
HandleSocket(K, fd, r) ==
  LET first == IF fd = NoFd THEN Forked(K) ELSE {[k |-> K, fd |-> fd]}
      crashed == {x \in first : SendResult(x.k, x.fd, r) = "EPIPE"}
  IN  {Done(x, r) : x \in first \ crashed}
        \cup UNION {{Done(y, r) : y \in Forked(Close(x.k, x.fd))} : x \in crashed}

\* stdhandle().  The process of an `fchild' gets the request as it is started,
\* and is not followed any further.
StdHandle(K, ch, r) == IF ch.type = "child" THEN HandleSocket(K, ch.fd, r)
                       ELSE {[k |-> K, fd |-> ch.fd, sent |-> b, ok |-> b] : b \in BOOLEAN}

\* getchild(): the first declaration of that name, 0 if there is none.
GetChild(chs, name) == SelectInSeq(chs, LAMBDA c : c.name = name)

\* Mutant: the old declaration keeps its socket as well.
MergeChildren_Both(new, old) ==
  LET from(i) == GetChild(old, new[i].name) IN
    [new |-> [i \in DOMAIN new |-> WithFd(new[i], IF from(i) = 0 THEN NoFd ELSE old[from(i)].fd)],
     old |-> old]

\* mergechildren(): each new declaration takes the socket of the first old one
\* of its name, if none before it has.
MergeChildren(new, old) ==
  LET from(i) == GetChild(old, new[i].name)
      takes(i) == /\ from(i) # 0
                  /\ \A h \in 1 .. i - 1 : new[h].name # new[i].name
  IN  [new |-> [i \in DOMAIN new |->
                  WithFd(new[i], IF takes(i) THEN old[from(i)].fd ELSE NoFd)],
       old |-> [j \in DOMAIN old |->
                  IF \E i \in DOMAIN new : takes(i) /\ from(i) = j
                  THEN WithFd(old[j], NoFd) ELSE old[j]]]

\* freechild() of every declaration.
FreeChildren(K, chs) ==
  [K EXCEPT !.end = [f \in Fd |-> IF \E i \in DOMAIN chs : chs[i].fd = f THEN Closed ELSE K.end[f]]]

-----------------------------------------------------------------------------
(* The processes, which are other programs.                                *)

\* A process receives the next request of its socket.
Takes(K, p) == [K EXCEPT !.queue[p] = Tail(@)]

\* It ends; what it has not received is dropped.
Ends(K, p) == [end |-> K.end, up |-> K.up \ {p}, started |-> K.started,
               queue |-> [K.queue EXCEPT ![p] = <<>>]]
=============================================================================
