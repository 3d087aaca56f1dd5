------------------------------ MODULE Userplex ------------------------------
(***************************************************************************)
(* userplex.c: gives each request to a process of the user that it is for, *)
(* which is started when there is none.                                    *)
(*                                                                         *)
(* Each of the sockets in Inputs has a userplex behind it.  The processes  *)
(* of users are numbered in the order in which their sockets are made; a   *)
(* socket of which no process is forked has a number as well.              *)
(***************************************************************************)
EXTENDS Integers, FiniteSets, ReqSock

CONSTANTS Inputs, Users, UserOf, MaxKid, None

VARIABLES fate, chsock,
          up,     \* userplex -> [pc, hand, fd: user -> the process, or 0 for none,
                  \* leaks: the sockets that are open and that no `fd' is]
          kid,    \* process -> [pc, req: the request that it was forked for, hand, user]
          usock,  \* process -> its standard input
          kids    \* the socket pairs that were made

Kids == 1 .. MaxKid

UserplexInit ==
  /\ up = [s \in Inputs |-> [pc |-> "recv", hand |-> None, fd |-> [u \in Users |-> 0], leaks |-> {}]]
  /\ kid = [k \in Kids |-> [pc |-> "none", req |-> None, hand |-> None, user |-> None]]
  /\ usock = [k \in Kids |-> Open]
  /\ kids = 0

UserplexTypeOK(Reqs) ==
  /\ up \in [Inputs -> [pc : {"recv", "find", "send", "restart", "resend", "ended"}, hand : Reqs \cup {None},
                        fd : [Users -> 0 .. MaxKid], leaks : SUBSET Kids]]
  /\ kid \in [Kids -> [pc : {"none", "login", "exec", "discard", "error", "run", "ended"},
                       req : Reqs \cup {None}, hand : Reqs \cup {None}, user : Users \cup {None}]]
  /\ kids \in 0 .. MaxKid

Answer(r) == fate' = [fate EXCEPT ![r] = IF @ = "with" THEN "answered" ELSE "twice"]

User(s) == UserOf[up[s].hand]
Fd(s) == up[s].fd[User(s)]

-----------------------------------------------------------------------------
(* userplex itself.                                                        *)

Recv(s) == /\ up[s].pc = "recv" /\ chsock[s].q # <<>>
           /\ chsock' = [chsock EXCEPT ![s] = Take(@)]
           /\ up' = [up EXCEPT ![s].pc = "find", ![s].hand = Head(chsock[s].q)]
           /\ UNCHANGED <<fate, kid, usock, kids>>

\* The request is over for userplex, and its copy of the connection closed.
Served(s) == [up EXCEPT ![s].pc = "recv", ![s].hand = None]

\* serve() and initnew() answer: no user, or not one to be served.
Refuse(s) == /\ up[s].pc = "find"
             /\ Answer(up[s].hand)
             /\ up' = Served(s)
             /\ UNCHANGED <<chsock, kid, usock, kids>>

\* forkchild().  When getpwnam() or fork() fails `fd' is -1, as when socketpair() does, but the
\* pair that was made stays open.
ForkChild(s, next) ==
  \/ /\ kids < MaxKid
     /\ kids' = kids + 1
     /\ \/ /\ kid' = [kid EXCEPT ![kids + 1] = [pc |-> "login", req |-> up[s].hand, hand |-> None, user |-> User(s)]]
           /\ up' = [up EXCEPT ![s].pc = next, ![s].fd[User(s)] = kids + 1]
        \/ /\ up' = [up EXCEPT ![s].pc = next, ![s].fd[User(s)] = 0, ![s].leaks = @ \cup {kids + 1}]
           /\ UNCHANGED kid
  \/ /\ up' = [up EXCEPT ![s].pc = next, ![s].fd[User(s)] = 0]
     /\ UNCHANGED <<kid, kids>>

\* serve2(): a process if there is none.
Find(s) == /\ up[s].pc = "find"
           /\ IF Fd(s) # 0 THEN up' = [up EXCEPT ![s].pc = "send"] /\ UNCHANGED <<kid, kids>>
              ELSE ForkChild(s, "send")
           /\ UNCHANGED <<fate, chsock, usock>>

\* sendreq2() with MSG_DONTWAIT, the first and the second time.
Sent(s) == /\ up[s].pc \in {"send", "resend"} /\ Fd(s) # 0 /\ Fits(usock[Fd(s)])
           /\ usock' = [usock EXCEPT ![Fd(s)] = Put(@, up[s].hand)]
           /\ up' = Served(s)
           /\ UNCHANGED <<fate, chsock, kid, kids>>

\* EAGAIN: the request is dropped, and the process kept.
TooBusy(s) == /\ up[s].pc = "send" /\ Fd(s) # 0 /\ ~Refuses(usock[Fd(s)]) /\ ~Fits(usock[Fd(s)])
              /\ fate' = Lose(fate, {up[s].hand})
              /\ up' = Served(s)
              /\ UNCHANGED <<chsock, kid, usock, kids>>

\* EPIPE, ECONNRESET: it is taken to have crashed, and another is started.
Restart_Open(s) == /\ up[s].pc = "send" /\ Fd(s) # 0 /\ Refuses(usock[Fd(s)]) \* mutant: no close()
                   /\ ForkChild(s, "resend")
                   /\ UNCHANGED <<fate, chsock, usock>>
Restart(s) == /\ up[s].pc = "send" /\ Fd(s) # 0 /\ Refuses(usock[Fd(s)])
              /\ usock' = [usock EXCEPT ![Fd(s)] = Finish(@)]
              /\ ForkChild(s, "resend")
              /\ UNCHANGED <<fate, chsock>>

\* The request is dropped, and the socket closed: `fd' is -1.
Drop(s) == /\ usock' = IF Fd(s) = 0 THEN usock ELSE [usock EXCEPT ![Fd(s)] = Finish(@)]
           /\ fate' = Lose(fate, {up[s].hand})
           /\ up' = [Served(s) EXCEPT ![s].fd[User(s)] = 0]
           /\ UNCHANGED <<chsock, kid, kids>>
\* There is no process (EBADF), or the new one is gone as well.
GiveUp(s) == /\ \/ up[s].pc \in {"send", "resend"} /\ Fd(s) = 0
                \/ up[s].pc = "resend" /\ Fd(s) # 0 /\ Refuses(usock[Fd(s)])
             /\ Drop(s)
\* Another error (EMSGSIZE): the process, which may well live, gets no more.
SendError(s) == up[s].pc \in {"send", "resend"} /\ Fd(s) # 0 /\ Drop(s)

\* main() returns at the end of its input; or, external, userplex is killed.
UserplexEnds(s) ==
  LET open == {up[s].fd[u] : u \in Users} \cup up[s].leaks IN
  /\ up' = [up EXCEPT ![s] = [pc |-> "ended", hand |-> None, fd |-> [u \in Users |-> 0], leaks |-> {}]]
  /\ usock' = [k \in Kids |-> IF k \in open THEN Finish(usock[k]) ELSE usock[k]]
  /\ chsock' = [chsock EXCEPT ![s] = Leave(@)]
  /\ fate' = Lose(fate, ({up[s].hand} \ {None}) \cup Queued(chsock[s]))
  /\ UNCHANGED <<kid, kids>>
InputOver(s) == up[s].pc = "recv" /\ AtEnd(chsock[s]) /\ UserplexEnds(s)
KillUserplex(s) == up[s].pc # "ended" /\ UserplexEnds(s)

UserplexStep(s) == Recv(s) \/ Refuse(s) \/ Find(s) \/ Sent(s) \/ TooBusy(s) \/ Restart(s) \/ GiveUp(s) \/ InputOver(s)

-----------------------------------------------------------------------------
(* The processes of the users.                                             *)

\* login(), which may exit; then the handler is there or not.
Login(k) == /\ kid[k].pc = "login"
            /\ kid' = [kid EXCEPT ![k].pc = "exec"]
            /\ UNCHANGED <<fate, chsock, up, usock, kids>>
Exec_Answers(k) == /\ kid[k].pc = "exec" \* mutant: no discardreq() before the error
                   /\ \E pc \in {"run", "error"} : kid' = [kid EXCEPT ![k].pc = pc]
                   /\ UNCHANGED <<fate, chsock, up, usock, kids>>
Exec(k) == /\ kid[k].pc = "exec"
           /\ \E pc \in {"run", "discard"} : kid' = [kid EXCEPT ![k].pc = pc]
           /\ UNCHANGED <<fate, chsock, up, usock, kids>>

\* discardreq(0): what comes first is received and closed.
Discard(k) ==
  /\ kid[k].pc = "discard" /\ Readable(usock[k])
  /\ LET some == usock[k].q # <<>> IN
     /\ usock' = IF some THEN [usock EXCEPT ![k] = Take(@)] ELSE usock
     /\ fate' = IF some THEN Lose(fate, {Head(usock[k].q)} \ {kid[k].req}) ELSE fate
  /\ kid' = [kid EXCEPT ![k].pc = "error"]
  /\ UNCHANGED <<chsock, up, kids>>

Gone(k, f) == /\ kid' = [kid EXCEPT ![k].pc = "ended", ![k].hand = None]
              /\ usock' = [usock EXCEPT ![k] = Leave(@)]
              /\ fate' = Lose(f, Queued(usock[k]))
              /\ UNCHANGED <<chsock, up, kids>>

\* simpleerror() to the connection that the process was forked with, and exit(127).  The process
\* answers also if userplex was killed before it could pass the request on.
AnswerError(k) ==
  /\ kid[k].pc = "error"
  /\ Gone(k, [fate EXCEPT ![kid[k].req] = IF @ \in {"with", "lost"} THEN "answered" ELSE "twice"])

\* External: the handler takes requests and answers them, and ends with its input.
HandlerTakes(k) == /\ kid[k].pc = "run" /\ kid[k].hand = None /\ usock[k].q # <<>>
            /\ usock' = [usock EXCEPT ![k] = Take(@)]
            /\ kid' = [kid EXCEPT ![k].hand = Head(usock[k].q)]
            /\ UNCHANGED <<fate, chsock, up, kids>>
HandlerAnswers(k) == /\ kid[k].pc = "run" /\ kid[k].hand # None
              /\ Answer(kid[k].hand)
              /\ kid' = [kid EXCEPT ![k].hand = None]
              /\ UNCHANGED <<chsock, up, usock, kids>>
HandlerEnds(k) == kid[k].pc = "run" /\ kid[k].hand = None /\ AtEnd(usock[k]) /\ Gone(k, fate)

KidStep(k) == Login(k) \/ Exec(k) \/ Discard(k) \/ AnswerError(k) \/ HandlerTakes(k) \/ HandlerAnswers(k) \/ HandlerEnds(k)

\* External: login() exits, or the handler crashes.
KidDies(k) == /\ kid[k].pc \in {"login", "exec", "run"}
              /\ Gone(k, Lose(fate, {kid[k].hand} \ {None}))
=============================================================================
