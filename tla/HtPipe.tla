------------------------------- MODULE HtPipe -------------------------------
(***************************************************************************)
(* htpipe.c without -C or -S: a program that passes its requests to a      *)
(* server on a named socket, and that first forks the server if there is   *)
(* none.  Several programs may be started with the same path.              *)
(*                                                                         *)
(* The server that program p forks, and the server's child, have the name  *)
(* p as well.                                                              *)
(***************************************************************************)
EXTENDS Integers, FiniteSets, ReqSock

CONSTANTS Clients, None

VARIABLES fate,
          cl,       \* client -> [pc, hand]
          conn,     \* client -> its connection
          sv,       \* server -> [pc, back: the backlog of its socket, cls: `cl', in and acc: what
                    \* poll() gave, hand]
          path,     \* whose socket is at the path, or None
          chsock,   \* server -> the socket of its child
          stolen,   \* history: a server has unlinked the socket of another one that lives
          disturbed \* history: a program found no server while another was about to fork or had forked one
                    \* and not connected, or a server ended before the program that forked it had connected

HtPipeInit ==
  /\ cl = [p \in Clients |-> [pc |-> "off", hand |-> None]]
  /\ conn = [p \in Clients |-> Open]
  /\ sv = [s \in Clients |-> [pc |-> "none", back |-> {}, cls |-> {}, in |-> {}, acc |-> FALSE, hand |-> None]]
  /\ path = None
  /\ chsock = [s \in Clients |-> Open]
  /\ stolen = FALSE
  /\ disturbed = FALSE

HtPipeTypeOK(Reqs) ==
  /\ cl \in [Clients -> [pc : {"off", "connect", "fork", "wait", "again", "recv", "send", "ended", "failed"},
                         hand : Reqs \cup {None}]]
  /\ sv \in [Clients -> [pc : {"none", "stat", "unlink", "bind", "listen", "mkchild", "poll", "clients", "send",
                               "accept", "ended"},
                         back : SUBSET Clients, cls : SUBSET Clients, in : SUBSET Clients, acc : BOOLEAN,
                         hand : Reqs \cup {None}]]
  /\ path \in Clients \cup {None}
  /\ {stolen, disturbed} \subseteq BOOLEAN

Serving(s) == sv[s].pc \in {"poll", "clients", "send", "accept"}
Listens(s) == Serving(s) \/ sv[s].pc = "mkchild"
\* It has a socket at the path, or had.
Bound(s) == Listens(s) \/ sv[s].pc = "listen"
\* The program has found no server, and is not connected to its own.
Forking(p) == cl[p].pc \in {"fork", "wait", "again"}
history == <<stolen, disturbed>>

-----------------------------------------------------------------------------
(* The client.                                                             *)

\* External: the program is started.
Start(p) == /\ cl[p].pc = "off"
            /\ cl' = [cl EXCEPT ![p].pc = "connect"]
            /\ UNCHANGED <<fate, conn, sv, path, chsock, history>>

\* clconnect(): there is a listening socket at the path.
Connect(p) == /\ cl[p].pc \in {"connect", "again"}
              /\ path # None /\ Listens(path)
              /\ sv' = [sv EXCEPT ![path].back = @ \cup {p}]
              /\ cl' = [cl EXCEPT ![p].pc = "recv"]
              /\ UNCHANGED <<fate, conn, path, chsock, history>>
\* There is not; the second time that is the end.
NotThere(p) == /\ cl[p].pc \in {"connect", "again"}
               /\ path # None => ~Listens(path)
               /\ cl' = [cl EXCEPT ![p].pc = IF @ = "connect" THEN "fork" ELSE "failed"]
               /\ disturbed' = (disturbed \/ (cl[p].pc = "connect" /\ \E q \in Clients : Forking(q)))
               /\ UNCHANGED <<fate, conn, sv, path, chsock, stolen>>

ForkServer(p) == /\ cl[p].pc = "fork"
                 /\ sv' = [sv EXCEPT ![p].pc = "stat"]
                 /\ cl' = [cl EXCEPT ![p].pc = "wait"]
                 /\ UNCHANGED <<fate, conn, path, chsock, history>>
\* fork() fails, which ends the program.
ForkFails(p) == /\ cl[p].pc = "fork"
                /\ cl' = [cl EXCEPT ![p].pc = "ended"]
                /\ UNCHANGED <<fate, conn, sv, path, chsock, history>>
\* waitpid(): the server has left for the background, or has failed.
WaitServer(p) == /\ cl[p].pc = "wait" /\ (Serving(p) \/ sv[p].pc = "ended")
                 /\ cl' = [cl EXCEPT ![p].pc = "again"]
                 /\ UNCHANGED <<fate, conn, sv, path, chsock, history>>

\* runclient(): recvreq(), and its end; sendreq(), or the exit if that fails.
ClientRecv(p, r) == /\ cl[p].pc = "recv" /\ fate[r] = "new"
                    /\ cl' = [cl EXCEPT ![p] = [pc |-> "send", hand |-> r]]
                    /\ fate' = [fate EXCEPT ![r] = "with"]
                    /\ UNCHANGED <<conn, sv, path, chsock, history>>
ClientEnds(p, rs) == /\ cl' = [cl EXCEPT ![p] = [pc |-> "ended", hand |-> None]]
                     /\ conn' = [conn EXCEPT ![p] = Finish(@)]
                     /\ fate' = Lose(fate, rs)
                     /\ UNCHANGED <<sv, path, chsock, history>>
ClientEof(p) == cl[p].pc = "recv" /\ ClientEnds(p, {})
ClientSend(p) == /\ cl[p].pc = "send" /\ Fits(conn[p])
                 /\ conn' = [conn EXCEPT ![p] = Put(@, cl[p].hand)]
                 /\ cl' = [cl EXCEPT ![p] = [pc |-> "recv", hand |-> None]]
                 /\ UNCHANGED <<fate, sv, path, chsock, history>>
ClientFails(p) == cl[p].pc = "send" /\ Refuses(conn[p]) /\ ClientEnds(p, {cl[p].hand})

ClientStep(p) == Connect(p) \/ NotThere(p) \/ ForkServer(p) \/ WaitServer(p) \/ ClientSend(p) \/ ClientFails(p)

-----------------------------------------------------------------------------
(* The server.                                                             *)

\* The process is gone; its socket stays at the path, and refuses.
ServerEnds(s) ==
  LET dropped == sv[s].cls \cup sv[s].back IN
  /\ sv' = [sv EXCEPT ![s] = [pc |-> "ended", back |-> {}, cls |-> {}, in |-> {}, acc |-> FALSE, hand |-> None]]
  /\ conn' = [p \in Clients |-> IF p \in dropped THEN Leave(conn[p]) ELSE conn[p]]
  /\ fate' = Lose(fate, ({sv[s].hand} \ {None}) \cup UNION {Queued(conn[p]) : p \in dropped})
  /\ chsock' = [chsock EXCEPT ![s] = Finish(@)]
  /\ UNCHANGED <<cl, path>>
Disturbs(s) == disturbed' = (disturbed \/ cl[s].pc \in {"wait", "again"}) /\ UNCHANGED stolen

\* mklisten(): stat() and unlink() of a socket that is there, bind(), listen().
Stat_Keeps(s) == /\ sv[s].pc = "stat" \* mutant: a socket that is there is not unlinked
                 /\ sv' = [sv EXCEPT ![s].pc = "bind"]
                 /\ UNCHANGED <<fate, cl, conn, path, chsock, history>>
Stat(s) == /\ sv[s].pc = "stat"
           /\ sv' = [sv EXCEPT ![s].pc = IF path = None THEN "bind" ELSE "unlink"]
           /\ UNCHANGED <<fate, cl, conn, path, chsock, history>>
Unlink(s) == /\ sv[s].pc = "unlink"
             /\ path' = None
             /\ stolen' = (stolen \/ (path # None /\ Bound(path)))
             /\ sv' = [sv EXCEPT ![s].pc = "bind"]
             /\ UNCHANGED <<fate, cl, conn, chsock, disturbed>>
Bind(s) == /\ sv[s].pc = "bind" /\ path = None
           /\ path' = s
           /\ sv' = [sv EXCEPT ![s].pc = "listen"]
           /\ UNCHANGED <<fate, cl, conn, chsock, history>>
BindFails(s) == sv[s].pc = "bind" /\ path # None /\ ServerEnds(s) /\ UNCHANGED history
Listen(s) == /\ sv[s].pc = "listen"
             /\ sv' = [sv EXCEPT ![s].pc = "mkchild"]
             /\ UNCHANGED <<fate, cl, conn, path, chsock, history>>
\* stdmkchild() and daemon().
MkChild(s) == /\ sv[s].pc = "mkchild"
              /\ sv' = [sv EXCEPT ![s].pc = "poll"]
              /\ UNCHANGED <<fate, cl, conn, path, chsock, history>>
MkChildFails(s) == sv[s].pc = "mkchild" /\ ServerEnds(s) /\ Disturbs(s)

\* runserver(): poll(); then all clients that it gave are read, and one connection is accepted.
Ready(s) == {p \in sv[s].cls : Readable(conn[p])}
Poll_Full(s) == /\ sv[s].pc = "poll" \* mutant: the listening socket is left out once there is a client
                /\ Ready(s) # {} \/ (sv[s].back # {} /\ sv[s].cls = {})
                /\ sv' = [sv EXCEPT ![s].pc = "clients", ![s].in = Ready(s), ![s].acc = sv[s].cls = {}]
                /\ UNCHANGED <<fate, cl, conn, path, chsock, history>>
Poll(s) == /\ sv[s].pc = "poll" /\ (Ready(s) # {} \/ sv[s].back # {})
           /\ sv' = [sv EXCEPT ![s].pc = "clients", ![s].in = Ready(s), ![s].acc = sv[s].back # {}]
           /\ UNCHANGED <<fate, cl, conn, path, chsock, history>>
ReadClient(s, p) ==
  /\ sv[s].pc = "clients" /\ p \in sv[s].in /\ conn[p].q # <<>>
  /\ conn' = [conn EXCEPT ![p] = Take(@)]
  /\ sv' = [sv EXCEPT ![s].pc = "send", ![s].in = @ \ {p}, ![s].hand = Head(conn[p].q)]
  /\ UNCHANGED <<fate, cl, path, chsock, history>>
DropClient(s, p) ==
  /\ sv[s].pc = "clients" /\ p \in sv[s].in /\ AtEnd(conn[p])
  /\ conn' = [conn EXCEPT ![p] = Leave(@)]
  /\ sv' = [sv EXCEPT ![s].in = @ \ {p}, ![s].cls = @ \ {p}]
  /\ UNCHANGED <<fate, cl, path, chsock, history>>
SendChild(s) == /\ sv[s].pc = "send" /\ Fits(chsock[s])
                /\ chsock' = [chsock EXCEPT ![s] = Put(@, sv[s].hand)]
                /\ sv' = [sv EXCEPT ![s].pc = "clients", ![s].hand = None]
                /\ UNCHANGED <<fate, cl, conn, path, history>>
ChildGone(s) == sv[s].pc = "send" /\ Refuses(chsock[s]) /\ ServerEnds(s) /\ Disturbs(s)
ClientsRead(s) == /\ sv[s].pc = "clients" /\ sv[s].in = {}
                  /\ sv' = [sv EXCEPT ![s].pc = IF sv[s].acc THEN "accept" ELSE "poll"]
                  /\ UNCHANGED <<fate, cl, conn, path, chsock, history>>
Accept(s) == /\ sv[s].pc = "accept"
             /\ \E p \in sv[s].back :
                  sv' = [sv EXCEPT ![s].pc = "poll", ![s].acc = FALSE, ![s].back = @ \ {p}, ![s].cls = @ \cup {p}]
             /\ UNCHANGED <<fate, cl, conn, path, chsock, history>>

\* External: the server is killed.
KillServer(s) == Serving(s) /\ ServerEnds(s) /\ Disturbs(s)

ServerStep(s) == \/ Stat(s) \/ Unlink(s) \/ Bind(s) \/ BindFails(s) \/ Listen(s) \/ MkChild(s)
                 \/ Poll(s) \/ ClientsRead(s) \/ Accept(s) \/ SendChild(s) \/ ChildGone(s)
                 \/ \E p \in Clients : ReadClient(s, p) \/ DropClient(s, p)
=============================================================================
