------------------------------- MODULE Shared -------------------------------
(***************************************************************************)
(* htpipe PATH userplex: programs that share a server and its userplex.    *)
(***************************************************************************)
EXTENDS Integers, FiniteSets, ReqSock

CONSTANTS Clients, Reqs, Users, UserOf, None,
          MaxKid,   \* bound on the processes of users
          MaxEvents \* bound on what happens from outside: starts, requests and their end, crashes

ASSUME SharedAssumption == /\ None \notin Clients \cup Reqs \cup Users
                           /\ IsFiniteSet(Clients) /\ IsFiniteSet(Reqs)
                           /\ UserOf \in [Reqs -> Users]
                           /\ {MaxKid, Room} \subseteq Nat \ {0} /\ MaxEvents \in Nat

VARIABLES fate,
          cl, conn, sv, path, chsock, stolen, disturbed, \* htpipe
          up, kid, usock, kids,                          \* userplex
          events

P == INSTANCE HtPipe
U == INSTANCE Userplex WITH Inputs <- Clients

pipe == <<cl, conn, sv, path, stolen, disturbed>>
plex == <<up, kid, usock, kids>>
vars == <<fate, pipe, chsock, plex, events>>

Init == /\ fate = [r \in Reqs |-> "new"]
        /\ P!HtPipeInit /\ U!UserplexInit
        /\ events = 0

Event == events < MaxEvents /\ events' = events + 1

Client(p) == P!ClientStep(p) /\ UNCHANGED <<plex, events>>
Server(s) == P!ServerStep(s) /\ UNCHANGED <<plex, events>>
\* The userplex of a server is there when the server has made it.
Plex(s) == P!Serving(s) \/ sv[s].pc = "ended"
Userplex(s) == Plex(s) /\ U!UserplexStep(s) /\ UNCHANGED <<pipe, events>>
Kid(k) == U!KidStep(k) /\ UNCHANGED <<pipe, events>>

Start(p) == P!Start(p) /\ Event /\ UNCHANGED plex
Request(p, r) == P!ClientRecv(p, r) /\ Event /\ UNCHANGED plex
Eof(p) == P!ClientEof(p) /\ Event /\ UNCHANGED plex
MkChildFails(s) == P!MkChildFails(s) /\ Event /\ UNCHANGED plex
\* System calls that fail: fork() of the server, of its child, and a send to a process.
ForkFails(p) == P!ForkFails(p) /\ Event /\ UNCHANGED plex
SendError(s) == Plex(s) /\ U!SendError(s) /\ Event /\ UNCHANGED pipe
Kill == \/ \E s \in Clients : P!KillServer(s) /\ Event /\ UNCHANGED plex
        \/ \E s \in Clients : P!Serving(s) /\ U!KillUserplex(s) /\ Event /\ UNCHANGED pipe
        \/ \E k \in U!Kids : U!KidDies(k) /\ Event /\ UNCHANGED pipe

\* What the programs do by themselves.
Work == \/ \E p \in Clients : Client(p) \/ Server(p) \/ Userplex(p)
        \/ \E k \in U!Kids : Kid(k)

Next == \/ Work
        \/ \E p \in Clients : Eof(p) \/ MkChildFails(p) \/ ForkFails(p) \/ SendError(p) \/ Start(p)
        \/ \E p \in Clients, r \in Reqs : Request(p, r)
        \/ Kill

\* Some program goes on as long as any can: less than that each of them does.
Fairness == WF_vars(Work)

Spec == Init /\ [][Next]_vars
FairSpec == Spec /\ Fairness

-----------------------------------------------------------------------------
\* The type invariant.
Sockets(Names) == [Names -> [q : BoundedSeq(Reqs, Room), snd : BOOLEAN, rcv : {"open", "gone"}]]
TypeOK == /\ fate \in [Reqs -> {"new", "with", "answered", "lost", "twice"}]
          /\ conn \in Sockets(Clients) /\ chsock \in Sockets(Clients) /\ usock \in Sockets(U!Kids)
          /\ P!HtPipeTypeOK(Reqs) /\ U!UserplexTypeOK(Reqs)
          /\ events \in 0 .. MaxEvents

\* Where a request is that is under way: queued for a server, a userplex or a process, in the hand
\* of one of them, or kept by a process that is about to answer that it could not start.
Ahead(name, s, r) == {<<name, i>> : i \in {j \in 1 .. Len(s.q) : s.q[j] = r}}
Places(r) ==
  (UNION {Ahead(<<"conn", p>>, conn[p], r) : p \in Clients})
  \cup (UNION {Ahead(<<"userplex", s>>, chsock[s], r) : s \in Clients})
  \cup (UNION {Ahead(<<"kid", k>>, usock[k], r) : k \in U!Kids})
  \cup {<<"client", p>> : p \in {q \in Clients : cl[q].hand = r}}
  \cup {<<"server", s>> : s \in {t \in Clients : sv[t].hand = r}}
  \cup {<<"plex", s>> : s \in {t \in Clients : up[t].hand = r}}
  \cup {<<"process", k>> : k \in {i \in U!Kids : kid[i].hand = r \/ (kid[i].pc = "error" /\ kid[i].req = r /\ fate[r] = "with")}}

\* Whatever crashes, a request is in one place while it is under way, is answered once at most,
\* and gets to nobody but a process of its user; a process that cannot start throws away just the
\* request that it answers itself.
Placed ==
  /\ TypeOK
  /\ \A r \in Reqs : fate[r] # "twice" /\ Cardinality(Places(r)) = IF fate[r] = "with" THEN 1 ELSE 0
  /\ \A k \in U!Kids : \A r \in Queued(usock[k]) \cup ({kid[k].hand} \ {None}) : kid[k].user = UserOf[r]

\* A socket that is open leads to the process that a userplex has for that user, or to no process
\* at all: it was made for one that was not forked, and lost, until userplex itself ends.
Known ==
  \A k \in 1 .. kids :
    usock[k].snd <=> \E s \in Clients : IF kid[k].pc = "none" THEN k \in up[s].leaks
                                        ELSE up[s].fd[kid[k].user] = k

\* However programs start at once and servers fail, there is one server, which is at the path, and
\* no program fails whose own server lives, until a server unlinks the socket of one that lives;
\* and that, or a program that fails, needs two that fork a server before either has connected, or
\* a server that ends before the program that forked it has connected.
Decoupled ==
  /\ ~stolen => /\ \A s \in Clients : P!Bound(s) => path = s
                /\ \A p \in Clients : cl[p].pc = "failed" => sv[p].pc = "ended"
  /\ ~disturbed => ~stolen /\ \A p \in Clients : cl[p].pc # "failed"

\* A request that a client has taken is over in the end.
Settled == \A r \in Reqs : fate[r] = "with" ~> fate[r] # "with"
=============================================================================
