---------------------------- MODULE SharedProofs ----------------------------
(***************************************************************************)
(* Proofs about the programs that share a server and its userplex, for any *)
(* number of programs, users, requests and processes: that userplex does   *)
(* not forget a process or leak its socket, that a request is in one place *)
(* as long as it is under way, and that there is one server.               *)
(***************************************************************************)
EXTENDS Shared, FiniteSetTheorems, TLAPS

\* A socket, with its bound written as a condition.
Queue == {q \in Seq(Reqs) : Len(q) <= Room}
Sock == [q : Queue, snd : BOOLEAN, rcv : {"open", "gone"}]

ClientPcs == {"off", "connect", "fork", "wait", "again", "recv", "send", "ended", "failed"}
ServerPcs == {"none", "stat", "unlink", "bind", "listen", "mkchild", "poll", "clients", "send", "accept", "ended"}
ClientType == [Clients -> [pc : ClientPcs, hand : Reqs \cup {None}]]
ServerRec == [pc : ServerPcs, back : SUBSET Clients, cls : SUBSET Clients, in : SUBSET Clients,
              acc : BOOLEAN, hand : Reqs \cup {None}]
ServerType == [Clients -> ServerRec]
UpPcs == {"recv", "find", "send", "restart", "resend", "ended"}
UpRec == [pc : UpPcs, hand : Reqs \cup {None}, fd : [Users -> 0 .. MaxKid], leaks : SUBSET U!Kids]
UpType == [Clients -> UpRec]
KidPcs == {"none", "login", "exec", "discard", "error", "run", "ended"}
KidRec == [pc : KidPcs, req : Reqs \cup {None}, hand : Reqs \cup {None}, user : Users \cup {None}]
KidType == [U!Kids -> KidRec]
PlexOK == up \in UpType /\ kid \in KidType /\ kids \in 0 .. MaxKid
PipeOK == cl \in ClientType /\ sv \in ServerType /\ path \in Clients \cup {None} /\ {stolen, disturbed} \subseteq BOOLEAN

\* The type invariant, and where there is a request in the hand.
Types ==
  /\ fate \in [Reqs -> {"new", "with", "answered", "lost", "twice"}]
  /\ conn \in [Clients -> Sock] /\ chsock \in [Clients -> Sock] /\ usock \in [U!Kids -> Sock]
  /\ PipeOK /\ PlexOK
  /\ events \in 0 .. MaxEvents
  /\ \A p \in Clients : /\ cl[p].pc = "send" => cl[p].hand \in Reqs
                        /\ sv[p].pc = "send" => sv[p].hand \in Reqs
                        /\ up[p].pc \in {"find", "send", "resend"} => up[p].hand \in Reqs

LEMMA Rooms == Room \in Nat /\ 0 < Room
BY SharedAssumption

\* The operators of ReqSock are the same in both programs.
LEMMA Same ==
  /\ \A s : /\ P!Finish(s) = Finish(s) /\ P!Leave(s) = Leave(s) /\ P!Take(s) = Take(s) /\ P!Fits(s) = Fits(s)
            /\ U!Finish(s) = Finish(s) /\ U!Leave(s) = Leave(s) /\ U!Take(s) = Take(s) /\ U!Fits(s) = Fits(s)
  /\ \A s, r : P!Put(s, r) = Put(s, r) /\ U!Put(s, r) = Put(s, r)
  /\ \A f, rs : P!Lose(f, rs) = Lose(f, rs) /\ U!Lose(f, rs) = Lose(f, rs)
  /\ P!Open = Open /\ U!Open = Open
BY DEF P!Finish, P!Leave, P!Take, P!Fits, P!Refuses, U!Finish, U!Leave, U!Take, U!Fits, U!Refuses, P!Put, U!Put,
       P!Lose, U!Lose, P!Open, U!Open, Finish, Leave, Take, Fits, Refuses, Put, Lose, Open

LEMMA SockOps ==
  ASSUME NEW s \in Sock
  PROVE  /\ Finish(s) \in Sock /\ Leave(s) \in Sock
         /\ \A r \in Reqs : Fits(s) => Put(s, r) \in Sock
         /\ s.q # <<>> => Take(s) \in Sock /\ Head(s.q) \in Reqs
<1>1. <<>> \in Queue
  <2>1. <<>> \in Seq(Reqs) /\ Len(<<>>) = 0
    OBVIOUS
  <2>2. QED
    BY <2>1, Rooms DEF Queue
<1>1a. Finish(s) \in Sock /\ Leave(s) \in Sock
  BY <1>1 DEF Sock, Finish, Leave
<1>2. ASSUME NEW r \in Reqs, Fits(s) PROVE Put(s, r) \in Sock
  <2>1. s.q \in Seq(Reqs) /\ Len(s.q) \in Nat /\ Len(s.q) < Room
    BY <1>2 DEF Sock, Queue, Fits
  <2>2. Append(s.q, r) \in Seq(Reqs) /\ Len(Append(s.q, r)) = Len(s.q) + 1
    BY <2>1
  <2>3. Append(s.q, r) \in Queue
    BY <2>1, <2>2, Rooms DEF Queue
  <2>4. QED
    BY <2>3 DEF Sock, Put
<1>3. ASSUME s.q # <<>> PROVE Take(s) \in Sock /\ Head(s.q) \in Reqs
  <2>1. s.q \in Seq(Reqs) /\ Len(s.q) \in Nat /\ Len(s.q) <= Room
    BY DEF Sock, Queue
  <2>2. Tail(s.q) \in Seq(Reqs) /\ Len(Tail(s.q)) = Len(s.q) - 1 /\ Head(s.q) \in Reqs
    BY <1>3, <2>1
  <2>3. Tail(s.q) \in Queue
    BY <2>1, <2>2, Rooms DEF Queue
  <2>4. QED
    BY <2>2, <2>3 DEF Sock, Take
<1>4. QED
  BY <1>1a, <1>2, <1>3

LEMMA LoseType ==
  ASSUME NEW f \in [Reqs -> {"new", "with", "answered", "lost", "twice"}], NEW rs
  PROVE  Lose(f, rs) \in [Reqs -> {"new", "with", "answered", "lost", "twice"}]
BY DEF Lose

LEMMA OpenSock == Open \in Sock
<1>1. <<>> \in Queue
  <2>1. <<>> \in Seq(Reqs) /\ Len(<<>>) = 0
    OBVIOUS
  <2>2. QED
    BY <2>1, Rooms DEF Queue
<1>2. QED
  BY <1>1 DEF Open, Sock

LEMMA TypesInit == Init => Types
<1> SUFFICES ASSUME Init PROVE Types
  OBVIOUS
<1>1. PipeOK
  BY DEF Init, P!HtPipeInit, PipeOK, ClientType, ServerType, ServerRec, ClientPcs, ServerPcs
<1>2. PlexOK
  BY SharedAssumption DEF Init, U!UserplexInit, PlexOK, UpType, UpRec, UpPcs, KidType, KidRec, KidPcs
<1>3. QED
  BY <1>1, <1>2, OpenSock, Same, SharedAssumption DEF Init, P!HtPipeInit, U!UserplexInit, Types

\* Of HtPipe, and of Userplex, the part of the state that the other leaves alone.
PipeTypes == /\ conn \in [Clients -> Sock] /\ PipeOK
             /\ \A p \in Clients : /\ cl[p].pc = "send" => cl[p].hand \in Reqs
                                   /\ sv[p].pc = "send" => sv[p].hand \in Reqs
PlexTypes == /\ usock \in [U!Kids -> Sock] /\ PlexOK
             /\ \A p \in Clients : up[p].pc \in {"find", "send", "resend"} => up[p].hand \in Reqs
BothTypes == /\ fate \in [Reqs -> {"new", "with", "answered", "lost", "twice"}]
             /\ chsock \in [Clients -> Sock]

LEMMA ClientSet ==
  ASSUME cl \in ClientType, NEW p \in Clients, NEW x \in ClientPcs
  PROVE  [cl EXCEPT ![p].pc = x] \in ClientType
BY DEF ClientType

LEMMA ServerSet ==
  ASSUME sv \in ServerType, NEW s \in Clients, NEW x \in ServerPcs
  PROVE  [sv EXCEPT ![s].pc = x] \in ServerType
BY DEF ServerType, ServerRec

\* The same for the fields that the actions of a server change together.
LEMMA ServerSets ==
  ASSUME sv \in ServerType, NEW s \in Clients, NEW b \in SUBSET Clients, NEW c \in SUBSET Clients, NEW x \in ServerPcs
  PROVE  /\ [sv EXCEPT ![s].back = b] \in ServerType
         /\ [sv EXCEPT ![s].pc = x, ![s].in = b, ![s].acc = sv[s].back # {}] \in ServerType
         /\ [sv EXCEPT ![s].pc = x, ![s].hand = None] \in ServerType
         /\ [sv EXCEPT ![s].in = b, ![s].cls = c] \in ServerType
<1>1. sv[s] \in ServerRec /\ DOMAIN sv = Clients
  BY DEF ServerType
<1>2. ASSUME NEW r \in ServerRec PROVE [sv EXCEPT ![s] = r] \in ServerType
  BY DEF ServerType
<1>3. [sv EXCEPT ![s].back = b] \in ServerType
  BY DEF ServerType, ServerRec
<1>4. [sv EXCEPT ![s].pc = x, ![s].in = b, ![s].acc = sv[s].back # {}] \in ServerType
  <2>1. [sv[s] EXCEPT !.pc = x, !.in = b, !.acc = sv[s].back # {}] \in ServerRec
    BY <1>1 DEF ServerRec
  <2>2. [sv EXCEPT ![s].pc = x, ![s].in = b, ![s].acc = sv[s].back # {}] =
        [sv EXCEPT ![s] = [sv[s] EXCEPT !.pc = x, !.in = b, !.acc = sv[s].back # {}]]
    BY <1>1 DEF ServerType, ServerRec
  <2>3. QED
    BY <1>2, <2>1, <2>2
<1>5. [sv EXCEPT ![s].pc = x, ![s].hand = None] \in ServerType
  <2>1. [sv[s] EXCEPT !.pc = x, !.hand = None] \in ServerRec
    BY <1>1 DEF ServerRec
  <2>2. [sv EXCEPT ![s].pc = x, ![s].hand = None] = [sv EXCEPT ![s] = [sv[s] EXCEPT !.pc = x, !.hand = None]]
    BY <1>1 DEF ServerType, ServerRec
  <2>3. QED
    BY <1>2, <2>1, <2>2
<1>6. [sv EXCEPT ![s].in = b, ![s].cls = c] \in ServerType
  <2>1. [sv[s] EXCEPT !.in = b, !.cls = c] \in ServerRec
    BY <1>1 DEF ServerRec
  <2>2. [sv EXCEPT ![s].in = b, ![s].cls = c] = [sv EXCEPT ![s] = [sv[s] EXCEPT !.in = b, !.cls = c]]
    BY <1>1 DEF ServerType, ServerRec
  <2>3. QED
    BY <1>2, <2>1, <2>2
<1>7. QED
  BY <1>3, <1>4, <1>5, <1>6

LEMMA ClientTypes ==
  ASSUME Types, NEW p \in Clients,
         \/ P!ClientStep(p) \/ P!Start(p) \/ P!ForkFails(p) \/ P!ClientEof(p)
         \/ \E r \in Reqs : P!ClientRecv(p, r)
  PROVE  PipeTypes' /\ BothTypes'
<1> USE DEF Types, PipeTypes, BothTypes, PipeOK, P!history
<1>a. /\ cl \in ClientType /\ DOMAIN cl = Clients
      /\ sv \in ServerType /\ DOMAIN sv = Clients
  BY DEF ClientType, ServerType
<1>b. ASSUME NEW x \in ClientPcs, x # "send", cl' = [cl EXCEPT ![p].pc = x]
      PROVE  cl' \in ClientType /\ \A q \in Clients : cl'[q].pc = "send" => cl'[q].hand \in Reqs
  <2>1. cl' \in ClientType
    BY <1>b, <1>a, ClientSet
  <2>2. cl'[p].pc = x /\ \A q \in Clients \ {p} : cl'[q] = cl[q]
    BY <1>b, <1>a DEF ClientType
  <2>3. QED
    BY <1>b, <2>1, <2>2
<1>1. CASE P!Start(p) \/ P!ForkFails(p)
  <2>1. PICK x \in {"connect", "ended"} : cl' = [cl EXCEPT ![p].pc = x]
    BY <1>1 DEF P!Start, P!ForkFails
  <2>2. QED
    BY <1>1, <1>b, <2>1 DEF P!Start, P!ForkFails, ClientPcs
<1>2. CASE P!Connect(p)
  <2>1. path \in Clients /\ sv' = [sv EXCEPT ![path].back = @ \cup {p}]
    BY <1>2 DEF P!Connect
  <2>2. sv' \in ServerType
    <3>1. sv[path].back \cup {p} \in SUBSET Clients
      BY <1>a, <2>1 DEF ServerType, ServerRec
    <3>2. QED
      BY <1>a, <2>1, <3>1, ServerSets DEF ServerPcs
  <2>3. \A q \in Clients : sv'[q].pc = sv[q].pc /\ sv'[q].hand = sv[q].hand
    BY <1>a, <2>1 DEF ServerType, ServerRec
  <2>4. QED
    BY <1>2, <1>b, <2>2, <2>3 DEF P!Connect, ClientPcs
<1>3. CASE P!NotThere(p) \/ P!WaitServer(p)
  <2>1. PICK x \in {"fork", "failed", "again"} : cl' = [cl EXCEPT ![p].pc = x]
    BY <1>3, <1>a DEF P!NotThere, P!WaitServer
  <2>2. UNCHANGED <<conn, sv, path, fate, chsock, stolen>> /\ disturbed' \in BOOLEAN
    BY <1>3 DEF P!NotThere, P!WaitServer
  <2>3. QED
    BY <1>b, <2>1, <2>2 DEF ClientPcs
<1>4. CASE P!ForkServer(p)
  <2>1. sv' = [sv EXCEPT ![p].pc = "stat"] /\ sv' \in ServerType
    BY <1>4, <1>a, ServerSet DEF P!ForkServer, ServerPcs
  <2>2. \A q \in Clients : sv'[q].pc = "send" => sv'[q].hand \in Reqs
    BY <1>a, <2>1 DEF ServerType, ServerRec
  <2>3. QED
    BY <1>4, <1>b, <2>1, <2>2 DEF P!ForkServer, ClientPcs
<1>5. ASSUME NEW rs, P!ClientEnds(p, rs) PROVE PipeTypes' /\ BothTypes'
  <2>1. conn' \in [Clients -> Sock]
    BY <1>5, SockOps, Same DEF P!ClientEnds
  <2>2. fate' \in [Reqs -> {"new", "with", "answered", "lost", "twice"}]
    BY <1>5, LoseType, Same DEF P!ClientEnds
  <2>3. cl' \in ClientType /\ \A q \in Clients : cl'[q].pc = "send" => cl'[q].hand \in Reqs
    BY <1>5, <1>a DEF P!ClientEnds, ClientType, ClientPcs
  <2>4. QED
    BY <1>5, <2>1, <2>2, <2>3 DEF P!ClientEnds
<1>6. CASE P!ClientEof(p) \/ P!ClientFails(p)
  BY <1>5, <1>6 DEF P!ClientEof, P!ClientFails
<1>7. CASE P!ClientSend(p)
  <2>1. conn' \in [Clients -> Sock]
    BY <1>7, SockOps, Same DEF P!ClientSend
  <2>2. cl' \in ClientType /\ \A q \in Clients : cl'[q].pc = "send" => cl'[q].hand \in Reqs
    BY <1>7, <1>a DEF P!ClientSend, ClientType, ClientPcs
  <2>3. QED
    BY <1>7, <2>1, <2>2 DEF P!ClientSend
<1>8. ASSUME NEW r \in Reqs, P!ClientRecv(p, r) PROVE PipeTypes' /\ BothTypes'
  <2>1. cl' \in ClientType /\ \A q \in Clients : cl'[q].pc = "send" => cl'[q].hand \in Reqs
    BY <1>8, <1>a DEF P!ClientRecv, ClientType, ClientPcs
  <2>2. QED
    BY <1>8, <2>1 DEF P!ClientRecv
<1>9. QED
  BY <1>1, <1>2, <1>3, <1>4, <1>6, <1>7, <1>8 DEF P!ClientStep

LEMMA ServerTypes ==
  ASSUME Types, NEW s \in Clients,
         P!ServerStep(s) \/ P!MkChildFails(s) \/ P!KillServer(s)
  PROVE  PipeTypes' /\ BothTypes'
<1> USE DEF Types, PipeTypes, BothTypes, PipeOK, P!history
<1>a. sv \in ServerType /\ DOMAIN sv = Clients
  BY DEF ServerType, ServerRec
<1>b. ASSUME \A q \in Clients \ {s} : sv'[q] = sv[q], sv'[s].pc = "send" => sv'[s].hand \in Reqs
      PROVE  \A q \in Clients : sv'[q].pc = "send" => sv'[q].hand \in Reqs
  BY <1>b
<1>c. ASSUME NEW x \in ServerPcs, x # "send", sv' = [sv EXCEPT ![s].pc = x]
      PROVE  sv' \in ServerType /\ \A q \in Clients : sv'[q].pc = "send" => sv'[q].hand \in Reqs
  <2>1. sv' \in ServerType
    BY <1>c, <1>a, ServerSet
  <2>2. sv'[s].pc = x /\ \A q \in Clients \ {s} : sv'[q] = sv[q]
    BY <1>c, <1>a DEF ServerType, ServerRec
  <2>3. QED
    BY <1>c, <2>1, <2>2
<1>1. ASSUME P!ServerEnds(s), disturbed' \in BOOLEAN, UNCHANGED stolen PROVE PipeTypes' /\ BothTypes'
  <2>1. conn' \in [Clients -> Sock]
    BY <1>1, SockOps, Same DEF P!ServerEnds
  <2>2. chsock' \in [Clients -> Sock]
    BY <1>1, SockOps, Same DEF P!ServerEnds
  <2>3. fate' \in [Reqs -> {"new", "with", "answered", "lost", "twice"}]
    BY <1>1, LoseType, Same DEF P!ServerEnds
  <2>4. sv' \in ServerType /\ \A q \in Clients : sv'[q].pc = "send" => sv'[q].hand \in Reqs
    BY <1>1, <1>a DEF P!ServerEnds, ServerType, ServerRec, ServerPcs
  <2>5. QED
    BY <1>1, <2>1, <2>2, <2>3, <2>4 DEF P!ServerEnds
<1>2. CASE P!BindFails(s) \/ P!MkChildFails(s) \/ P!ChildGone(s) \/ P!KillServer(s)
  <2>1. disturbed' \in BOOLEAN /\ UNCHANGED stolen
    BY <1>2 DEF P!BindFails, P!MkChildFails, P!ChildGone, P!KillServer, P!Disturbs
  <2>2. QED
    BY <1>1, <1>2, <2>1 DEF P!BindFails, P!MkChildFails, P!ChildGone, P!KillServer
<1>3. CASE P!Stat(s) \/ P!Unlink(s) \/ P!Bind(s) \/ P!Listen(s) \/ P!MkChild(s) \/ P!ClientsRead(s)
  <2>1. PICK x \in ServerPcs \ {"send"} : sv' = [sv EXCEPT ![s].pc = x]
    BY <1>3 DEF P!Stat, P!Unlink, P!Bind, P!Listen, P!MkChild, P!ClientsRead, ServerPcs
  <2>2. /\ conn' = conn /\ chsock' = chsock /\ fate' = fate /\ cl' = cl /\ disturbed' = disturbed
        /\ stolen' \in BOOLEAN /\ path' \in Clients \cup {None}
    BY <1>3 DEF P!Stat, P!Unlink, P!Bind, P!Listen, P!MkChild, P!ClientsRead
  <2>3. QED
    BY <1>c, <2>1, <2>2
<1>4. CASE P!Poll(s)
  <2>1. P!Ready(s) \subseteq Clients
    BY <1>a DEF P!Ready, ServerType, ServerRec
  <2>2. sv' \in ServerType
    BY <1>4, <1>a, <2>1, ServerSets DEF P!Poll, ServerPcs
  <2>3. sv'[s].pc = "clients" /\ \A q \in Clients \ {s} : sv'[q] = sv[q]
    BY <1>4, <1>a DEF P!Poll, ServerType, ServerRec
  <2>4. QED
    BY <1>4, <1>b, <2>2, <2>3 DEF P!Poll
<1>5. CASE P!Accept(s)
  <2>1. PICK p \in sv[s].back :
          sv' = [sv EXCEPT ![s].pc = "poll", ![s].acc = FALSE, ![s].back = @ \ {p}, ![s].cls = @ \cup {p}]
    BY <1>5 DEF P!Accept
  <2>2. p \in Clients
    BY <1>a DEF ServerType, ServerRec
  <2>3. sv' \in ServerType
    BY <1>a, <2>1, <2>2 DEF ServerType, ServerRec, ServerPcs
  <2>4. sv'[s].pc = "poll" /\ \A q \in Clients \ {s} : sv'[q] = sv[q]
    BY <1>a, <2>1 DEF ServerType, ServerRec
  <2>5. QED
    BY <1>5, <1>b, <2>3, <2>4 DEF P!Accept
<1>6. CASE P!SendChild(s)
  <2>1. chsock' \in [Clients -> Sock]
    BY <1>6, SockOps, Same DEF P!SendChild
  <2>2. sv' \in ServerType
    BY <1>6, <1>a, ServerSets DEF P!SendChild, ServerPcs
  <2>3. sv'[s].pc = "clients" /\ \A q \in Clients \ {s} : sv'[q] = sv[q]
    BY <1>6, <1>a DEF P!SendChild, ServerType, ServerRec
  <2>4. QED
    BY <1>6, <1>b, <2>1, <2>2, <2>3 DEF P!SendChild
<1>7. ASSUME NEW p \in Clients, P!ReadClient(s, p) PROVE PipeTypes' /\ BothTypes'
  <2>1. conn' \in [Clients -> Sock] /\ Head(conn[p].q) \in Reqs
    BY <1>7, SockOps, Same DEF P!ReadClient
  <2>2. sv' \in ServerType
    BY <1>7, <1>a, <2>1 DEF P!ReadClient, ServerType, ServerRec, ServerPcs
  <2>3. sv'[s].hand = Head(conn[p].q) /\ \A q \in Clients \ {s} : sv'[q] = sv[q]
    BY <1>7, <1>a DEF P!ReadClient, ServerType, ServerRec
  <2>4. QED
    BY <1>7, <1>b, <2>1, <2>2, <2>3 DEF P!ReadClient
<1>8. ASSUME NEW p \in Clients, P!DropClient(s, p) PROVE PipeTypes' /\ BothTypes'
  <2>1. conn' \in [Clients -> Sock]
    BY <1>8, SockOps, Same DEF P!DropClient
  <2>2. sv' \in ServerType
    <3>1. sv[s].in \ {p} \in SUBSET Clients /\ sv[s].cls \ {p} \in SUBSET Clients
      BY <1>a DEF ServerType, ServerRec
    <3>2. QED
      BY <1>8, <1>a, <3>1, ServerSets DEF P!DropClient, ServerPcs
  <2>3. sv'[s].pc = "clients" /\ \A q \in Clients \ {s} : sv'[q] = sv[q]
    BY <1>8, <1>a DEF P!DropClient, ServerType, ServerRec
  <2>4. QED
    BY <1>8, <1>b, <2>1, <2>2, <2>3 DEF P!DropClient
<1>9. QED
  BY <1>2, <1>3, <1>4, <1>5, <1>6, <1>7, <1>8 DEF P!ServerStep

LEMMA UpSets ==
  ASSUME up \in UpType, NEW s \in Clients, NEW x \in UpPcs, NEW h \in Reqs \cup {None}
  PROVE  /\ [up EXCEPT ![s].pc = x, ![s].hand = h] \in UpType
         /\ [up EXCEPT ![s].pc = x] \in UpType
<1>1. up[s] \in UpRec /\ DOMAIN up = Clients
  BY DEF UpType
<1>2. ASSUME NEW r \in UpRec PROVE [up EXCEPT ![s] = r] \in UpType
  BY DEF UpType
<1>3. [up EXCEPT ![s].pc = x] \in UpType
  BY DEF UpType, UpRec
<1>4. [up EXCEPT ![s].pc = x, ![s].hand = h] \in UpType
  <2>1. [up[s] EXCEPT !.pc = x, !.hand = h] \in UpRec
    BY <1>1 DEF UpRec
  <2>2. [up EXCEPT ![s].pc = x, ![s].hand = h] = [up EXCEPT ![s] = [up[s] EXCEPT !.pc = x, !.hand = h]]
    BY <1>1 DEF UpType, UpRec
  <2>3. QED
    BY <1>2, <2>1, <2>2
<1>5. QED
  BY <1>3, <1>4

\* One entry of the list changes, while userplex still has its request or has not.
Entry(s, x, u, n) == [up EXCEPT ![s].pc = x, ![s].fd[u] = n]
Leaked(s, x, u, k) == [up EXCEPT ![s].pc = x, ![s].fd[u] = 0, ![s].leaks = @ \cup {k}]
Dropped(s, x, u, n) == [[up EXCEPT ![s].pc = x, ![s].hand = None] EXCEPT ![s].fd[u] = n]

LEMMA UpEntry ==
  ASSUME up \in UpType, NEW s \in Clients, NEW x \in UpPcs, NEW u \in Users, NEW n \in 0 .. MaxKid
  PROVE  /\ Entry(s, x, u, n) \in UpType
         /\ Entry(s, x, u, n)[s].fd = [up[s].fd EXCEPT ![u] = n] /\ Entry(s, x, u, n)[s].hand = up[s].hand
         /\ Entry(s, x, u, n)[s].leaks = up[s].leaks
         /\ \A t \in Clients \ {s} : Entry(s, x, u, n)[t] = up[t]
<1>1. up[s] \in UpRec /\ DOMAIN up = Clients
  BY DEF UpType
<1>2. ASSUME NEW r \in UpRec PROVE [up EXCEPT ![s] = r] \in UpType
  BY DEF UpType
<1>3. [up[s].fd EXCEPT ![u] = n] \in [Users -> 0 .. MaxKid]
  BY <1>1 DEF UpRec
<1> DEFINE r == [up[s] EXCEPT !.pc = x, !.fd = [up[s].fd EXCEPT ![u] = n]]
<1>4. r \in UpRec /\ r.fd = [up[s].fd EXCEPT ![u] = n] /\ r.hand = up[s].hand /\ r.leaks = up[s].leaks
  BY <1>1, <1>3 DEF UpRec
<1>5. Entry(s, x, u, n) = [up EXCEPT ![s] = r]
  BY <1>1 DEF UpRec, Entry
<1>6. QED
  BY <1>1, <1>2, <1>4, <1>5

LEMMA UpLeak ==
  ASSUME up \in UpType, MaxKid \in Nat, NEW s \in Clients, NEW x \in UpPcs, NEW u \in Users, NEW k \in U!Kids
  PROVE  /\ Leaked(s, x, u, k) \in UpType
         /\ Leaked(s, x, u, k)[s].fd = [up[s].fd EXCEPT ![u] = 0] /\ Leaked(s, x, u, k)[s].hand = up[s].hand
         /\ Leaked(s, x, u, k)[s].pc = x /\ Leaked(s, x, u, k)[s].leaks = up[s].leaks \cup {k}
         /\ \A t \in Clients \ {s} : Leaked(s, x, u, k)[t] = up[t]
<1>1. up[s] \in UpRec /\ DOMAIN up = Clients
  BY DEF UpType
<1>2. ASSUME NEW r \in UpRec PROVE [up EXCEPT ![s] = r] \in UpType
  BY DEF UpType
<1>3. [up[s].fd EXCEPT ![u] = 0] \in [Users -> 0 .. MaxKid]
  BY <1>1 DEF UpRec
<1> DEFINE r == [up[s] EXCEPT !.pc = x, !.fd = [up[s].fd EXCEPT ![u] = 0], !.leaks = up[s].leaks \cup {k}]
<1>4. /\ r \in UpRec /\ r.fd = [up[s].fd EXCEPT ![u] = 0] /\ r.hand = up[s].hand /\ r.pc = x
      /\ r.leaks = up[s].leaks \cup {k}
  BY <1>1, <1>3 DEF UpRec
<1>5. Leaked(s, x, u, k) = [up EXCEPT ![s] = r]
  BY <1>1 DEF UpRec, Leaked
<1>6. QED
  BY <1>1, <1>2, <1>4, <1>5

LEMMA UpDrop ==
  ASSUME up \in UpType, NEW s \in Clients, NEW x \in UpPcs, NEW u \in Users, NEW n \in 0 .. MaxKid
  PROVE  /\ Dropped(s, x, u, n) \in UpType
         /\ Dropped(s, x, u, n)[s].fd = [up[s].fd EXCEPT ![u] = n] /\ Dropped(s, x, u, n)[s].pc = x
         /\ Dropped(s, x, u, n)[s].leaks = up[s].leaks
         /\ \A t \in Clients \ {s} : Dropped(s, x, u, n)[t] = up[t]
<1>1. up[s] \in UpRec /\ DOMAIN up = Clients
  BY DEF UpType
<1>2. ASSUME NEW r \in UpRec PROVE [up EXCEPT ![s] = r] \in UpType
  BY DEF UpType
<1>3. [up[s].fd EXCEPT ![u] = n] \in [Users -> 0 .. MaxKid]
  BY <1>1 DEF UpRec
<1> DEFINE r == [up[s] EXCEPT !.pc = x, !.hand = None, !.fd = [up[s].fd EXCEPT ![u] = n]]
<1>4. r \in UpRec /\ r.fd = [up[s].fd EXCEPT ![u] = n] /\ r.pc = x /\ r.leaks = up[s].leaks
  BY <1>1, <1>3 DEF UpRec
<1>5. Dropped(s, x, u, n) = [up EXCEPT ![s] = r]
  BY <1>1 DEF UpRec, Dropped
<1>6. QED
  BY <1>1, <1>2, <1>4, <1>5

LEMMA SndOps ==
  ASSUME NEW s \in Sock
  PROVE  /\ Finish(s).snd = FALSE /\ Leave(s).snd = s.snd /\ Take(s).snd = s.snd
         /\ \A r : Put(s, r).snd = s.snd
BY DEF Sock, Finish, Leave, Take, Put

\* What a step may do to the sockets of users: nothing, replace or drop one entry of a list, or
\* end with a whole list.
Kept == /\ \A t \in Clients : up'[t].fd = up[t].fd /\ up'[t].leaks = up[t].leaks
        /\ kids' = kids
        /\ \A k \in U!Kids : /\ kid'[k].user = kid[k].user /\ usock'[k].snd = usock[k].snd
                             /\ kid'[k].pc = "none" <=> kid[k].pc = "none"
Entered(s, u, n) ==
  /\ up'[s].fd = [up[s].fd EXCEPT ![u] = n]
  /\ \A t \in Clients \ {s} : up'[t] = up[t]
  /\ \/ n = 0 /\ kids' = kids /\ kid' = kid /\ up'[s].leaks = up[s].leaks
     \/ /\ n = 0 /\ kids' = kids + 1 /\ kids + 1 <= MaxKid /\ kid' = kid
        /\ up'[s].leaks = up[s].leaks \cup {kids + 1}
     \/ /\ n = kids + 1 /\ kids' = n /\ n <= MaxKid /\ kid'[n].user = u /\ kid'[n].pc = "login"
        /\ up'[s].leaks = up[s].leaks /\ \A k \in U!Kids \ {n} : kid'[k] = kid[k]
  /\ \A k \in U!Kids : usock'[k].snd = IF k = up[s].fd[u] THEN FALSE ELSE usock[k].snd
Ended(s) ==
  /\ up'[s].fd = [u \in Users |-> 0] /\ up'[s].leaks = {}
  /\ \A t \in Clients \ {s} : up'[t] = up[t]
  /\ kids' = kids /\ kid' = kid
  /\ \A k \in U!Kids : usock'[k].snd = IF k \in up[s].leaks \/ \E u \in Users : up[s].fd[u] = k THEN FALSE
                                       ELSE usock[k].snd

\* forkchild(), with the old socket closed or not there.
LEMMA ForkChildDoes ==
  ASSUME Types, NEW s \in Clients, up[s].hand \in Reqs, NEW next \in UpPcs, U!ForkChild(s, next),
         \A k \in U!Kids : usock'[k].snd = IF k = U!Fd(s) THEN FALSE ELSE usock[k].snd
  PROVE  /\ PlexOK'
         /\ up'[s].hand \in Reqs /\ \A t \in Clients \ {s} : up'[t] = up[t]
         /\ \E n \in 0 .. MaxKid : Entered(s, U!User(s), n)
<1>1. /\ up \in UpType /\ kid \in KidType /\ kids \in 0 .. MaxKid /\ MaxKid \in Nat
      /\ U!User(s) \in Users /\ up[s].hand \in Reqs
  BY SharedAssumption DEF Types, PlexOK, U!User
<1>u. PICK u \in Users : u = U!User(s)
  BY <1>1
<1>2. CASE /\ kids < MaxKid /\ kids' = kids + 1
           /\ kid' = [kid EXCEPT ![kids + 1] = [pc |-> "login", req |-> up[s].hand, hand |-> None, user |-> U!User(s)]]
           /\ up' = [up EXCEPT ![s].pc = next, ![s].fd[U!User(s)] = kids + 1]
  <2>1. kids + 1 \in 0 .. MaxKid /\ kids + 1 \in U!Kids
    BY <1>1, <1>2 DEF U!Kids
  <2>2. [pc |-> "login", req |-> up[s].hand, hand |-> None, user |-> U!User(s)] \in KidRec
    BY <1>1 DEF KidRec, KidPcs
  <2>3. /\ kid' \in KidType /\ kid'[kids + 1].user = U!User(s) /\ kid'[kids + 1].pc = "login"
        /\ \A k \in U!Kids \ {kids + 1} : kid'[k] = kid[k]
    BY <1>1, <1>2, <2>1, <2>2 DEF KidType
  <2>n. PICK n \in 0 .. MaxKid : n = kids + 1
    BY <2>1
  <2>a. up' = Entry(s, next, u, n)
    BY <1>2, <1>u, <2>n DEF Entry
  <2>4. /\ up' \in UpType /\ up'[s].fd = [up[s].fd EXCEPT ![u] = kids + 1]
        /\ \A t \in Clients \ {s} : up'[t] = up[t]
        /\ up'[s].hand = up[s].hand /\ up'[s].leaks = up[s].leaks
    <3>1. /\ up' \in UpType /\ up'[s].fd = [up[s].fd EXCEPT ![u] = n]
          /\ \A t \in Clients \ {s} : up'[t] = up[t]
          /\ up'[s].hand = up[s].hand /\ up'[s].leaks = up[s].leaks
      BY <1>1, <2>a, UpEntry
    <3>2. QED
      BY <2>n, <3>1
  <2>5. Entered(s, u, kids + 1)
    <3>1. \A k \in U!Kids : usock'[k].snd = IF k = up[s].fd[u] THEN FALSE ELSE usock[k].snd
      BY <1>u DEF U!Fd
    <3>2. kids' = kids + 1 /\ kids + 1 <= MaxKid
      BY <1>1, <1>2
    <3>3. kid'[kids + 1].user = u /\ kid'[kids + 1].pc = "login"
      BY <2>3, <1>u
    <3>4. QED
      BY <2>3, <2>4, <3>1, <3>2, <3>3 DEF Entered
  <2>6. QED
    BY <1>1, <1>2, <2>1, <2>3, <2>4, <2>5, <1>u DEF PlexOK
<1>3. CASE up' = [up EXCEPT ![s].pc = next, ![s].fd[U!User(s)] = 0] /\ UNCHANGED <<kid, kids>>
  <2>1. 0 \in 0 .. MaxKid
    BY <1>1
  <2>a. up' = Entry(s, next, u, 0)
    BY <1>3, <1>u DEF Entry
  <2>4. /\ up' \in UpType /\ up'[s].fd = [up[s].fd EXCEPT ![u] = 0]
        /\ \A t \in Clients \ {s} : up'[t] = up[t]
        /\ up'[s].hand = up[s].hand /\ up'[s].leaks = up[s].leaks
    BY <1>1, <2>1, <2>a, UpEntry
  <2>5. Entered(s, u, 0)
    BY <1>1, <1>3, <2>1, <2>4, <1>u DEF Entered, U!Fd
  <2>6. QED
    BY <1>1, <1>3, <2>1, <2>4, <2>5, <1>u DEF PlexOK
<1>4. CASE /\ kids < MaxKid /\ kids' = kids + 1 /\ UNCHANGED kid
           /\ up' = [up EXCEPT ![s].pc = next, ![s].fd[U!User(s)] = 0, ![s].leaks = @ \cup {kids + 1}]
  <2>1. 0 \in 0 .. MaxKid /\ kids + 1 \in U!Kids /\ kids' \in 0 .. MaxKid
    BY <1>1, <1>4 DEF U!Kids
  <2>2. up' = Leaked(s, next, u, kids + 1)
    BY <1>4, <1>u DEF Leaked
  <2>3. /\ up' \in UpType /\ up'[s].fd = [up[s].fd EXCEPT ![u] = 0]
        /\ \A t \in Clients \ {s} : up'[t] = up[t]
        /\ up'[s].hand = up[s].hand /\ up'[s].leaks = up[s].leaks \cup {kids + 1}
    BY <1>1, <2>1, <2>2, UpLeak
  <2>4. Entered(s, u, 0)
    <3>1. \A k \in U!Kids : usock'[k].snd = IF k = up[s].fd[u] THEN FALSE ELSE usock[k].snd
      BY <1>u DEF U!Fd
    <3>2. kids' = kids + 1 /\ kids + 1 <= MaxKid /\ kid' = kid
      BY <1>1, <1>4
    <3>3. QED
      BY <2>3, <3>1, <3>2 DEF Entered
  <2>5. QED
    BY <1>1, <1>4, <2>1, <2>3, <2>4, <1>u DEF PlexOK
<1>5. QED
  BY <1>2, <1>3, <1>4 DEF U!ForkChild

LEMMA AnswerType ==
  ASSUME Types, NEW r, U!Answer(r)
  PROVE  fate' \in [Reqs -> {"new", "with", "answered", "lost", "twice"}]
BY DEF Types, U!Answer

\* Every step of userplex keeps the types, and does one of the three things to its list.
LEMMA UserplexDoes ==
  ASSUME Types, NEW s \in Clients, U!UserplexStep(s) \/ U!SendError(s) \/ U!KillUserplex(s)
  PROVE  /\ PlexTypes' /\ BothTypes'
         /\ Kept \/ (\E u \in Users, n \in 0 .. MaxKid : Entered(s, u, n)) \/ Ended(s)
<1>a. /\ up \in UpType /\ DOMAIN up = Clients /\ kid \in KidType /\ kids \in 0 .. MaxKid /\ MaxKid \in Nat
      /\ usock \in [U!Kids -> Sock] /\ chsock \in [Clients -> Sock]
      /\ fate \in [Reqs -> {"new", "with", "answered", "lost", "twice"}]
      /\ \A p \in Clients : up[p].pc \in {"find", "send", "resend"} => up[p].hand \in Reqs
  BY SharedAssumption DEF Types, PlexOK, UpType
<1>b. ASSUME NEW x \in UpPcs, NEW h \in Reqs \cup {None}, up' = [up EXCEPT ![s].pc = x, ![s].hand = h],
             x \in {"find", "send", "resend"} => h \in Reqs, UNCHANGED <<kid, kids>>
      PROVE  /\ PlexOK' /\ \A t \in Clients : up'[t].fd = up[t].fd /\ up'[t].leaks = up[t].leaks
             /\ \A p \in Clients : up'[p].pc \in {"find", "send", "resend"} => up'[p].hand \in Reqs
  <2>1. up' \in UpType
    BY <1>a, <1>b, UpSets
  <2>2. /\ up'[s].pc = x /\ up'[s].hand = h /\ up'[s].fd = up[s].fd /\ up'[s].leaks = up[s].leaks
        /\ \A t \in Clients \ {s} : up'[t] = up[t]
    BY <1>a, <1>b DEF UpType, UpRec
  <2>3. QED
    BY <1>a, <1>b, <2>1, <2>2 DEF PlexOK
<1>c. None \in Reqs \cup {None} /\ "recv" \in UpPcs /\ "find" \in UpPcs /\ "send" \in UpPcs /\ "resend" \in UpPcs
  BY DEF UpPcs
<1>1. CASE U!Recv(s)
  <2>1. chsock' \in [Clients -> Sock] /\ Head(chsock[s].q) \in Reqs
    BY <1>1, <1>a, SockOps, Same DEF U!Recv
  <2>2. /\ up' = [up EXCEPT ![s].pc = "find", ![s].hand = Head(chsock[s].q)]
        /\ UNCHANGED <<fate, kid, usock, kids>>
    BY <1>1 DEF U!Recv
  <2>3. QED
    BY <1>a, <1>b, <1>c, <2>1, <2>2 DEF PlexTypes, BothTypes, Kept
<1>2. CASE U!Refuse(s) \/ U!TooBusy(s)
  <2>1. up' = [up EXCEPT ![s].pc = "recv", ![s].hand = None] /\ UNCHANGED <<chsock, kid, usock, kids>>
    BY <1>2 DEF U!Refuse, U!TooBusy, U!Served
  <2>2. fate' \in [Reqs -> {"new", "with", "answered", "lost", "twice"}]
    BY <1>2, <1>a, AnswerType, LoseType, Same DEF U!Refuse, U!TooBusy
  <2>3. QED
    BY <1>a, <1>b, <1>c, <2>1, <2>2 DEF PlexTypes, BothTypes, Kept
<1>3. CASE U!Sent(s)
  <2>1. up' = [up EXCEPT ![s].pc = "recv", ![s].hand = None] /\ UNCHANGED <<fate, chsock, kid, kids>>
    BY <1>3 DEF U!Sent, U!Served
  <2>2. U!Fd(s) \in U!Kids /\ up[s].hand \in Reqs
    BY <1>3, <1>a, SharedAssumption DEF U!Sent, U!Fd, U!User, U!Kids, UpType, UpRec
  <2>3. usock' = [usock EXCEPT ![U!Fd(s)] = Put(@, up[s].hand)] /\ Fits(usock[U!Fd(s)])
    BY <1>3, Same DEF U!Sent
  <2>4. usock' \in [U!Kids -> Sock] /\ \A k \in U!Kids : usock'[k].snd = usock[k].snd
    BY <1>a, <2>2, <2>3, SockOps, SndOps
  <2>5. QED
    BY <1>a, <1>b, <1>c, <2>1, <2>4 DEF PlexTypes, BothTypes, Kept
<1>4. CASE U!Find(s) /\ U!Fd(s) # 0
  <2>1. up' = [up EXCEPT ![s].pc = "send"] /\ UNCHANGED <<fate, chsock, usock, kid, kids>> /\ up[s].hand \in Reqs
    BY <1>4, <1>a DEF U!Find
  <2>2. up' \in UpType
    BY <1>a, <1>c, <2>1, UpSets
  <2>3. /\ up'[s].hand = up[s].hand /\ up'[s].fd = up[s].fd /\ up'[s].leaks = up[s].leaks
        /\ \A t \in Clients \ {s} : up'[t] = up[t]
    BY <1>a, <2>1 DEF UpType, UpRec
  <2>4. \A p \in Clients : up'[p].pc \in {"find", "send", "resend"} => up'[p].hand \in Reqs
    BY <1>a, <2>1, <2>3
  <2>5. QED
    BY <1>a, <2>1, <2>2, <2>3, <2>4 DEF PlexTypes, BothTypes, Kept, PlexOK
<1>5. CASE (U!Find(s) /\ U!Fd(s) = 0) \/ U!Restart(s)
  <2>1. up[s].hand \in Reqs /\ UNCHANGED <<fate, chsock>> /\ U!Fd(s) \in 0 .. MaxKid
    BY <1>5, <1>a, SharedAssumption DEF U!Find, U!Restart, U!Fd, U!User, UpType, UpRec
  <2>3. /\ usock' \in [U!Kids -> Sock]
        /\ \A k \in U!Kids : usock'[k].snd = IF k = U!Fd(s) THEN FALSE ELSE usock[k].snd
    <3>1. CASE U!Find(s) /\ U!Fd(s) = 0
      <4>1. usock' = usock /\ \A k \in U!Kids : k # U!Fd(s)
        BY <3>1, <1>a DEF U!Find, U!Kids
      <4>2. QED
        BY <1>a, <4>1
    <3>2. CASE U!Restart(s)
      <4>1. U!Fd(s) \in U!Kids
        BY <3>2, <1>a, <2>1 DEF U!Restart, U!Kids
      <4>2. usock' = [usock EXCEPT ![U!Fd(s)] = Finish(@)]
        BY <3>2, Same DEF U!Restart
      <4>3. QED
        BY <1>a, <4>1, <4>2, SockOps, SndOps
    <3>3. QED
      BY <1>5, <3>1, <3>2
  <2>4. PICK next \in {"send", "resend"} : U!ForkChild(s, next)
    BY <1>5 DEF U!Find, U!Restart
  <2>5. /\ PlexOK' /\ up'[s].hand \in Reqs /\ \A t \in Clients \ {s} : up'[t] = up[t]
        /\ \E n \in 0 .. MaxKid : Entered(s, U!User(s), n)
    BY <1>c, <2>1, <2>3, <2>4, ForkChildDoes
  <2>6. U!User(s) \in Users
    BY <2>1, SharedAssumption DEF U!User
  <2>7. \A p \in Clients : up'[p].pc \in {"find", "send", "resend"} => up'[p].hand \in Reqs
    BY <1>a, <2>5
  <2>8. QED
    BY <1>a, <2>1, <2>3, <2>5, <2>6, <2>7 DEF PlexTypes, BothTypes
<1>6. CASE U!GiveUp(s) \/ U!SendError(s)
  <2>0. U!Drop(s) /\ up[s].pc \in {"send", "resend"}
    BY <1>6 DEF U!GiveUp, U!SendError
  <2>1. up[s].hand \in Reqs /\ UNCHANGED <<chsock, kid, kids>>
    BY <2>0, <1>a DEF U!Drop
  <2>2. PICK u \in Users : u = U!User(s)
    BY <2>1, SharedAssumption DEF U!User
  <2>3. U!Fd(s) = up[s].fd[u] /\ U!Fd(s) \in 0 .. MaxKid
    BY <1>a, <2>2 DEF U!Fd, UpType, UpRec
  <2>4. fate' \in [Reqs -> {"new", "with", "answered", "lost", "twice"}]
    BY <2>0, <1>a, LoseType, Same DEF U!Drop
  <2>5. /\ usock' \in [U!Kids -> Sock]
        /\ \A k \in U!Kids : usock'[k].snd = IF k = up[s].fd[u] THEN FALSE ELSE usock[k].snd
    <3>1. CASE U!Fd(s) = 0
      <4>1. usock' = usock /\ \A k \in U!Kids : k # up[s].fd[u]
        BY <3>1, <2>0, <1>a, <2>3 DEF U!Drop, U!Kids
      <4>2. QED
        BY <1>a, <4>1
    <3>2. CASE U!Fd(s) # 0
      <4>1. U!Fd(s) \in U!Kids
        BY <3>2, <1>a, <2>3 DEF U!Kids
      <4>2. usock' = [usock EXCEPT ![U!Fd(s)] = Finish(@)]
        BY <3>2, <2>0, Same DEF U!Drop
      <4>3. QED
        BY <1>a, <2>3, <4>1, <4>2, SockOps, SndOps
    <3>3. QED
      BY <3>1, <3>2
  <2>6. up' = Dropped(s, "recv", u, 0)
    BY <2>0, <2>2 DEF U!Drop, U!Served, Dropped
  <2>7. 0 \in 0 .. MaxKid
    BY <1>a
  <2>8. /\ up' \in UpType /\ up'[s].fd = [up[s].fd EXCEPT ![u] = 0] /\ up'[s].pc = "recv"
        /\ up'[s].leaks = up[s].leaks
        /\ \A t \in Clients \ {s} : up'[t] = up[t]
    BY <1>a, <1>c, <2>6, <2>7, UpDrop
  <2>9. \A p \in Clients : up'[p].pc \in {"find", "send", "resend"} => up'[p].hand \in Reqs
    BY <1>a, <2>8
  <2>10. Entered(s, u, 0)
    BY <2>1, <2>5, <2>8 DEF Entered
  <2>11. QED
    BY <1>a, <2>1, <2>4, <2>5, <2>7, <2>8, <2>9, <2>10 DEF PlexTypes, BothTypes, PlexOK
<1>7. CASE U!UserplexEnds(s)
  <2>1. chsock' \in [Clients -> Sock]
    BY <1>7, <1>a, SockOps, Same DEF U!UserplexEnds
  <2>2. fate' \in [Reqs -> {"new", "with", "answered", "lost", "twice"}]
    BY <1>7, <1>a, LoseType, Same DEF U!UserplexEnds
  <2>3. usock' = [k \in U!Kids |-> IF k \in {up[s].fd[u] : u \in Users} \cup up[s].leaks THEN Finish(usock[k])
                                   ELSE usock[k]]
    BY <1>7, Same DEF U!UserplexEnds
  <2>4. /\ usock' \in [U!Kids -> Sock]
        /\ \A k \in U!Kids : usock'[k].snd = IF k \in up[s].leaks \/ \E u \in Users : up[s].fd[u] = k THEN FALSE
                                             ELSE usock[k].snd
    <3> DEFINE open == {up[s].fd[u] : u \in Users} \cup up[s].leaks
    <3>1. \A k : k \in open <=> k \in up[s].leaks \/ \E u \in Users : up[s].fd[u] = k
      OBVIOUS
    <3>2. usock' = [k \in U!Kids |-> IF k \in open THEN Finish(usock[k]) ELSE usock[k]]
      BY <2>3
    <3> HIDE DEF open
    <3>3. /\ usock' \in [U!Kids -> Sock]
          /\ \A k \in U!Kids : usock'[k].snd = IF k \in open THEN FALSE ELSE usock[k].snd
      BY <1>a, <3>2, SockOps, SndOps
    <3>4. QED
      BY <3>1, <3>3
  <2> DEFINE r == [pc |-> "ended", hand |-> None, fd |-> [u \in Users |-> 0], leaks |-> {}]
  <2>5. r \in UpRec /\ r.pc = "ended" /\ r.fd = [u \in Users |-> 0] /\ r.leaks = {}
    <3>1. up[s] \in UpRec /\ [u \in Users |-> 0] \in [Users -> 0 .. MaxKid]
      BY <1>a DEF UpType
    <3>2. QED
      BY <3>1 DEF UpRec, UpPcs
  <2>6. up' = [up EXCEPT ![s] = r]
    BY <1>7, <1>a DEF U!UserplexEnds, UpType, UpRec
  <2> HIDE DEF r
  <2>7. up' \in UpType /\ up'[s] = r /\ \A t \in Clients \ {s} : up'[t] = up[t]
    BY <1>a, <2>5, <2>6 DEF UpType
  <2>8. \A p \in Clients : up'[p].pc \in {"find", "send", "resend"} => up'[p].hand \in Reqs
    BY <1>a, <2>5, <2>7
  <2>9. kid' = kid /\ kids' = kids
    BY <1>7 DEF U!UserplexEnds
  <2>10. Ended(s)
    BY <2>4, <2>5, <2>7, <2>9 DEF Ended
  <2>11. QED
    BY <1>a, <2>1, <2>2, <2>4, <2>7, <2>8, <2>9, <2>10 DEF PlexTypes, BothTypes, PlexOK
<1>8. QED
  BY <1>1, <1>2, <1>3, <1>4, <1>5, <1>6, <1>7 DEF U!UserplexStep, U!KillUserplex, U!InputOver

LEMMA KidSets ==
  ASSUME kid \in KidType, NEW k \in U!Kids, NEW x \in KidPcs, NEW h \in Reqs \cup {None}
  PROVE  /\ [kid EXCEPT ![k].pc = x] \in KidType
         /\ [kid EXCEPT ![k].hand = h] \in KidType
         /\ [kid EXCEPT ![k].pc = x, ![k].hand = h] \in KidType
<1>1. kid[k] \in KidRec /\ DOMAIN kid = U!Kids
  BY DEF KidType
<1>2. ASSUME NEW r \in KidRec PROVE [kid EXCEPT ![k] = r] \in KidType
  BY DEF KidType
<1>3. [kid EXCEPT ![k].pc = x] \in KidType /\ [kid EXCEPT ![k].hand = h] \in KidType
  BY DEF KidType, KidRec
<1>4. [kid EXCEPT ![k].pc = x, ![k].hand = h] \in KidType
  <2>1. [kid[k] EXCEPT !.pc = x, !.hand = h] \in KidRec
    BY <1>1 DEF KidRec
  <2>2. [kid EXCEPT ![k].pc = x, ![k].hand = h] = [kid EXCEPT ![k] = [kid[k] EXCEPT !.pc = x, !.hand = h]]
    BY <1>1 DEF KidType, KidRec
  <2>3. QED
    BY <1>2, <2>1, <2>2
<1>5. QED
  BY <1>3, <1>4

\* A process of a user changes nothing of what userplex knows.
LEMMA KidDoes ==
  ASSUME Types, NEW k \in U!Kids, U!KidStep(k) \/ U!KidDies(k)
  PROVE  PlexTypes' /\ BothTypes' /\ Kept
<1>a. /\ up \in UpType /\ kid \in KidType /\ kids \in 0 .. MaxKid /\ DOMAIN kid = U!Kids
      /\ usock \in [U!Kids -> Sock] /\ chsock \in [Clients -> Sock]
      /\ fate \in [Reqs -> {"new", "with", "answered", "lost", "twice"}]
      /\ \A p \in Clients : up[p].pc \in {"find", "send", "resend"} => up[p].hand \in Reqs
      /\ None \in Reqs \cup {None}
  BY DEF Types, PlexOK, KidType
<1>b. ASSUME UNCHANGED <<chsock, up, kids>>, kid' \in KidType, usock' \in [U!Kids -> Sock],
             fate' \in [Reqs -> {"new", "with", "answered", "lost", "twice"}],
             \A i \in U!Kids : /\ kid'[i].user = kid[i].user /\ usock'[i].snd = usock[i].snd
                               /\ kid'[i].pc = "none" <=> kid[i].pc = "none"
      PROVE  PlexTypes' /\ BothTypes' /\ Kept
  BY <1>a, <1>b DEF PlexTypes, BothTypes, Kept, PlexOK
<1>1. CASE U!Login(k) \/ U!Exec(k)
  <2>1. PICK x \in KidPcs : kid' = [kid EXCEPT ![k].pc = x]
    BY <1>1 DEF U!Login, U!Exec, KidPcs
  <2>2. UNCHANGED <<fate, chsock, up, usock, kids>>
    BY <1>1 DEF U!Login, U!Exec
  <2>3. kid' \in KidType
    BY <1>a, <2>1, KidSets
  <2>4. \A i \in U!Kids : kid'[i].user = kid[i].user /\ (kid'[i].pc = "none" <=> kid[i].pc = "none")
    BY <1>a, <1>1, <2>1 DEF KidType, KidRec, U!Login, U!Exec
  <2>5. QED
    BY <1>a, <1>b, <2>2, <2>3, <2>4
<1>2. CASE U!Discard(k)
  <2>1. kid' = [kid EXCEPT ![k].pc = "error"] /\ UNCHANGED <<chsock, up, kids>>
    BY <1>2 DEF U!Discard
  <2>2. usock' = usock \/ (usock[k].q # <<>> /\ usock' = [usock EXCEPT ![k] = Take(@)])
    BY <1>2, Same DEF U!Discard
  <2>3. usock' \in [U!Kids -> Sock] /\ \A i \in U!Kids : usock'[i].snd = usock[i].snd
    <3>1. CASE usock' = usock
      BY <1>a, <3>1
    <3>2. CASE usock[k].q # <<>> /\ usock' = [usock EXCEPT ![k] = Take(@)]
      BY <1>a, <3>2, SockOps, SndOps
    <3>3. QED
      BY <2>2, <3>1, <3>2
  <2>4. fate' \in [Reqs -> {"new", "with", "answered", "lost", "twice"}]
    BY <1>2, <1>a, LoseType, Same DEF U!Discard
  <2>5. kid' \in KidType
    BY <1>a, <2>1, KidSets DEF KidPcs
  <2>6. \A i \in U!Kids : kid'[i].user = kid[i].user /\ (kid'[i].pc = "none" <=> kid[i].pc = "none")
    BY <1>a, <1>2, <2>1 DEF KidType, KidRec, U!Discard
  <2>7. QED
    BY <1>b, <2>1, <2>3, <2>4, <2>5, <2>6
<1>3. ASSUME NEW f \in [Reqs -> {"new", "with", "answered", "lost", "twice"}], U!Gone(k, f), kid[k].pc # "none"
      PROVE  PlexTypes' /\ BothTypes' /\ Kept
  <2>1. kid' = [kid EXCEPT ![k].pc = "ended", ![k].hand = None] /\ UNCHANGED <<chsock, up, kids>>
    BY <1>3 DEF U!Gone
  <2>2. usock' = [usock EXCEPT ![k] = Leave(@)]
    BY <1>3, Same DEF U!Gone
  <2>3. usock' \in [U!Kids -> Sock] /\ \A i \in U!Kids : usock'[i].snd = usock[i].snd
    BY <1>a, <2>2, SockOps, SndOps
  <2>4. fate' \in [Reqs -> {"new", "with", "answered", "lost", "twice"}]
    BY <1>3, LoseType, Same DEF U!Gone
  <2>5. kid' \in KidType
    BY <1>a, <2>1, KidSets DEF KidPcs
  <2>6. \A i \in U!Kids : kid'[i].user = kid[i].user /\ (kid'[i].pc = "none" <=> kid[i].pc = "none")
    BY <1>a, <1>3, <2>1 DEF KidType, KidRec
  <2>7. QED
    BY <1>b, <2>1, <2>3, <2>4, <2>5, <2>6
<1>4. CASE U!AnswerError(k)
  BY <1>3, <1>4, <1>a DEF U!AnswerError
<1>5. CASE U!HandlerEnds(k)
  BY <1>3, <1>5, <1>a DEF U!HandlerEnds
<1>6. CASE U!KidDies(k)
  BY <1>3, <1>6, <1>a, LoseType, Same DEF U!KidDies
<1>7. CASE U!HandlerTakes(k)
  <2>1. kid' = [kid EXCEPT ![k].hand = Head(usock[k].q)] /\ UNCHANGED <<fate, chsock, up, kids>>
    BY <1>7 DEF U!HandlerTakes
  <2>2. usock' = [usock EXCEPT ![k] = Take(@)] /\ usock[k].q # <<>>
    BY <1>7, Same DEF U!HandlerTakes
  <2>3. usock' \in [U!Kids -> Sock] /\ \A i \in U!Kids : usock'[i].snd = usock[i].snd
    BY <1>a, <2>2, SockOps, SndOps
  <2>4. Head(usock[k].q) \in Reqs \cup {None}
    BY <1>a, <2>2, SockOps
  <2>5. kid' \in KidType
    BY <1>a, <2>1, <2>4, KidSets DEF KidPcs
  <2>6. \A i \in U!Kids : kid'[i].user = kid[i].user /\ (kid'[i].pc = "none" <=> kid[i].pc = "none")
    BY <1>a, <1>7, <2>1 DEF KidType, KidRec, U!HandlerTakes
  <2>7. QED
    BY <1>a, <1>b, <2>1, <2>3, <2>5, <2>6
<1>8. CASE U!HandlerAnswers(k)
  <2>1. kid' = [kid EXCEPT ![k].hand = None] /\ UNCHANGED <<chsock, up, usock, kids>>
    BY <1>8 DEF U!HandlerAnswers
  <2>2. fate' \in [Reqs -> {"new", "with", "answered", "lost", "twice"}]
    BY <1>8, AnswerType DEF U!HandlerAnswers
  <2>3. kid' \in KidType
    BY <1>a, <2>1, KidSets DEF KidPcs
  <2>4. \A i \in U!Kids : kid'[i].user = kid[i].user /\ (kid'[i].pc = "none" <=> kid[i].pc = "none")
    BY <1>a, <1>8, <2>1 DEF KidType, KidRec, U!HandlerAnswers
  <2>5. QED
    BY <1>a, <1>b, <2>1, <2>2, <2>3, <2>4
<1>9. QED
  BY <1>1, <1>2, <1>4, <1>5, <1>6, <1>7, <1>8 DEF U!KidStep

-----------------------------------------------------------------------------
(* What userplex knows.                                                    *)

\* The strengthening of Known: an entry of a list is the open socket of a process of that user
\* that is in no other list, a leaked socket is open and is leaked once, and the sockets of later
\* processes are untouched.
Entries ==
  \A s \in Clients, u \in Users :
    LET k == up[s].fd[u] IN
    /\ k \in 0 .. kids
    /\ k # 0 => /\ kid[k].user = u /\ usock[k].snd = TRUE
                /\ \A t \in Clients \ {s} : up[t].fd[u] # k
Leaks == \A s \in Clients : \A k \in up[s].leaks : /\ k \in 1 .. kids /\ kid[k].user = None /\ usock[k].snd = TRUE
                                                   /\ \A t \in Clients \ {s} : k \notin up[t].leaks
Forked == \A k \in U!Kids : /\ kid[k].pc = "none" <=> kid[k].user = None
                            /\ k \notin 1 .. kids => kid[k].user = None /\ usock[k].snd = TRUE
OpenKnown == \A k \in 1 .. kids : usock[k].snd = TRUE =>
               IF kid[k].user = None THEN \E s \in Clients : k \in up[s].leaks
               ELSE \E s \in Clients : up[s].fd[kid[k].user] = k
Owned == Entries /\ Leaks /\ Forked /\ OpenKnown

LEMMA OwnedInit == Init => Owned
BY SharedAssumption DEF Init, U!UserplexInit, U!Kids, Owned, Entries, Leaks, Forked, OpenKnown, U!Open

LEMMA KeptOwned ==
  ASSUME Types, Owned, Kept
  PROVE  Owned'
<1>1. kids \in 0 .. MaxKid /\ MaxKid \in Nat /\ \A k \in 1 .. kids : k \in U!Kids
  BY SharedAssumption DEF Types, PlexOK, U!Kids
<1>k. /\ \A t \in Clients : up'[t].fd = up[t].fd /\ up'[t].leaks = up[t].leaks
      /\ kids' = kids
      /\ \A k \in U!Kids : kid'[k].user = kid[k].user /\ usock'[k].snd = usock[k].snd
  BY SMT DEF Kept
<1>p. \A k \in U!Kids : kid'[k].pc = "none" <=> kid[k].pc = "none"
  BY Zenon DEF Kept
<1>2. Entries'
  <2> SUFFICES ASSUME NEW s \in Clients, NEW u \in Users
               PROVE  Entries!(s, u)'
    BY DEF Entries
  <2>1. up'[s].fd[u] = up[s].fd[u] /\ up[s].fd[u] \in 0 .. kids /\ \A t \in Clients : up'[t].fd[u] = up[t].fd[u]
    BY <1>k DEF Owned, Entries
  <2>2. CASE up[s].fd[u] = 0
    BY <1>k, <1>1, <2>1, <2>2
  <2>3. CASE up[s].fd[u] # 0
    <3>1. up[s].fd[u] \in U!Kids
      BY <1>1, <2>1, <2>3
    <3>2. QED
      BY <1>k, <1>1, <2>1, <2>3, <3>1 DEF Owned, Entries
  <2>4. QED
    BY <2>2, <2>3
<1>3. Forked'
  BY <1>k, <1>p DEF Owned, Forked
<1>4. OpenKnown'
  <2> SUFFICES ASSUME NEW k \in 1 .. kids, usock[k].snd = TRUE
               PROVE  IF kid[k].user = None THEN \E s \in Clients : k \in up'[s].leaks
                      ELSE \E s \in Clients : up'[s].fd[kid[k].user] = k
    BY <1>k, <1>1 DEF OpenKnown
  <2>1. IF kid[k].user = None THEN \E s \in Clients : k \in up[s].leaks
        ELSE \E s \in Clients : up[s].fd[kid[k].user] = k
    BY DEF Owned, OpenKnown
  <2>2. QED
    BY <1>k, <2>1
<1>5. Leaks'
  <2> SUFFICES ASSUME NEW s \in Clients, NEW k \in up[s].leaks
               PROVE  /\ k \in 1 .. kids /\ kid'[k].user = None /\ usock'[k].snd = TRUE
                      /\ \A t \in Clients \ {s} : k \notin up[t].leaks
    BY <1>k DEF Leaks
  <2>1. /\ k \in 1 .. kids /\ kid[k].user = None /\ usock[k].snd = TRUE
        /\ \A t \in Clients \ {s} : k \notin up[t].leaks
    BY DEF Owned, Leaks
  <2>2. QED
    BY <1>k, <1>1, <2>1
<1>6. QED
  BY <1>2, <1>3, <1>4, <1>5 DEF Owned

\* The entries of the lists, one by one.
LEMMA EntryOf ==
  ASSUME Types, Owned
  PROVE  \A s \in Clients, u \in Users :
           /\ up[s].fd[u] \in 0 .. kids
           /\ up[s].fd[u] # 0 => /\ up[s].fd[u] \in U!Kids /\ up[s].fd[u] \in 1 .. kids
                                 /\ kid[up[s].fd[u]].user = u /\ usock[up[s].fd[u]].snd = TRUE
<1>1. kids \in 0 .. MaxKid /\ MaxKid \in Nat
  BY SharedAssumption DEF Types, PlexOK
<1>2. \A s \in Clients, u \in Users :
        /\ up[s].fd[u] \in 0 .. kids
        /\ up[s].fd[u] # 0 => kid[up[s].fd[u]].user = u /\ usock[up[s].fd[u]].snd = TRUE
  BY DEF Owned, Entries
<1>3. QED
  BY <1>1, <1>2 DEF U!Kids

LEMMA Alone ==
  ASSUME Types, Owned, NEW s \in Clients, NEW t \in Clients, NEW u \in Users, NEW w \in Users,
         up[t].fd[w] = up[s].fd[u], up[s].fd[u] # 0
  PROVE  t = s /\ w = u
<1>1. kid[up[s].fd[u]].user = u /\ kid[up[t].fd[w]].user = w
  BY DEF Owned, Entries
<1>2. up[s].fd[u] # 0 => \A x \in Clients \ {s} : up[x].fd[u] # up[s].fd[u]
  BY DEF Owned, Entries
<1>3. QED
  BY <1>1, <1>2

LEMMA EnteredOwned ==
  ASSUME Types, Owned, NEW s \in Clients, NEW u \in Users, NEW n \in 0 .. MaxKid, Entered(s, u, n)
  PROVE  Owned'
<1>1. kids \in 0 .. MaxKid /\ MaxKid \in Nat /\ \A t \in Clients : up[t].fd \in [Users -> 0 .. MaxKid]
  BY SharedAssumption DEF Types, PlexOK, UpType, UpRec
<1>2. /\ up'[s].fd[u] = n /\ \A w \in Users \ {u} : up'[s].fd[w] = up[s].fd[w]
      /\ \A t \in Clients \ {s} : up'[t].fd = up[t].fd
  BY <1>1 DEF Entered
<1>3. kids' \in kids .. MaxKid /\ n \in 0 .. kids' /\ kids' \in {kids, kids + 1} /\ (n # 0 => n = kids + 1 /\ kids' = kids + 1)
  BY <1>1 DEF Entered
<1>4. \A k \in 1 .. kids : k \in U!Kids /\ kid'[k] = kid[k]
  BY <1>1 DEF Entered, U!Kids
<1>4a. ASSUME NEW k \in U!Kids, k \notin 1 .. kids PROVE usock'[k].snd = TRUE
  <2>1. up[s].fd[u] \in 0 .. kids
    BY EntryOf
  <2>2. k # up[s].fd[u]
    BY <1>1, <1>4a, <2>1 DEF U!Kids
  <2>3. usock[k].snd = TRUE
    BY <1>4a DEF Owned, Forked
  <2>4. QED
    BY <2>2, <2>3 DEF Entered
<1>5. n # 0 => n \in U!Kids /\ kid'[n].user = u /\ kid'[n].pc = "login" /\ usock'[n].snd = TRUE
  <2> SUFFICES ASSUME n # 0 PROVE n \in U!Kids /\ kid'[n].user = u /\ kid'[n].pc = "login" /\ usock'[n].snd = TRUE
    OBVIOUS
  <2>1. n \in U!Kids /\ n \notin 1 .. kids
    BY <1>1, <1>3 DEF U!Kids
  <2>2. QED
    BY <1>3, <1>4a, <2>1 DEF Entered
<1>6. ASSUME NEW t \in Clients, NEW w \in Users, ~(t = s /\ w = u)
      PROVE  /\ up'[t].fd[w] = up[t].fd[w] /\ up[t].fd[w] \in 0 .. kids
             /\ up[t].fd[w] # 0 => kid'[up[t].fd[w]].user = w /\ usock'[up[t].fd[w]].snd = TRUE
  <2>1. up'[t].fd[w] = up[t].fd[w] /\ up[t].fd[w] \in 0 .. kids
    <3>1. up[t].fd[w] \in 0 .. kids
      BY EntryOf
    <3>2. CASE t = s
      BY <1>2, <1>6, <3>1, <3>2
    <3>3. CASE t # s
      BY <1>2, <3>1, <3>3
    <3>4. QED
      BY <3>2, <3>3
  <2>2. ASSUME up[t].fd[w] # 0 PROVE kid'[up[t].fd[w]].user = w /\ usock'[up[t].fd[w]].snd = TRUE
    <3>1. /\ up[t].fd[w] \in 1 .. kids /\ up[t].fd[w] \in U!Kids
          /\ kid[up[t].fd[w]].user = w /\ usock[up[t].fd[w]].snd = TRUE
      BY <2>2, EntryOf
    <3>2. up[t].fd[w] # up[s].fd[u]
      BY <1>6, <2>2, Alone
    <3>3. QED
      BY <1>4, <3>1, <3>2 DEF Entered
  <2>3. QED
    BY <2>1, <2>2
<1>6a. ASSUME NEW t \in Clients, NEW w \in Users, ~(t = s /\ w = u), n # 0 PROVE up'[t].fd[w] # n
  <2>1. up'[t].fd[w] \in 0 .. kids
    BY <1>6, <1>6a
  <2>2. QED
    BY <1>1, <1>3, <1>6a, <2>1
<1>7. Entries'
  <2> SUFFICES ASSUME NEW t \in Clients, NEW w \in Users
               PROVE  Entries!(t, w)'
    BY DEF Entries
  <2>1. CASE t = s /\ w = u
    <3>1. \A x \in Clients \ {s} : n # 0 => up'[x].fd[u] # n
      BY <1>6a
    <3>2. QED
      BY <1>2, <1>3, <1>5, <2>1, <3>1
  <2>2. CASE ~(t = s /\ w = u)
    <3>1. up'[t].fd[w] = up[t].fd[w] /\ up[t].fd[w] \in 0 .. kids
      BY <1>6, <2>2
    <3>2. up[t].fd[w] # 0 => kid'[up[t].fd[w]].user = w /\ usock'[up[t].fd[w]].snd = TRUE
      BY <1>6, <2>2
    <3>3. ASSUME NEW x \in Clients \ {t}, up[t].fd[w] # 0 PROVE up'[x].fd[w] # up[t].fd[w]
      <4>1. CASE x = s /\ w = u
        BY <1>1, <1>2, <1>3, <3>1, <3>3, <4>1
      <4>2. CASE ~(x = s /\ w = u)
        <5>1. up'[x].fd[w] = up[x].fd[w]
          BY <1>6, <4>2
        <5>2. up[x].fd[w] # up[t].fd[w]
          BY <3>3, Alone
        <5>3. QED
          BY <5>1, <5>2
      <4>3. QED
        BY <4>1, <4>2
    <3>4. up[t].fd[w] \in 0 .. kids'
      BY <1>1, <1>3, <3>1
    <3>5. QED
      BY <3>1, <3>2, <3>3, <3>4
  <2>3. QED
    BY <2>1, <2>2
<1>8. Forked'
  <2> SUFFICES ASSUME NEW k \in U!Kids
               PROVE  /\ kid'[k].pc = "none" <=> kid'[k].user = None
                      /\ k \notin 1 .. kids' => kid'[k].user = None /\ usock'[k].snd = TRUE
    BY DEF Forked, U!Kids
  <2>1. CASE k = n
    <3>1. n # 0 /\ k \in 1 .. kids'
      BY <1>1, <1>3, <2>1 DEF U!Kids
    <3>2. QED
      BY <1>5, <2>1, <3>1, SharedAssumption
  <2>2. CASE k # n
    <3>1. kid'[k] = kid[k]
      BY <2>2 DEF Entered
    <3>2. k \notin 1 .. kids' => k \notin 1 .. kids
      BY <1>1, <1>3
    <3>3. QED
      BY <1>4a, <3>1, <3>2 DEF Owned, Forked
  <2>3. QED
    BY <2>1, <2>2
\* A socket that is leaked now is the newest.
<1>8a. CASE n # 0 \/ kids' = kids
  <2>1. \A t \in Clients : up'[t].leaks = up[t].leaks
    BY <1>1, <1>3, <1>8a DEF Entered
  <2>2. Leaks'
    <3>1. SUFFICES ASSUME NEW t \in Clients, NEW k \in up[t].leaks
                   PROVE  /\ k \in 1 .. kids' /\ kid'[k].user = None /\ usock'[k].snd = TRUE
                          /\ \A x \in Clients \ {t} : k \notin up[x].leaks
      BY <2>1 DEF Leaks
    <3>2. /\ k \in 1 .. kids /\ kid[k].user = None /\ usock[k].snd = TRUE
          /\ \A x \in Clients \ {t} : k \notin up[x].leaks
      BY DEF Owned, Leaks
    <3>3. k # up[s].fd[u]
      <4>1. up[s].fd[u] # 0 => kid[up[s].fd[u]].user = u
        BY EntryOf
      <4>2. QED
        BY <1>1, <3>2, <4>1, SharedAssumption
    <3>4. usock'[k].snd = TRUE
      BY <1>4, <3>2, <3>3 DEF Entered
    <3>5. QED
      BY <1>1, <1>3, <1>4, <3>2, <3>4
  <2>3. OpenKnown'
    <3> SUFFICES ASSUME NEW k \in 1 .. kids', usock'[k].snd = TRUE
                 PROVE  IF kid'[k].user = None THEN \E t \in Clients : k \in up'[t].leaks
                        ELSE \E t \in Clients : up'[t].fd[kid'[k].user] = k
      BY DEF OpenKnown
    <3>1. CASE k \in 1 .. kids
      <4>1. k \in U!Kids /\ kid'[k] = kid[k] /\ k # up[s].fd[u] /\ usock[k].snd = TRUE
        BY <1>4, <3>1 DEF Entered
      <4>2. CASE kid[k].user = None
        BY <2>1, <3>1, <4>1, <4>2 DEF Owned, OpenKnown
      <4>3. CASE kid[k].user # None
        <5>1. PICK t \in Clients : up[t].fd[kid[k].user] = k
          BY <3>1, <4>1, <4>3 DEF Owned, OpenKnown
        <5>2. kid[k].user \in Users
          BY <4>1, <4>3 DEF Types, PlexOK, KidType, KidRec
        <5>3. ~(t = s /\ kid[k].user = u)
          BY <4>1, <5>1
        <5>4. up'[t].fd[kid[k].user] = k
          BY <1>6, <5>1, <5>2, <5>3
        <5>5. QED
          BY <4>1, <4>3, <5>4
      <4>4. QED
        BY <4>2, <4>3
    <3>2. CASE k \notin 1 .. kids
      <4>1. k = n /\ n # 0
        BY <1>1, <1>3, <1>8a, <3>2
      <4>2. QED
        BY <1>2, <1>5, <4>1, SharedAssumption
    <3>3. QED
      BY <3>1, <3>2
  <2>4. QED
    BY <1>7, <1>8, <2>2, <2>3 DEF Owned
<1>8b. CASE n = 0 /\ kids' = kids + 1
  <2>1. /\ up'[s].leaks = up[s].leaks \cup {kids + 1} /\ \A t \in Clients \ {s} : up'[t].leaks = up[t].leaks
        /\ kid' = kid
    BY <1>1, <1>8b DEF Entered
  <2>1a. /\ kids + 1 \in U!Kids /\ kids + 1 \notin 1 .. kids /\ kids + 1 \in 1 .. kids'
         /\ \A k \in 1 .. kids' : k \in 1 .. kids \/ k = kids + 1
    BY <1>1, <1>3, <1>8b DEF U!Kids
  <2>1b. kid[kids + 1].user = None /\ usock'[kids + 1].snd = TRUE
    BY <1>4a, <2>1a DEF Owned, Forked
  <2>1c. \A t \in Clients : \A k \in up[t].leaks :
           /\ k \in 1 .. kids /\ kid[k].user = None /\ usock[k].snd = TRUE
           /\ \A x \in Clients \ {t} : k \notin up[x].leaks
    BY DEF Owned, Leaks
  <2>2. Leaks'
    <3>1. SUFFICES ASSUME NEW t \in Clients, NEW k \in up'[t].leaks
                   PROVE  /\ k \in 1 .. kids' /\ kid[k].user = None /\ usock'[k].snd = TRUE
                          /\ \A x \in Clients \ {t} : k \notin up'[x].leaks
      BY <2>1 DEF Leaks
    <3>2. CASE k \in up[t].leaks
      <4>1. k \in 1 .. kids /\ kid[k].user = None /\ usock[k].snd = TRUE
        BY <2>1c, <3>2
      <4>2. k # up[s].fd[u]
        <5>1. up[s].fd[u] # 0 => kid[up[s].fd[u]].user = u
          BY EntryOf
        <5>2. QED
          BY <1>1, <4>1, <5>1, SharedAssumption
      <4>3. usock'[k].snd = TRUE
        BY <1>4, <4>1, <4>2 DEF Entered
      <4>4. k # kids + 1 /\ k \in 1 .. kids'
        BY <1>1, <1>3, <4>1, <2>1a
      <4>5. \A x \in Clients \ {t} : k \notin up'[x].leaks
        BY <2>1, <2>1c, <3>2, <4>4
      <4>6. QED
        BY <4>1, <4>3, <4>4, <4>5
    <3>3. CASE k \notin up[t].leaks
      <4>1. t = s /\ k = kids + 1
        BY <2>1, <3>3
      <4>2. \A x \in Clients \ {s} : kids + 1 \notin up'[x].leaks
        BY <2>1, <2>1a, <2>1c
      <4>3. QED
        BY <2>1a, <2>1b, <4>1, <4>2
    <3>4. QED
      BY <3>2, <3>3
  <2>3. OpenKnown'
    <3> SUFFICES ASSUME NEW k \in 1 .. kids', usock'[k].snd = TRUE
                 PROVE  IF kid[k].user = None THEN \E t \in Clients : k \in up'[t].leaks
                        ELSE \E t \in Clients : up'[t].fd[kid[k].user] = k
      BY <2>1 DEF OpenKnown
    <3>1. CASE k \in 1 .. kids
      <4>1. k \in U!Kids /\ k # up[s].fd[u] /\ usock[k].snd = TRUE
        BY <1>4, <3>1 DEF Entered
      <4>2. CASE kid[k].user = None
        BY <2>1, <3>1, <4>1, <4>2 DEF Owned, OpenKnown
      <4>3. CASE kid[k].user # None
        <5>1. PICK t \in Clients : up[t].fd[kid[k].user] = k
          BY <3>1, <4>1, <4>3 DEF Owned, OpenKnown
        <5>2. kid[k].user \in Users
          BY <4>1, <4>3 DEF Types, PlexOK, KidType, KidRec
        <5>3. ~(t = s /\ kid[k].user = u)
          BY <4>1, <5>1
        <5>4. up'[t].fd[kid[k].user] = k
          BY <1>6, <5>1, <5>2, <5>3
        <5>5. QED
          BY <4>3, <5>4
      <4>4. QED
        BY <4>2, <4>3
    <3>2. CASE k = kids + 1
      BY <2>1, <2>1b, <3>2
    <3>3. QED
      BY <2>1a, <3>1, <3>2
  <2>4. QED
    BY <1>7, <1>8, <2>2, <2>3 DEF Owned
<1>9. QED
  BY <1>3, <1>8a, <1>8b

LEMMA EndedOwned ==
  ASSUME Types, Owned, NEW s \in Clients, Ended(s)
  PROVE  Owned'
<1>1. kids \in 0 .. MaxKid /\ MaxKid \in Nat /\ kids' = kids /\ kid' = kid /\ \A k \in 1 .. kids : k \in U!Kids
  BY SharedAssumption DEF Types, PlexOK, Ended, U!Kids
<1>2. /\ (\A w \in Users : up'[s].fd[w] = 0) /\ up'[s].leaks = {}
      /\ \A t \in Clients \ {s} : up'[t].fd = up[t].fd /\ up'[t].leaks = up[t].leaks
  BY DEF Ended
<1>2a. \A k \in up[s].leaks : k \in 1 .. kids /\ kid[k].user = None /\ \A t \in Clients \ {s} : k \notin up[t].leaks
  BY DEF Owned, Leaks
<1>3. ASSUME NEW t \in Clients, NEW w \in Users
      PROVE  Entries!(t, w)'
  <2>1. CASE t = s
    BY <1>1, <1>2, <2>1
  <2>2. CASE t # s
    <3>1. up'[t].fd[w] = up[t].fd[w]
      BY <1>2, <2>2
    <3>2. /\ up[t].fd[w] \in 0 .. kids
          /\ up[t].fd[w] # 0 => /\ up[t].fd[w] \in U!Kids /\ kid[up[t].fd[w]].user = w
                                /\ usock[up[t].fd[w]].snd = TRUE
      BY EntryOf
    <3>3. up[t].fd[w] # 0 => ~ \E v \in Users : up[s].fd[v] = up[t].fd[w]
      <4>1. \A v \in Users : up[t].fd[w] # 0 => up[s].fd[v] # up[t].fd[w]
        BY <2>2, Alone
      <4>2. QED
        BY <4>1
    <3>4. up[t].fd[w] # 0 => \A x \in Clients \ {t} : up'[x].fd[w] # up[t].fd[w]
      <4>1. \A x \in Clients : up'[x].fd[w] = 0 \/ up'[x].fd[w] = up[x].fd[w]
        BY <1>2
      <4>2. \A x \in Clients \ {t} : up[t].fd[w] # 0 => up[x].fd[w] # up[t].fd[w]
        BY Alone
      <4>3. QED
        BY <4>1, <4>2
    <3>5. up[t].fd[w] # 0 => usock'[up[t].fd[w]].snd = TRUE
      <4>1. ASSUME up[t].fd[w] # 0 PROVE up[t].fd[w] \notin up[s].leaks
        BY <1>2a, <3>2, <4>1, SharedAssumption
      <4>2. QED
        BY <3>2, <3>3, <4>1 DEF Ended
    <3>6. QED
      BY <1>1, <3>1, <3>2, <3>4, <3>5
  <2>3. QED
    BY <2>1, <2>2
<1>4. Forked'
  <2>1. \A w \in Users : up[s].fd[w] \in 0 .. kids
    BY EntryOf
  <2>2. ASSUME NEW k \in U!Kids, k \notin 1 .. kids PROVE usock'[k].snd = usock[k].snd
    <3>1. k \notin up[s].leaks /\ ~ \E w \in Users : up[s].fd[w] = k
      BY <1>1, <1>2a, <2>1, <2>2 DEF U!Kids
    <3>2. QED
      BY <3>1 DEF Ended
  <2>3. QED
    BY <1>1, <2>2 DEF Owned, Forked
<1>5. OpenKnown'
  <2> SUFFICES ASSUME NEW k \in 1 .. kids, usock'[k].snd = TRUE
               PROVE  IF kid[k].user = None THEN \E t \in Clients : k \in up'[t].leaks
                      ELSE \E t \in Clients : up'[t].fd[kid[k].user] = k
    BY <1>1 DEF OpenKnown
  <2>1. usock[k].snd = TRUE /\ k \notin up[s].leaks /\ ~ \E w \in Users : up[s].fd[w] = k
    BY <1>1 DEF Ended
  <2>2. CASE kid[k].user = None
    <3>1. PICK t \in Clients : k \in up[t].leaks
      BY <2>1, <2>2 DEF Owned, OpenKnown
    <3>2. QED
      BY <1>2, <2>1, <2>2, <3>1
  <2>3. CASE kid[k].user # None
    <3>1. PICK t \in Clients : up[t].fd[kid[k].user] = k
      BY <2>1, <2>3 DEF Owned, OpenKnown
    <3>2. kid[k].user \in Users
      BY <1>1, <2>3 DEF Types, PlexOK, KidType, KidRec
    <3>3. QED
      BY <1>2, <2>1, <2>3, <3>1, <3>2
  <2>4. QED
    BY <2>2, <2>3
<1>6. Leaks'
  <2> SUFFICES ASSUME NEW t \in Clients, NEW k \in up'[t].leaks
               PROVE  /\ k \in 1 .. kids /\ kid[k].user = None /\ usock'[k].snd = TRUE
                      /\ \A x \in Clients \ {t} : k \notin up'[x].leaks
    BY <1>1 DEF Leaks
  <2>1. t # s /\ k \in up[t].leaks
    BY <1>2
  <2>2. /\ k \in 1 .. kids /\ kid[k].user = None /\ usock[k].snd = TRUE
        /\ \A x \in Clients \ {t} : k \notin up[x].leaks
    BY <2>1 DEF Owned, Leaks
  <2>3. ASSUME NEW w \in Users PROVE up[s].fd[w] # k
    <3>1. up[s].fd[w] # 0 => kid[up[s].fd[w]].user = w
      BY EntryOf
    <3>2. QED
      BY <1>1, <2>2, <3>1, SharedAssumption
  <2>4. usock'[k].snd = TRUE
    BY <1>1, <2>1, <2>2, <2>3 DEF Ended
  <2>5. QED
    BY <1>2, <2>2, <2>4
<1>7. QED
  BY <1>3, <1>4, <1>5, <1>6 DEF Owned, Entries

-----------------------------------------------------------------------------
(* The steps of the composition.                                           *)

LEMMA EventType == ASSUME Types, Event PROVE events' \in 0 .. MaxEvents
BY SharedAssumption DEF Types, Event

LEMMA Step ==
  ASSUME Types, Owned, [Next]_vars
  PROVE  Types' /\ Owned'
<1> DEFINE Later == Types' /\ Owned'
<1>1. ASSUME PipeTypes', BothTypes', UNCHANGED plex, events' \in 0 .. MaxEvents PROVE Later
  <2>1. Types'
    BY <1>1 DEF Types, PipeTypes, BothTypes, PlexOK, plex, U!Kids
  <2>2. Kept
    BY <1>1 DEF Kept, plex
  <2>3. QED
    BY <2>1, <2>2, KeptOwned
<1>2. ASSUME PlexTypes', BothTypes', UNCHANGED pipe, events' \in 0 .. MaxEvents PROVE Types'
  BY <1>2 DEF Types, PlexTypes, BothTypes, PipeOK, pipe
<1>3. ASSUME NEW s \in Clients, U!UserplexStep(s) \/ U!SendError(s) \/ U!KillUserplex(s), UNCHANGED pipe, events' \in 0 .. MaxEvents
      PROVE  Later
  <2>1. /\ PlexTypes' /\ BothTypes'
        /\ Kept \/ (\E u \in Users, n \in 0 .. MaxKid : Entered(s, u, n)) \/ Ended(s)
    BY <1>3, UserplexDoes
  <2>2. Owned'
    BY <2>1, KeptOwned, EnteredOwned, EndedOwned
  <2>3. QED
    BY <1>2, <1>3, <2>1, <2>2
<1>4. ASSUME NEW k \in U!Kids, U!KidStep(k) \/ U!KidDies(k), UNCHANGED pipe, events' \in 0 .. MaxEvents
      PROVE  Later
  BY <1>2, <1>4, KidDoes, KeptOwned
<1>5. events \in 0 .. MaxEvents
  BY DEF Types
<1>6. CASE Work
  <2>1. ASSUME NEW p \in Clients, Client(p) PROVE Later
    BY <1>1, <1>5, <2>1, ClientTypes DEF Client
  <2>2. ASSUME NEW s \in Clients, Server(s) PROVE Later
    BY <1>1, <1>5, <2>2, ServerTypes DEF Server
  <2>3. ASSUME NEW s \in Clients, Userplex(s) PROVE Later
    BY <1>3, <1>5, <2>3 DEF Userplex
  <2>4. ASSUME NEW k \in U!Kids, Kid(k) PROVE Later
    BY <1>4, <1>5, <2>4 DEF Kid
  <2>5. QED
    BY <1>6, <2>1, <2>2, <2>3, <2>4 DEF Work
<1>7. ASSUME NEW p \in Clients, Start(p) \/ ForkFails(p) \/ Eof(p) \/ \E r \in Reqs : Request(p, r) PROVE Later
  <2>1. P!Start(p) \/ P!ForkFails(p) \/ P!ClientEof(p) \/ \E r \in Reqs : P!ClientRecv(p, r)
    BY <1>7 DEF Start, ForkFails, Eof, Request
  <2>2. Event /\ UNCHANGED plex
    BY <1>7 DEF Start, ForkFails, Eof, Request
  <2>3. QED
    BY <1>1, <2>1, <2>2, ClientTypes, EventType
<1>8. ASSUME NEW s \in Clients, MkChildFails(s) PROVE Later
  BY <1>1, <1>8, ServerTypes, EventType DEF MkChildFails
<1>8a. ASSUME NEW s \in Clients, SendError(s) PROVE Later
  BY <1>3, <1>8a, EventType DEF SendError
<1>9. CASE Kill
  <2>1. ASSUME NEW s \in Clients, P!KillServer(s), Event, UNCHANGED plex PROVE Later
    BY <1>1, <2>1, ServerTypes, EventType
  <2>2. ASSUME NEW s \in Clients, U!KillUserplex(s), Event, UNCHANGED pipe PROVE Later
    BY <1>3, <2>2, EventType
  <2>3. ASSUME NEW k \in U!Kids, U!KidDies(k), Event, UNCHANGED pipe PROVE Later
    BY <1>4, <2>3, EventType
  <2>4. QED
    BY <1>9, <2>1, <2>2, <2>3 DEF Kill
<1>10. CASE UNCHANGED vars
  <2>1. /\ UNCHANGED <<fate, chsock, events, plex>>
        /\ UNCHANGED <<cl, conn, sv, path, stolen, disturbed>>
    BY <1>10 DEF vars, pipe
  <2>2. PipeTypes' /\ BothTypes'
    BY <2>1 DEF Types, PipeTypes, BothTypes, PipeOK
  <2>3. QED
    BY <1>1, <1>5, <2>1, <2>2
<1>11. QED
  BY <1>6, <1>7, <1>8, <1>8a, <1>9, <1>10 DEF Next

LEMMA Invariant == Spec => [](Types /\ Owned)
<1>1. Init => Types /\ Owned
  BY TypesInit, OwnedInit
<1>2. (Types /\ Owned) /\ [Next]_vars => (Types /\ Owned)'
  BY Step
<1>3. QED
  BY <1>1, <1>2, PTL DEF Spec

\* The bound of a queue, as the type invariant states it.
LEMMA QueueBound == Queue \subseteq BoundedSeq(Reqs, Room)
<1> SUFFICES ASSUME NEW q \in Queue PROVE q \in BoundedSeq(Reqs, Room)
  OBVIOUS
<1>1. q \in Seq(Reqs) /\ Len(q) <= Room
  BY DEF Queue
<1>2. Len(q) \in 0 .. Room
  BY <1>1, Rooms
<1>3. q \in [1 .. Len(q) -> Reqs]
  BY <1>1
<1>4. QED
  BY <1>2, <1>3 DEF BoundedSeq, SeqOf

LEMMA TypesGive == Types => TypeOK
<1> SUFFICES ASSUME Types PROVE TypeOK
  OBVIOUS
<1>1. Sock \subseteq [q : BoundedSeq(Reqs, Room), snd : BOOLEAN, rcv : {"open", "gone"}]
  BY QueueBound DEF Sock
<1>2. /\ conn \in Sockets(Clients) /\ chsock \in Sockets(Clients) /\ usock \in Sockets(U!Kids)
  BY <1>1 DEF Types, Sockets
<1>3. P!HtPipeTypeOK(Reqs)
  BY DEF Types, PipeOK, P!HtPipeTypeOK, ClientType, ClientPcs, ServerType, ServerRec, ServerPcs
<1>4. U!UserplexTypeOK(Reqs)
  BY DEF Types, PlexOK, U!UserplexTypeOK, UpType, UpRec, UpPcs, KidType, KidRec, KidPcs
<1>5. QED
  BY <1>2, <1>3, <1>4 DEF Types, TypeOK

\* Every variable of the two programs keeps to its type, and a socket holds Room requests at most.
THEOREM TypeCorrect == Spec => []TypeOK
BY Invariant, TypesGive, PTL

\* serve2() and forkchild(): whatever crashes, and however often, userplex closes its end of the
\* socket to a process when it replaces or forgets that process, and of no other.  The open ones are
\* those in the list, and those that forkchild() leaks when it has made the pair and then forks no
\* process: they stay open until userplex ends, and lead to nobody.
THEOREM AlwaysKnown == Spec => []Known
<1>1. Types /\ Owned => Known
  <2> SUFFICES ASSUME Types, Owned, NEW k \in 1 .. kids
               PROVE  usock[k].snd <=> \E s \in Clients : IF kid[k].pc = "none" THEN k \in up[s].leaks
                                                         ELSE up[s].fd[kid[k].user] = k
    BY DEF Known
  <2>1. /\ k \in U!Kids /\ kid[k].user \in Users \cup {None} /\ usock[k].snd \in BOOLEAN
        /\ kid[k].pc = "none" <=> kid[k].user = None
    BY SharedAssumption DEF Types, PlexOK, Sock, KidType, KidRec, Owned, Forked, U!Kids
  <2>2. CASE kid[k].pc = "none"
    <3>1. \A s \in Clients : k \in up[s].leaks => usock[k].snd = TRUE
      BY DEF Owned, Leaks
    <3>2. usock[k].snd = TRUE => \E s \in Clients : k \in up[s].leaks
      BY <2>1, <2>2 DEF Owned, OpenKnown
    <3>3. QED
      BY <2>1, <2>2, <3>1, <3>2
  <2>3. CASE kid[k].pc # "none"
    <3>1. ASSUME NEW s \in Clients, up[s].fd[kid[k].user] = k PROVE usock[k].snd = TRUE
      <4>1. k # 0 /\ kid[k].user \in Users
        BY <2>1, <2>3 DEF U!Kids
      <4>2. QED
        BY <3>1, <4>1, EntryOf
    <3>2. usock[k].snd = TRUE => \E s \in Clients : up[s].fd[kid[k].user] = k
      BY <2>1, <2>3 DEF Owned, OpenKnown
    <3>3. QED
      BY <2>1, <2>3, <3>1, <3>2
  <2>4. QED
    BY <2>2, <2>3
<1>2. QED
  BY <1>1, Invariant, PTL

-----------------------------------------------------------------------------
(* Where the requests are.                                                 *)

\* The request r is in the queue, or in the hand, that is named t and n.
In(t, n, r) ==
  \/ t = "conn" /\ n \in Clients /\ r \in Queued(conn[n])
  \/ t = "userplex" /\ n \in Clients /\ r \in Queued(chsock[n])
  \/ t = "kid" /\ n \in U!Kids /\ r \in Queued(usock[n])
  \/ t = "client" /\ n \in Clients /\ cl[n].hand = r
  \/ t = "server" /\ n \in Clients /\ sv[n].hand = r
  \/ t = "plex" /\ n \in Clients /\ up[n].hand = r
  \/ t = "process" /\ n \in U!Kids /\ (kid[n].hand = r \/ (kid[n].pc = "error" /\ kid[n].req = r /\ fate[r] = "with"))

\* It is in just one of them as long as it is under way.
Single(r) == /\ fate[r] # "twice"
             /\ \A t, n : In(t, n, r) => fate[r] = "with"
             /\ fate[r] = "with" => \E t, n : In(t, n, r)
             /\ \A t, n, u, m : In(t, n, r) /\ In(u, m, r) => t = u /\ n = m
AllSingle == \A r \in Reqs : Single(r)

Distinct(q) == \A i, j \in 1 .. Len(q) : q[i] = q[j] => i = j
Queues == /\ \A p \in Clients : Distinct(conn[p].q) /\ Distinct(chsock[p].q)
          /\ \A k \in U!Kids : Distinct(usock[k].q)

\* A request is in a hand only while something is done with it.
Hands == /\ \A p \in Clients : /\ cl[p].hand # None => cl[p].pc = "send"
                               /\ sv[p].hand # None => sv[p].pc = "send"
                               /\ up[p].hand # None => up[p].pc \in {"find", "send", "resend"}
                               /\ cl[p].pc \in {"off", "connect", "fork"} => sv[p].pc = "none"
         /\ \A k \in U!Kids : kid[k].hand # None => kid[k].pc = "run"

\* The steps that move requests, one for each thing that they may do.
LEMMA Unmoved ==
  ASSUME AllSingle, \A r \in Reqs : fate'[r] = fate[r] /\ \A t, n : In(t, n, r)' <=> In(t, n, r)
  PROVE  AllSingle'
BY DEF AllSingle, Single

LEMMA Moved ==
  ASSUME AllSingle, NEW x \in Reqs, NEW b, NEW j, fate[x] = "with",
         \A r \in Reqs : fate'[r] = fate[r],
         \A r \in Reqs \ {x} : \A t, n : In(t, n, r)' <=> In(t, n, r),
         \A t, n : In(t, n, x)' <=> t = b /\ n = j
  PROVE  AllSingle'
BY DEF AllSingle, Single

LEMMA Removed ==
  ASSUME AllSingle, NEW gone,
         \A r \in Reqs : IF r \in gone THEN fate'[r] \notin {"with", "twice"} ELSE fate'[r] = fate[r],
         \A r \in Reqs : \A t, n : In(t, n, r)' <=> In(t, n, r) /\ r \notin gone
  PROVE  AllSingle'
BY DEF AllSingle, Single

LEMMA Added ==
  ASSUME AllSingle, NEW x \in Reqs, NEW b, NEW j, fate'[x] = "with",
         \A r \in Reqs \ {x} : fate'[r] = fate[r] /\ \A t, n : In(t, n, r)' <=> In(t, n, r),
         \A t, n : In(t, n, x)' <=> t = b /\ n = j
  PROVE  AllSingle'
BY DEF AllSingle, Single

LEMMA SameQueued ==
  /\ \A s : P!Queued(s) = Queued(s) /\ U!Queued(s) = Queued(s)
  /\ \A s : P!AtEnd(s) = AtEnd(s) /\ U!AtEnd(s) = AtEnd(s) /\ P!Refuses(s) = Refuses(s) /\ U!Refuses(s) = Refuses(s)
  /\ \A s : P!Readable(s) = Readable(s) /\ U!Readable(s) = Readable(s)
BY DEF P!Queued, U!Queued, Queued, P!ToSet, U!ToSet, ToSet, P!AtEnd, U!AtEnd, AtEnd, P!Refuses, U!Refuses, Refuses,
       P!Readable, U!Readable, Readable

\* What the operations on a socket do to what is queued.
LEMMA QueueOps ==
  ASSUME NEW s \in Sock, Distinct(s.q)
  PROVE  /\ Queued(s) \subseteq Reqs
         /\ s.q = <<>> <=> Queued(s) = {}
         /\ Finish(s).q = s.q /\ Queued(Finish(s)) = Queued(s)
         /\ Leave(s).q = <<>> /\ Queued(Leave(s)) = {} /\ Distinct(<<>>)
         /\ s.q # <<>> => /\ Head(s.q) \in Queued(s)
                          /\ Queued(Take(s)) = Queued(s) \ {Head(s.q)}
                          /\ Distinct(Take(s).q)
         /\ \A r \in Reqs : /\ Queued(Put(s, r)) = Queued(s) \cup {r}
                            /\ Put(s, r).q # <<>>
                            /\ Head(Put(s, r).q) = IF s.q = <<>> THEN r ELSE Head(s.q)
                            /\ r \notin Queued(s) => Distinct(Put(s, r).q)
<1>0. s.q \in Seq(Reqs) /\ Len(s.q) \in Nat /\ DOMAIN s.q = 1 .. Len(s.q)
  BY DEF Sock, Queue
<1>e. \A q \in Seq(Reqs) : ToSet(q) = {q[i] : i \in 1 .. Len(q)}
  <2> SUFFICES ASSUME NEW q \in Seq(Reqs) PROVE ToSet(q) = {q[i] : i \in 1 .. Len(q)}
    OBVIOUS
  <2>1. DOMAIN q = 1 .. Len(q)
    OBVIOUS
  <2> QED BY <2>1 DEF ToSet
<1>q. \A x \in Sock : Queued(x) = {x.q[i] : i \in 1 .. Len(x.q)}
  BY <1>e DEF Queued, Sock, Queue
<1>1. Queued(s) \subseteq Reqs
  BY <1>0, <1>q
<1>2. s.q = <<>> <=> Queued(s) = {}
  <2>1. s.q = <<>> => Len(s.q) = 0
    OBVIOUS
  <2>2. s.q # <<>> => Len(s.q) >= 1
    BY <1>0
  <2>3. s.q # <<>> => s.q[1] \in Queued(s)
    BY <1>0, <1>q, <2>2
  <2> QED BY <1>q, <2>1, <2>3
<1>3. Finish(s).q = s.q /\ Queued(Finish(s)) = Queued(s)
  BY DEF Finish, Sock, Queued
<1>4. Leave(s).q = <<>> /\ Queued(Leave(s)) = {} /\ Distinct(<<>>)
  BY DEF Leave, Sock, Queued, ToSet, Distinct
<1>5. ASSUME s.q # <<>>
      PROVE  /\ Head(s.q) \in Queued(s)
             /\ Queued(Take(s)) = Queued(s) \ {Head(s.q)}
             /\ Distinct(Take(s).q)
  <2> DEFINE t == Tail(s.q)
  <2>1. Take(s).q = t /\ t \in Seq(Reqs) /\ Len(t) = Len(s.q) - 1 /\ Head(s.q) = s.q[1]
    BY <1>0, <1>5 DEF Take, Sock
  <2>2. \A i \in 1 .. Len(t) : t[i] = s.q[i + 1]
    BY <1>0, <1>5, <2>1
  <2>3. Len(s.q) >= 1
    BY <1>0, <1>5
  <2> HIDE DEF t
  <2>4. Distinct(t)
    BY <1>0, <2>1, <2>2 DEF Distinct
  <2>5. Queued(Take(s)) = {t[i] : i \in 1 .. Len(t)}
    BY <2>1, <1>5, SockOps, <1>q
  <2>6. Head(s.q) \in Queued(s)
    BY <1>0, <1>q, <2>1, <2>3
  <2>7. Queued(Take(s)) \subseteq Queued(s) \ {Head(s.q)}
    <3> SUFFICES ASSUME NEW i \in 1 .. Len(t) PROVE t[i] \in Queued(s) /\ t[i] # Head(s.q)
      BY <2>5
    <3>1. i + 1 \in 1 .. Len(s.q) /\ 1 \in 1 .. Len(s.q) /\ i + 1 # 1 /\ t[i] = s.q[i + 1]
      BY <1>0, <2>1, <2>2, <2>3
    <3>2. s.q[i + 1] # s.q[1]
      BY <3>1 DEF Distinct
    <3> QED BY <1>q, <2>1, <3>1, <3>2
  <2>8. Queued(s) \ {Head(s.q)} \subseteq Queued(Take(s))
    <3> SUFFICES ASSUME NEW i \in 1 .. Len(s.q), s.q[i] # s.q[1] PROVE s.q[i] \in Queued(Take(s))
      BY <1>q, <2>1
    <3>1. i - 1 \in 1 .. Len(t)
      BY <1>0, <2>1
    <3>2. t[i - 1] = s.q[i]
      BY <2>2, <3>1
    <3> QED BY <2>5, <3>1, <3>2
  <2> QED BY <2>1, <2>4, <2>6, <2>7, <2>8
<1>6. ASSUME NEW r \in Reqs
      PROVE  /\ Queued(Put(s, r)) = Queued(s) \cup {r}
             /\ Put(s, r).q # <<>>
             /\ Head(Put(s, r).q) = IF s.q = <<>> THEN r ELSE Head(s.q)
             /\ r \notin Queued(s) => Distinct(Put(s, r).q)
  <2> DEFINE a == Append(s.q, r)
  <2>1. /\ Put(s, r).q = a /\ a \in Seq(Reqs) /\ Len(a) = Len(s.q) + 1
        /\ a[Len(a)] = r /\ \A i \in 1 .. Len(s.q) : a[i] = s.q[i]
    BY <1>0 DEF Put, Sock
  <2>2. Queued(Put(s, r)) = {a[i] : i \in 1 .. Len(a)}
    BY <1>e, <2>1 DEF Queued
  <2>3. s.q = <<>> => Len(s.q) = 0
    BY <1>0
  <2>4. s.q # <<>> => Len(s.q) >= 1
    BY <1>0
  <2>5. Head(a) = a[1] /\ a # <<>> /\ (s.q # <<>> => Head(s.q) = s.q[1])
    <3>1. Len(<<>>) = 0
      OBVIOUS
    <3>2. Len(a) # 0
      <4> HIDE DEF a
      <4> QED BY <1>0, <2>1
    <3>3. a # <<>>
      <4> HIDE DEF a
      <4> QED BY <3>1, <3>2
    <3>4. Head(a) = a[1] /\ Head(s.q) = s.q[1]
      OBVIOUS
    <3> QED BY <3>3, <3>4
  <2> HIDE DEF a
  <2>6. Head(a) = IF s.q = <<>> THEN r ELSE Head(s.q)
    BY <1>0, <2>1, <2>3, <2>4, <2>5
  <2>7. r \in {a[i] : i \in 1 .. Len(a)}
    BY <1>0, <2>1
  <2>8. {a[i] : i \in 1 .. Len(a)} = Queued(s) \cup {r}
    <3>1. ASSUME NEW i \in 1 .. Len(a) PROVE a[i] \in Queued(s) \cup {r}
      BY <1>0, <1>q, <2>1
    <3>2. ASSUME NEW i \in 1 .. Len(s.q) PROVE s.q[i] \in {a[j] : j \in 1 .. Len(a)}
      BY <1>0, <2>1
    <3> QED BY <1>q, <2>7, <3>1, <3>2
  <2>9. r \notin Queued(s) => Distinct(a)
    BY <1>0, <1>q, <2>1 DEF Distinct
  <2> QED BY <2>1, <2>2, <2>5, <2>6, <2>8, <2>9
<1> QED BY <1>1, <1>2, <1>3, <1>4, <1>5, <1>6

\* The steps of a client.  A request is lost, at most.
Loses == \A r \in Reqs : fate'[r] = fate[r] \/ fate'[r] = "lost" \/ (fate[r] = "new" /\ fate'[r] = "with")
PipeHands == \A p \in Clients : /\ cl[p].hand # None => cl[p].pc = "send"
                                /\ sv[p].hand # None => sv[p].pc = "send"
                                /\ cl[p].pc \in {"off", "connect", "fork"} => sv[p].pc = "none"
NotNew == \A k \in U!Kids : kid[k].pc = "error" => fate[kid[k].req] # "new"

LEMMA LoseDoes ==
  ASSUME Types, NEW rs
  PROVE  \A r \in Reqs : Lose(fate, rs)[r] = IF r \in rs THEN "lost" ELSE fate[r]
BY DEF Types, Lose

LEMMA ClientMoves ==
  ASSUME Types, AllSingle, Queues, Hands, NotNew, NEW p \in Clients, UNCHANGED plex,
         \/ P!ClientStep(p) \/ P!Start(p) \/ P!ForkFails(p) \/ P!ClientEof(p)
         \/ \E r \in Reqs : P!ClientRecv(p, r)
  PROVE  AllSingle' /\ Queues' /\ PipeHands' /\ Loses
<1>a. /\ None \notin Reqs
      /\ cl \in ClientType /\ DOMAIN cl = Clients /\ sv \in ServerType /\ DOMAIN sv = Clients
      /\ conn \in [Clients -> Sock] /\ chsock \in [Clients -> Sock]
      /\ fate \in [Reqs -> {"new", "with", "answered", "lost", "twice"}]
      /\ UNCHANGED <<up, kid, usock, kids>>
  BY SharedAssumption DEF Types, PipeOK, ClientType, ServerType, plex
<1>1. ASSUME UNCHANGED <<fate, conn, chsock>>,
             \A q \in Clients : cl'[q].hand = cl[q].hand /\ sv'[q].hand = sv[q].hand
                                /\ (cl[q].hand # None => cl'[q].pc = "send")
                                /\ (sv[q].hand # None => sv'[q].pc = "send")
                                /\ (cl'[q].pc \in {"off", "connect", "fork"} => sv'[q].pc = "none")
      PROVE  AllSingle' /\ Queues' /\ PipeHands' /\ Loses
  <2>1. \A r \in Reqs : \A t, n : In(t, n, r)' <=> In(t, n, r)
    BY <1>a, <1>1 DEF In
  <2> QED BY <1>a, <1>1, <2>1, Unmoved DEF Queues, PipeHands, Loses
<1>2. CASE P!Start(p) \/ P!ForkFails(p) \/ P!NotThere(p) \/ P!WaitServer(p)
  <2>1. PICK x \in ClientPcs : cl' = [cl EXCEPT ![p].pc = x]
    BY <1>2, <1>a DEF P!Start, P!ForkFails, P!NotThere, P!WaitServer, ClientPcs
  <2>2. UNCHANGED <<fate, conn, sv, chsock>> /\ cl[p].pc # "send"
    BY <1>2 DEF P!Start, P!ForkFails, P!NotThere, P!WaitServer
  <2>3. \A q \in Clients : cl'[q].hand = cl[q].hand /\ (q # p => cl'[q] = cl[q])
    BY <1>a, <2>1 DEF ClientType
  <2>4. cl'[p].pc \in {"off", "connect", "fork"} => cl[p].pc \in {"off", "connect", "fork"}
    BY <1>2, <1>a DEF P!Start, P!ForkFails, P!NotThere, P!WaitServer, ClientType
  <2> QED BY <1>1, <2>2, <2>3, <2>4 DEF Hands
<1>3. CASE P!Connect(p)
  <2>1. /\ path \in Clients /\ sv' = [sv EXCEPT ![path].back = @ \cup {p}]
        /\ cl' = [cl EXCEPT ![p].pc = "recv"] /\ cl[p].pc # "send" /\ UNCHANGED <<fate, conn, chsock>>
    BY <1>3 DEF P!Connect, Types, PipeOK
  <2>2. \A q \in Clients : sv'[q].hand = sv[q].hand /\ sv'[q].pc = sv[q].pc
    BY <1>a, <2>1 DEF ServerType, ServerRec
  <2>3. \A q \in Clients : cl'[q].hand = cl[q].hand /\ (q # p => cl'[q] = cl[q])
    BY <1>a, <2>1 DEF ClientType
  <2>4. cl'[p].pc = "recv"
    BY <1>a, <2>1 DEF ClientType
  <2> QED BY <1>1, <2>1, <2>2, <2>3, <2>4 DEF Hands
<1>4. CASE P!ForkServer(p)
  <2>1. /\ sv' = [sv EXCEPT ![p].pc = "stat"]
        /\ cl' = [cl EXCEPT ![p].pc = "wait"] /\ cl[p].pc # "send" /\ UNCHANGED <<fate, conn, chsock>>
    BY <1>4 DEF P!ForkServer
  <2>2. \A q \in Clients : sv'[q].hand = sv[q].hand /\ (q # p => sv'[q] = sv[q])
    BY <1>a, <2>1 DEF ServerType, ServerRec
  <2>3. \A q \in Clients : cl'[q].hand = cl[q].hand /\ (q # p => cl'[q] = cl[q])
    BY <1>a, <2>1 DEF ClientType
  <2>4. sv[p].hand = None /\ cl'[p].pc = "wait"
    BY <1>4, <1>a, <2>1 DEF P!ForkServer, Hands, ClientType
  <2> QED BY <1>1, <2>1, <2>2, <2>3, <2>4 DEF Hands
<1>5. ASSUME NEW x \in Reqs, P!ClientRecv(p, x) PROVE AllSingle' /\ Queues' /\ PipeHands' /\ Loses
  <2>1. /\ cl' = [cl EXCEPT ![p] = [pc |-> "send", hand |-> x]] /\ fate[x] = "new"
        /\ fate' = [fate EXCEPT ![x] = "with"] /\ cl[p].hand = None
        /\ UNCHANGED <<conn, sv, chsock>>
    BY <1>5 DEF P!ClientRecv, Hands
  <2>2. cl'[p].pc = "send" /\ cl'[p].hand = x /\ \A q \in Clients : q # p => cl'[q] = cl[q]
    BY <1>a, <2>1 DEF ClientType
  <2>3. fate'[x] = "with" /\ \A r \in Reqs \ {x} : fate'[r] = fate[r]
    BY <1>a, <2>1
  <2>4. \A t, n : ~In(t, n, x)
    BY <2>1 DEF AllSingle, Single
  <2>5. ASSUME NEW r \in Reqs \ {x}, NEW t, NEW n PROVE In(t, n, r)' <=> In(t, n, r)
    BY <1>a, <2>1, <2>2, <2>3 DEF In
  <2>6. ASSUME NEW t, NEW n PROVE In(t, n, x)' <=> t = "client" /\ n = p
    <3>1. t = "process" /\ n \in U!Kids => ~(kid[n].pc = "error" /\ kid[n].req = x)
      BY <2>1 DEF NotNew
    <3> QED BY <1>a, <2>1, <2>2, <2>4, <3>1 DEF In
  <2>7. AllSingle'
    BY <2>3, <2>5, <2>6, Added
  <2>8. Queues' /\ PipeHands' /\ Loses
    BY <1>a, <2>1, <2>2, <2>3 DEF Queues, PipeHands, Hands, Loses
  <2> QED BY <2>7, <2>8
<1>6. ASSUME NEW rs, P!ClientEnds(p, rs),
             (cl[p].hand = None /\ rs = {}) \/ (cl[p].hand \in Reqs /\ rs = {cl[p].hand})
      PROVE  AllSingle' /\ Queues' /\ PipeHands' /\ Loses
  <2>1. /\ cl' = [cl EXCEPT ![p] = [pc |-> "ended", hand |-> None]]
        /\ conn' = [conn EXCEPT ![p] = Finish(@)]
        /\ fate' = Lose(fate, rs)
        /\ UNCHANGED <<sv, chsock>>
    BY <1>6, Same DEF P!ClientEnds
  <2>2. \A r \in Reqs : fate'[r] = IF r \in rs THEN "lost" ELSE fate[r]
    BY <2>1, LoseDoes
  <2>3. \A q \in Clients : conn'[q].q = conn[q].q /\ Queued(conn'[q]) = Queued(conn[q])
    BY <1>a, <2>1, QueueOps DEF Queues
  <2>4. cl'[p].pc = "ended" /\ cl'[p].hand = None /\ \A q \in Clients : q # p => cl'[q] = cl[q]
    BY <1>a, <2>1 DEF ClientType
  <2>5. ASSUME NEW r \in Reqs, NEW t, NEW n PROVE In(t, n, r)' <=> In(t, n, r) /\ r \notin rs
    <3>1. CASE r \notin rs
      BY <1>a, <1>6, <2>1, <2>2, <2>3, <2>4, <3>1 DEF In
    <3>2. CASE r \in rs
      <4>1. In("client", p, r)
        BY <1>6, <3>2 DEF In
      <4>2. In(t, n, r) => t = "client" /\ n = p
        BY <4>1 DEF AllSingle, Single
      <4>3. ~In(t, n, r)'
        BY <1>a, <1>6, <2>1, <2>2, <2>3, <2>4, <3>2, <4>2 DEF In
      <4> QED BY <3>2, <4>3
    <3> QED BY <3>1, <3>2
  <2>6. AllSingle'
    BY <2>2, <2>5, Removed
  <2>7. Queues'
    BY <1>a, <2>1, <2>3 DEF Queues
  <2>8. PipeHands' /\ Loses
    BY <2>1, <2>2, <2>4 DEF PipeHands, Hands, Loses
  <2> QED BY <2>6, <2>7, <2>8
<1>7. CASE P!ClientSend(p)
  <2>0. PICK x \in Reqs : x = cl[p].hand
    BY <1>7 DEF P!ClientSend, Types
  <2>1. /\ cl[p].pc = "send" /\ Fits(conn[p])
        /\ conn' = [conn EXCEPT ![p] = Put(@, x)]
        /\ cl' = [cl EXCEPT ![p] = [pc |-> "recv", hand |-> None]]
        /\ UNCHANGED <<fate, sv, chsock>>
    BY <1>7, <2>0, Same DEF P!ClientSend
  <2>2. In("client", p, x)
    BY <2>0 DEF In
  <2>3. \A t, n : In(t, n, x) => t = "client" /\ n = p
    BY <2>1, <2>2 DEF AllSingle, Single
  <2>4. x \notin Queued(conn[p])
    BY <2>3 DEF In
  <2>5. /\ conn'[p] = Put(conn[p], x) /\ \A q \in Clients : q # p => conn'[q] = conn[q]
        /\ cl'[p].pc = "recv" /\ cl'[p].hand = None /\ \A q \in Clients : q # p => cl'[q] = cl[q]
    BY <1>a, <2>1 DEF ClientType
  <2>6. Queued(conn'[p]) = Queued(conn[p]) \cup {x} /\ Distinct(conn'[p].q)
    BY <1>a, <2>1, <2>4, <2>5, QueueOps DEF Queues
  <2>7. ASSUME NEW r \in Reqs \ {x}, NEW t, NEW n PROVE In(t, n, r)' <=> In(t, n, r)
    BY <1>a, <2>0, <2>1, <2>5, <2>6 DEF In
  <2>8. ASSUME NEW t, NEW n PROVE In(t, n, x)' <=> t = "conn" /\ n = p
    <3>1. In(t, n, x) => t = "client" /\ n = p
      BY <2>3
    <3>2. t = "conn" /\ n = p => In(t, n, x)'
      BY <2>6 DEF In
    <3>3. In(t, n, x)' => In(t, n, x) \/ (t = "conn" /\ n = p)
      BY <1>a, <2>1, <2>5 DEF In
    <3>4. ~In("client", p, x)'
      BY <1>a, <2>1, <2>5 DEF In
    <3> QED BY <3>1, <3>2, <3>3, <3>4
  <2>9. AllSingle'
    <3>1. \A r \in Reqs : fate'[r] = fate[r]
      BY <2>1
    <3>2. \A r \in Reqs \ {x} : \A t, n : In(t, n, r)' <=> In(t, n, r)
      BY <2>7
    <3>3. \A t, n : In(t, n, x)' <=> t = "conn" /\ n = p
      BY <2>8
    <3>4. fate[x] = "with"
      BY <2>0, <2>2 DEF AllSingle, Single
    <3> QED BY <2>0, <3>1, <3>2, <3>3, <3>4, Moved
  <2>10. Queues' /\ PipeHands' /\ Loses
    BY <1>a, <2>1, <2>5, <2>6 DEF Queues, PipeHands, Hands, Loses
  <2> QED BY <2>9, <2>10
<1>8. CASE P!ClientEof(p) \/ P!ClientFails(p)
  <2>1. CASE P!ClientEof(p)
    BY <1>6, <2>1 DEF P!ClientEof, Hands
  <2>2. CASE P!ClientFails(p)
    BY <1>6, <2>2 DEF P!ClientFails, Types
  <2> QED BY <1>8, <2>1, <2>2
<1> QED BY <1>2, <1>3, <1>4, <1>5, <1>7, <1>8 DEF P!ClientStep

\* The steps of a server.
LEMMA ServerMoves ==
  ASSUME Types, AllSingle, Queues, Hands, NEW s \in Clients, UNCHANGED plex,
         P!ServerStep(s) \/ P!MkChildFails(s) \/ P!KillServer(s)
  PROVE  AllSingle' /\ Queues' /\ PipeHands' /\ Loses
<1>a. /\ None \notin Reqs
      /\ cl \in ClientType /\ DOMAIN cl = Clients /\ sv \in ServerType /\ DOMAIN sv = Clients
      /\ conn \in [Clients -> Sock] /\ chsock \in [Clients -> Sock]
      /\ fate \in [Reqs -> {"new", "with", "answered", "lost", "twice"}]
      /\ UNCHANGED <<up, kid, usock, kids>>
  BY SharedAssumption DEF Types, PipeOK, ClientType, ServerType, plex
<1>b. sv[s].pc # "none" /\ cl' = cl /\ (sv[s].pc # "send" => sv[s].hand = None)
  <2>1. sv[s].pc # "send" => sv[s].hand = None
    BY DEF Hands
  <2>2. sv[s].pc # "none" /\ cl' = cl
    BY DEF P!ServerStep, P!MkChildFails, P!KillServer, P!ServerEnds, P!Serving, P!Stat, P!Unlink, P!Bind, P!BindFails,
           P!Listen, P!MkChild, P!Poll, P!ClientsRead, P!Accept, P!SendChild, P!ChildGone, P!ReadClient, P!DropClient
  <2> QED BY <2>1, <2>2
\* The server's own record may change in any way that keeps the hand empty.
<1>c. ASSUME \A q \in Clients : q # s => sv'[q] = sv[q],
             sv'[s].hand # None => sv'[s].pc = "send", sv'[s].pc # "none"
      PROVE  PipeHands'
  BY <1>a, <1>b, <1>c DEF Hands, PipeHands
<1>1. ASSUME UNCHANGED <<fate, conn, chsock>>, sv[s].hand = None, sv'[s].hand = None, sv'[s].pc # "none",
             \A q \in Clients : q # s => sv'[q] = sv[q]
      PROVE  AllSingle' /\ Queues' /\ PipeHands' /\ Loses
  <2>1. \A r \in Reqs : \A t, n : In(t, n, r)' <=> In(t, n, r)
    BY <1>a, <1>b, <1>1 DEF In
  <2> QED BY <1>a, <1>c, <1>1, <2>1, Unmoved DEF Queues, Loses
<1>2. ASSUME P!ServerEnds(s) PROVE AllSingle' /\ Queues' /\ PipeHands' /\ Loses
  <2> DEFINE drops == sv[s].cls \cup sv[s].back
             lost == ({sv[s].hand} \ {None}) \cup UNION {Queued(conn[p]) : p \in drops}
  <2>0. PICK dropped, gone : dropped = drops /\ gone = lost
    OBVIOUS
  <2>1. /\ sv' = [sv EXCEPT ![s] = [pc |-> "ended", back |-> {}, cls |-> {}, in |-> {}, acc |-> FALSE, hand |-> None]]
        /\ conn' = [p \in Clients |-> IF p \in dropped THEN Leave(conn[p]) ELSE conn[p]]
        /\ fate' = Lose(fate, gone)
        /\ chsock' = [chsock EXCEPT ![s] = Finish(@)]
    BY <1>2, <2>0, Same, SameQueued DEF P!ServerEnds
  <2>2. /\ sv'[s].hand = None /\ sv'[s].pc = "ended"
        /\ \A q \in Clients : q # s => sv'[q] = sv[q]
    BY <1>a, <2>1
  <2>3. \A p \in Clients : /\ p \in dropped => Queued(conn'[p]) = {} /\ Distinct(conn'[p].q)
                           /\ p \notin dropped => conn'[p] = conn[p]
    BY <1>a, <2>1, QueueOps DEF Queues
  <2>4. \A q \in Clients : chsock'[q].q = chsock[q].q /\ Queued(chsock'[q]) = Queued(chsock[q])
    BY <1>a, <2>1, QueueOps DEF Queues
  <2>5. \A r \in Reqs : fate'[r] = IF r \in gone THEN "lost" ELSE fate[r]
    BY <2>1, LoseDoes
  <2>6. dropped \subseteq Clients
    BY <1>a, <2>0 DEF ServerType, ServerRec
  <2>7. ASSUME NEW r \in Reqs, NEW t, NEW n PROVE In(t, n, r)' <=> In(t, n, r) /\ r \notin gone
    <3>1. CASE r \notin gone
      <4>1. r # sv[s].hand /\ \A p \in dropped : r \notin Queued(conn[p])
        BY <1>a, <2>0, <3>1
      <4>2. \A p \in Clients : r \in Queued(conn'[p]) <=> r \in Queued(conn[p])
        BY <2>3, <4>1
      <4>3. \A p \in Clients : sv'[p].hand = r <=> sv[p].hand = r
        BY <1>a, <2>2, <4>1
      <4> QED BY <1>a, <1>b, <2>4, <2>5, <3>1, <4>2, <4>3 DEF In
    <3>2. CASE r \in gone
      <4>1. sv[s].hand = r \/ \E p \in dropped : r \in Queued(conn[p])
        BY <2>0, <3>2
      <4>2. CASE sv[s].hand = r
        <5>1. In("server", s, r)
          BY <4>2 DEF In
        <5>2. In(t, n, r) => t = "server" /\ n = s
          BY <5>1 DEF AllSingle, Single
        <5>3. In(t, n, r)' => In(t, n, r)
          BY <1>a, <1>b, <2>2, <2>3, <2>4, <2>5, <3>2 DEF In
        <5>4. ~In("server", s, r)'
          BY <1>a, <2>2 DEF In
        <5> QED BY <3>2, <5>2, <5>3, <5>4
      <4>3. ASSUME NEW p \in dropped, r \in Queued(conn[p]) PROVE ~In(t, n, r)'
        <5>1. In("conn", p, r)
          BY <2>6, <4>3 DEF In
        <5>2. In(t, n, r) => t = "conn" /\ n = p
          BY <5>1 DEF AllSingle, Single
        <5>3. In(t, n, r)' => In(t, n, r)
          BY <1>a, <1>b, <2>2, <2>3, <2>4, <2>5, <3>2 DEF In
        <5>4. ~In("conn", p, r)'
          BY <2>3, <2>6 DEF In
        <5> QED BY <5>2, <5>3, <5>4
      <4> QED BY <3>2, <4>1, <4>2, <4>3
    <3> QED BY <3>1, <3>2
  <2>8. AllSingle'
    BY <2>5, <2>7, Removed
  <2>9. Queues'
    BY <1>a, <2>3, <2>4 DEF Queues
  <2>10. PipeHands' /\ Loses
    BY <1>c, <2>2, <2>5 DEF Loses
  <2> QED BY <2>8, <2>9, <2>10
<1>3. CASE P!Stat(s) \/ P!Unlink(s) \/ P!Bind(s) \/ P!Listen(s) \/ P!MkChild(s) \/ P!ClientsRead(s)
  <2>1. PICK x \in ServerPcs \ {"none"} : sv' = [sv EXCEPT ![s].pc = x]
    BY <1>3 DEF P!Stat, P!Unlink, P!Bind, P!Listen, P!MkChild, P!ClientsRead, ServerPcs
  <2>2. sv[s].pc # "send" /\ UNCHANGED <<fate, conn, chsock>>
    BY <1>3 DEF P!Stat, P!Unlink, P!Bind, P!Listen, P!MkChild, P!ClientsRead
  <2>3. sv'[s].pc = x /\ sv'[s].hand = sv[s].hand /\ \A q \in Clients : q # s => sv'[q] = sv[q]
    BY <1>a, <2>1 DEF ServerType, ServerRec
  <2> QED BY <1>b, <1>1, <2>2, <2>3
<1>4. CASE P!Poll(s) \/ P!Accept(s)
  <2>1. sv[s].pc # "send" /\ UNCHANGED <<fate, conn, chsock>>
    BY <1>4 DEF P!Poll, P!Accept
  <2>2. sv'[s].pc # "none" /\ sv'[s].hand = sv[s].hand /\ \A q \in Clients : q # s => sv'[q] = sv[q]
    <3>1. CASE P!Poll(s)
      BY <1>a, <3>1 DEF P!Poll, ServerType, ServerRec
    <3>2. CASE P!Accept(s)
      <4>1. PICK p \in sv[s].back : sv' = [sv EXCEPT ![s].pc = "poll", ![s].acc = FALSE, ![s].back = @ \ {p},
                                                    ![s].cls = @ \cup {p}]
        BY <3>2 DEF P!Accept
      <4> QED BY <1>a, <4>1 DEF ServerType, ServerRec
    <3> QED BY <1>4, <3>1, <3>2
  <2> QED BY <1>b, <1>1, <2>1, <2>2
<1>5. ASSUME NEW p \in Clients, P!ReadClient(s, p) PROVE AllSingle' /\ Queues' /\ PipeHands' /\ Loses
  <2>0. conn[p].q # <<>> /\ sv[s].pc = "clients" /\ UNCHANGED <<fate, chsock>>
    BY <1>5 DEF P!ReadClient
  <2>1. PICK x \in Reqs : x = Head(conn[p].q)
    BY <1>a, <2>0, SockOps
  <2>2. conn' = [conn EXCEPT ![p] = Take(@)] /\ sv' = [sv EXCEPT ![s].pc = "send", ![s].in = @ \ {p}, ![s].hand = x]
    BY <1>5, <2>1, Same DEF P!ReadClient
  <2>3. In("conn", p, x)
    BY <1>a, <2>0, <2>1, QueueOps DEF In, Queues
  <2>4. /\ conn'[p] = Take(conn[p]) /\ \A q \in Clients : q # p => conn'[q] = conn[q]
        /\ sv'[s].pc = "send" /\ sv'[s].hand = x /\ \A q \in Clients : q # s => sv'[q] = sv[q]
    BY <1>a, <2>2 DEF ServerType, ServerRec
  <2>5. Queued(conn'[p]) = Queued(conn[p]) \ {x} /\ Distinct(conn'[p].q)
    BY <1>a, <2>0, <2>1, <2>4, QueueOps DEF Queues
  <2>6. ASSUME NEW r \in Reqs \ {x}, NEW t, NEW n PROVE In(t, n, r)' <=> In(t, n, r)
    BY <1>a, <1>b, <2>0, <2>4, <2>5 DEF In
  <2>7. ASSUME NEW t, NEW n PROVE In(t, n, x)' <=> t = "server" /\ n = s
    <3>1. In(t, n, x) => t = "conn" /\ n = p
      BY <2>3 DEF AllSingle, Single
    <3>2. t = "server" /\ n = s => In(t, n, x)'
      BY <2>4 DEF In
    <3>3. In(t, n, x)' => In(t, n, x) \/ (t = "server" /\ n = s)
      BY <1>a, <1>b, <2>0, <2>4, <2>5 DEF In
    <3>4. ~In("conn", p, x)'
      BY <2>5 DEF In
    <3> QED BY <3>1, <3>2, <3>3, <3>4
  <2>8. AllSingle'
    <3>1. \A r \in Reqs : fate'[r] = fate[r]
      BY <2>0
    <3>2. \A r \in Reqs \ {x} : \A t, n : In(t, n, r)' <=> In(t, n, r)
      BY <2>6
    <3>3. \A t, n : In(t, n, x)' <=> t = "server" /\ n = s
      BY <2>7
    <3>4. fate[x] = "with"
      BY <2>1, <2>3 DEF AllSingle, Single
    <3> QED BY <2>1, <3>1, <3>2, <3>3, <3>4, Moved
  <2>9. Queues' /\ Loses
    BY <1>a, <2>0, <2>4, <2>5 DEF Queues, Loses
  <2> QED BY <1>c, <2>4, <2>8, <2>9
<1>6. ASSUME NEW p \in Clients, P!DropClient(s, p) PROVE AllSingle' /\ Queues' /\ PipeHands' /\ Loses
  <2>1. /\ sv[s].pc = "clients" /\ conn[p].q = <<>> /\ UNCHANGED <<fate, chsock>>
        /\ conn' = [conn EXCEPT ![p] = Leave(@)]
        /\ sv' = [sv EXCEPT ![s].in = @ \ {p}, ![s].cls = @ \ {p}]
    BY <1>6, Same, SameQueued DEF P!DropClient, AtEnd
  <2>2. /\ conn'[p] = Leave(conn[p]) /\ \A q \in Clients : q # p => conn'[q] = conn[q]
        /\ sv'[s].pc = "clients" /\ sv'[s].hand = sv[s].hand /\ \A q \in Clients : q # s => sv'[q] = sv[q]
    BY <1>a, <2>1 DEF ServerType, ServerRec
  <2>3. Queued(conn'[p]) = {} /\ Queued(conn[p]) = {} /\ Distinct(conn'[p].q)
    BY <1>a, <2>1, <2>2, QueueOps DEF Queues
  <2>4. \A q \in Clients : sv'[q].hand = sv[q].hand /\ Queued(conn'[q]) = Queued(conn[q])
    BY <2>2, <2>3
  <2>5. \A r \in Reqs : \A t, n : In(t, n, r)' <=> In(t, n, r)
    BY <1>a, <1>b, <2>1, <2>4 DEF In
  <2> QED BY <1>a, <1>b, <1>c, <2>1, <2>2, <2>3, <2>5, Unmoved DEF Queues, Loses
<1>7. CASE P!SendChild(s)
  <2>0. PICK x \in Reqs : x = sv[s].hand
    BY <1>7 DEF P!SendChild, Types
  <2>1. /\ UNCHANGED <<fate, conn>> /\ Fits(chsock[s])
        /\ chsock' = [chsock EXCEPT ![s] = Put(@, x)]
        /\ sv' = [sv EXCEPT ![s].pc = "clients", ![s].hand = None]
    BY <1>7, <2>0, Same DEF P!SendChild
  <2>2. In("server", s, x)
    BY <2>0 DEF In
  <2>3. \A t, n : In(t, n, x) => t = "server" /\ n = s
    BY <2>0, <2>2 DEF AllSingle, Single
  <2>4. x \notin Queued(chsock[s])
    BY <2>3 DEF In
  <2>5. /\ chsock'[s] = Put(chsock[s], x) /\ \A q \in Clients : q # s => chsock'[q] = chsock[q]
        /\ sv'[s].pc = "clients" /\ sv'[s].hand = None /\ \A q \in Clients : q # s => sv'[q] = sv[q]
    BY <1>a, <2>1 DEF ServerType, ServerRec
  <2>6. Queued(chsock'[s]) = Queued(chsock[s]) \cup {x} /\ Distinct(chsock'[s].q)
    BY <1>a, <2>0, <2>4, <2>5, QueueOps DEF Queues
  <2>7. ASSUME NEW r \in Reqs \ {x}, NEW t, NEW n PROVE In(t, n, r)' <=> In(t, n, r)
    BY <1>a, <1>b, <2>0, <2>1, <2>5, <2>6 DEF In
  <2>8. ASSUME NEW t, NEW n PROVE In(t, n, x)' <=> t = "userplex" /\ n = s
    <3>1. In(t, n, x) => t = "server" /\ n = s
      BY <2>3
    <3>2. t = "userplex" /\ n = s => In(t, n, x)'
      BY <2>6 DEF In
    <3>3. In(t, n, x)' => In(t, n, x) \/ (t = "userplex" /\ n = s)
      BY <1>a, <1>b, <2>1, <2>5, <2>6 DEF In
    <3>4. ~In("server", s, x)'
      BY <1>a, <2>5 DEF In
    <3> QED BY <3>1, <3>2, <3>3, <3>4
  <2>9. AllSingle'
    <3>1. \A r \in Reqs : fate'[r] = fate[r]
      BY <2>1
    <3>2. \A r \in Reqs \ {x} : \A t, n : In(t, n, r)' <=> In(t, n, r)
      BY <2>7
    <3>3. \A t, n : In(t, n, x)' <=> t = "userplex" /\ n = s
      BY <2>8
    <3>4. fate[x] = "with"
      BY <2>0, <2>2 DEF AllSingle, Single
    <3> QED BY <2>0, <3>1, <3>2, <3>3, <3>4, Moved
  <2>10. Queues' /\ Loses
    BY <1>a, <2>1, <2>5, <2>6 DEF Queues, Loses
  <2> QED BY <1>c, <2>5, <2>9, <2>10
<1>8. CASE P!BindFails(s) \/ P!ChildGone(s) \/ P!MkChildFails(s) \/ P!KillServer(s)
  BY <1>2, <1>8 DEF P!BindFails, P!ChildGone, P!MkChildFails, P!KillServer
<1> QED BY <1>3, <1>4, <1>5, <1>6, <1>7, <1>8 DEF P!ServerStep

-----------------------------------------------------------------------------
(* The processes that wait with the request that they were forked for.     *)

Starter(k) == kid[k].pc \in {"login", "exec", "discard", "error"}

\* The request that a process was forked for is on its way to it, is the first in its queue, or is
\* lost with userplex, which has then closed the socket.
Given(k) ==
  \/ /\ usock[k].q = <<>>
     /\ \E s \in Clients : /\ up[s].pc \in {"send", "resend"} /\ up[s].hand = kid[k].req
                           /\ up[s].fd[UserOf[kid[k].req]] = k
  \/ usock[k].q # <<>> /\ Head(usock[k].q) = kid[k].req
  \/ usock[k].q = <<>> /\ usock[k].snd = FALSE /\ fate[kid[k].req] = "lost"

Forks == \A k \in U!Kids : /\ Starter(k) => kid[k].req \in Reqs
                           /\ kid[k].pc = "error" => fate[kid[k].req] \in {"with", "lost"}
                           /\ kid[k].pc \in {"login", "exec", "discard"} => Given(k)
Numbers == \A k \in U!Kids : /\ usock[k].rcv = "gone" <=> kid[k].pc = "ended"
                             /\ k > kids => kid[k].pc = "none"
                             /\ kid[k].pc = "none" => usock[k].q = <<>>
Apart == \A k, i \in U!Kids : i # k /\ Starter(k) /\ Starter(i) => kid[i].req # kid[k].req
\* No process has a request of another user.
Mine == \A k \in U!Kids : /\ \A r \in Queued(usock[k]) : kid[k].user = UserOf[r]
                          /\ kid[k].hand # None => kid[k].user = UserOf[kid[k].hand]
Starters == Forks /\ Numbers /\ Apart /\ Mine

Whole == Types /\ Owned /\ AllSingle /\ Queues /\ Hands /\ Starters

\* The steps of a server and a client leave them alone.
LEMMA PipeStarters ==
  ASSUME Whole, UNCHANGED plex, Loses
  PROVE  Starters'
<1>a. UNCHANGED <<up, kid, usock, kids>>
  BY DEF plex
<1>1. Numbers' /\ Apart' /\ Mine'
  BY <1>a DEF Whole, Starters, Numbers, Apart, Mine, Starter
<1>2. Forks'
  <2> SUFFICES ASSUME NEW k \in U!Kids
               PROVE  /\ Starter(k) => kid[k].req \in Reqs
                      /\ kid[k].pc = "error" => fate'[kid[k].req] \in {"with", "lost"}
                      /\ kid[k].pc \in {"login", "exec", "discard"} => Given(k)'
    BY <1>a DEF Forks, Starter
  <2>1. Starter(k) => kid[k].req \in Reqs
    BY DEF Whole, Starters, Forks
  <2>2. ASSUME kid[k].pc = "error" PROVE fate'[kid[k].req] \in {"with", "lost"}
    BY <2>1, <2>2 DEF Whole, Starters, Forks, Loses, Starter
  <2>3. ASSUME kid[k].pc \in {"login", "exec", "discard"} PROVE Given(k)'
    <3>1. fate[kid[k].req] = "lost" => fate'[kid[k].req] = "lost"
      BY <2>1, <2>3 DEF Loses, Starter
    <3> QED BY <1>a, <2>3, <3>1 DEF Whole, Starters, Forks, Given
  <2> QED BY <2>1, <2>2, <2>3
<1> QED BY <1>1, <1>2 DEF Starters

\* A request goes from one place to another, or out of one.
LEMMA Onto ==
  ASSUME AllSingle, NEW x \in Reqs, NEW b, NEW j, NEW c, NEW i, In(b, j, x), ~In(b, j, x)', In(c, i, x)',
         \A r \in Reqs : fate'[r] = fate[r],
         \A r \in Reqs \ {x} : \A t, n : In(t, n, r)' <=> In(t, n, r),
         \A t, n : In(t, n, x)' => In(t, n, x) \/ (t = c /\ n = i)
  PROVE  AllSingle'
<1>1. fate[x] = "with" /\ \A t, n : In(t, n, x) => t = b /\ n = j
  BY DEF AllSingle, Single
<1>2. \A t, n : In(t, n, x)' <=> t = c /\ n = i
  BY <1>1
<1> QED BY <1>1, <1>2, Moved

LEMMA OutOf ==
  ASSUME AllSingle, NEW x \in Reqs, NEW b, NEW j, In(b, j, x), ~In(b, j, x)', fate'[x] \notin {"with", "twice"},
         \A r \in Reqs \ {x} : fate'[r] = fate[r] /\ \A t, n : In(t, n, r)' <=> In(t, n, r),
         \A t, n : In(t, n, x)' => In(t, n, x)
  PROVE  AllSingle'
<1>1. \A t, n : In(t, n, x) => t = b /\ n = j
  BY DEF AllSingle, Single
<1>2. \A t, n : ~In(t, n, x)'
  BY <1>1
<1>3. \A r \in Reqs : \A t, n : In(t, n, r)' <=> In(t, n, r) /\ r \notin {x}
  BY <1>2
<1> QED BY <1>3, Removed

-----------------------------------------------------------------------------
(* The steps of userplex.                                                  *)

PlexHands == /\ \A p \in Clients : up[p].hand # None => up[p].pc \in {"find", "send", "resend"}
             /\ \A k \in U!Kids : kid[k].hand # None => kid[k].pc = "run"

\* What the state of one userplex becomes.
Becomes(s, x, h) == /\ up'[s].pc = x /\ up'[s].hand = h
                    /\ \A t \in Clients \ {s} : up'[t] = up[t]

\* A process that was not there has nothing in its hand, and a new one nothing either.
LEMMA ForkChildMoves ==
  ASSUME Types, Hands, Numbers, NEW s \in Clients, NEW next \in UpPcs, up[s].hand \in Reqs, U!ForkChild(s, next)
  PROVE  /\ Becomes(s, next, up[s].hand)
         /\ \A k \in U!Kids : /\ kid'[k].hand = kid[k].hand
                              /\ kid'[k].pc = "error" <=> kid[k].pc = "error"
                              /\ kid'[k].pc = "run" <=> kid[k].pc = "run"
                              /\ kid[k].pc = "error" => kid'[k] = kid[k]
<1>1. /\ up \in UpType /\ kid \in KidType /\ kids \in 0 .. MaxKid /\ MaxKid \in Nat /\ U!Kids = 1 .. MaxKid
      /\ U!User(s) \in Users
  BY SharedAssumption DEF Types, PlexOK, U!User, U!Kids
<1>u. PICK u \in Users : u = U!User(s)
  BY <1>1
<1>e. up \in UpType /\ MaxKid \in Nat
  BY <1>1
<1>2. CASE /\ kids < MaxKid /\ kids' = kids + 1
           /\ kid' = [kid EXCEPT ![kids + 1] = [pc |-> "login", req |-> up[s].hand, hand |-> None, user |-> U!User(s)]]
           /\ up' = [up EXCEPT ![s].pc = next, ![s].fd[U!User(s)] = kids + 1]
  <2>1. kids + 1 \in U!Kids /\ kids + 1 \in 0 .. MaxKid
    BY <1>1, <1>2
  <2>n. PICK n \in 0 .. MaxKid : n = kids + 1
    BY <2>1
  <2>2. up' = Entry(s, next, u, n)
    BY <1>2, <1>u, <2>n DEF Entry
  <2>3. up'[s].pc = next /\ up'[s].hand = up[s].hand /\ \A t \in Clients \ {s} : up'[t] = up[t]
    <3>1. up'[s].hand = up[s].hand /\ \A t \in Clients \ {s} : up'[t] = up[t]
      <4>1. /\ Entry(s, next, u, n)[s].fd = [up[s].fd EXCEPT ![u] = n]
            /\ Entry(s, next, u, n)[s].hand = up[s].hand
            /\ \A t \in Clients \ {s} : Entry(s, next, u, n)[t] = up[t]
        BY <1>e, UpEntry
      <4> QED BY <2>2, <4>1
    <3>2. up'[s].pc = next
      BY <1>1, <1>2 DEF UpType, UpRec
    <3> QED BY <3>1, <3>2
  <2>4. /\ kid'[kids + 1] = [pc |-> "login", req |-> up[s].hand, hand |-> None, user |-> U!User(s)]
        /\ \A k \in U!Kids \ {kids + 1} : kid'[k] = kid[k]
    BY <1>1, <1>2, <2>1 DEF KidType
  <2>5. kid[kids + 1].pc = "none" /\ kid[kids + 1].hand = None
    BY <1>1, <2>1 DEF Numbers, Hands
  <2> QED BY <2>1, <2>3, <2>4, <2>5 DEF Becomes
<1>3. CASE up' = [up EXCEPT ![s].pc = next, ![s].fd[U!User(s)] = 0] /\ UNCHANGED <<kid, kids>>
  <2>1. 0 \in 0 .. MaxKid
    BY <1>1
  <2>2. up' = Entry(s, next, u, 0)
    BY <1>3, <1>u DEF Entry
  <2>3. up'[s].hand = up[s].hand /\ \A t \in Clients \ {s} : up'[t] = up[t]
    <3>1. /\ Entry(s, next, u, 0)[s].fd = [up[s].fd EXCEPT ![u] = 0]
          /\ Entry(s, next, u, 0)[s].hand = up[s].hand
          /\ \A t \in Clients \ {s} : Entry(s, next, u, 0)[t] = up[t]
      BY <1>e, <2>1, UpEntry
    <3> QED BY <2>2, <3>1
  <2>4. up'[s].pc = next
    BY <1>1, <1>3 DEF UpType, UpRec
  <2> QED BY <1>3, <2>3, <2>4 DEF Becomes
<1>4. CASE /\ kids < MaxKid /\ UNCHANGED kid
           /\ up' = [up EXCEPT ![s].pc = next, ![s].fd[U!User(s)] = 0, ![s].leaks = @ \cup {kids + 1}]
  <2>1. kids + 1 \in U!Kids
    BY <1>1, <1>4
  <2>2. up' = Leaked(s, next, u, kids + 1)
    BY <1>4, <1>u DEF Leaked
  <2>m. PICK n \in U!Kids : n = kids + 1
    BY <2>1
  <2>3. up'[s].pc = next /\ up'[s].hand = up[s].hand /\ \A t \in Clients \ {s} : up'[t] = up[t]
    <3>1. up' = Leaked(s, next, u, n)
      BY <2>2, <2>m
    <3>2. up'[s].hand = up[s].hand /\ \A t \in Clients \ {s} : up'[t] = up[t]
      BY <1>1, <1>4, <2>1 DEF UpType, UpRec
    <3>3. up'[s].pc = next
      BY <1>1, <1>4 DEF UpType, UpRec
    <3> QED BY <3>2, <3>3
  <2> QED BY <1>4, <2>3 DEF Becomes
<1> QED BY <1>2, <1>3, <1>4 DEF U!ForkChild

LEMMA AnswerDoes ==
  ASSUME Types, NEW x \in Reqs, fate[x] = "with", U!Answer(x)
  PROVE  fate'[x] = "answered" /\ \A r \in Reqs \ {x} : fate'[r] = fate[r]
BY DEF Types, U!Answer

LEMMA UserplexMoves ==
  ASSUME Whole, NEW s \in Clients, UNCHANGED pipe, U!UserplexStep(s) \/ U!SendError(s) \/ U!KillUserplex(s)
  PROVE  AllSingle' /\ Queues' /\ PlexHands'
<1> USE DEF Whole
<1>a. /\ None \notin Reqs
      /\ up \in UpType /\ DOMAIN up = Clients /\ kid \in KidType /\ usock \in [U!Kids -> Sock]
      /\ conn \in [Clients -> Sock] /\ chsock \in [Clients -> Sock]
      /\ fate \in [Reqs -> {"new", "with", "answered", "lost", "twice"}]
      /\ UNCHANGED <<cl, conn, sv>>
  BY SharedAssumption DEF Types, PlexOK, UpType, pipe
<1>b. /\ up[s].pc \in {"find", "send", "resend"} => up[s].hand \in Reqs
      /\ up[s].hand # None => up[s].pc \in {"find", "send", "resend"}
  BY DEF Types, Hands
\* The hand is emptied.
<1>c. ASSUME Becomes(s, "recv", None) \/ Becomes(s, "ended", None), UNCHANGED kid PROVE PlexHands'
  BY <1>c DEF PlexHands, Hands, Becomes
<1>d. ASSUME NEW x \in Reqs, x = up[s].hand, Becomes(s, "recv", None), UNCHANGED <<chsock, kid>>,
             \A k \in U!Kids : usock'[k].q = usock[k].q, fate'[x] \notin {"with", "twice"},
             \A r \in Reqs \ {x} : fate'[r] = fate[r]
      PROVE  AllSingle' /\ Queues' /\ PlexHands'
  <2>1. In("plex", s, x) /\ ~In("plex", s, x)'
    BY <1>a, <1>d DEF In, Becomes
  <2>2. ASSUME NEW r \in Reqs \ {x}, NEW t, NEW n PROVE In(t, n, r)' <=> In(t, n, r)
    BY <1>a, <1>d DEF In, Becomes, Queued
  <2>3. ASSUME NEW t, NEW n PROVE In(t, n, x)' => In(t, n, x)
    BY <1>a, <1>d DEF In, Becomes, Queued
  <2>4. AllSingle'
    <3>1. \A r \in Reqs \ {x} : fate'[r] = fate[r] /\ \A t, n : In(t, n, r)' <=> In(t, n, r)
      BY <1>d, <2>2
    <3>2. \A t, n : In(t, n, x)' => In(t, n, x)
      BY <2>3
    <3> QED BY <1>d, <2>1, <3>1, <3>2, OutOf
  <2>5. Queues'
    BY <1>a, <1>d DEF Queues
  <2> QED BY <1>c, <1>d, <2>4, <2>5
<1>e. ASSUME up[s].hand \in Reqs PROVE fate[up[s].hand] = "with"
  <2>1. PICK x \in Reqs : x = up[s].hand
    BY <1>e
  <2>2. In("plex", s, x)
    BY <2>1 DEF In
  <2> QED BY <2>1, <2>2 DEF AllSingle, Single
<1>1. CASE U!Recv(s)
  <2>0. up[s].pc = "recv" /\ chsock[s].q # <<>> /\ UNCHANGED <<fate, kid, usock>> /\ up[s].hand = None
    BY <1>1, <1>b DEF U!Recv
  <2>1. PICK x \in Reqs : x = Head(chsock[s].q)
    BY <1>a, <2>0, SockOps
  <2>2. chsock' = [chsock EXCEPT ![s] = Take(@)] /\ up' = [up EXCEPT ![s].pc = "find", ![s].hand = x]
    BY <1>1, <2>1, Same DEF U!Recv
  <2>3. /\ chsock'[s] = Take(chsock[s]) /\ \A q \in Clients : q # s => chsock'[q] = chsock[q]
        /\ up'[s].pc = "find" /\ up'[s].hand = x /\ \A q \in Clients : q # s => up'[q] = up[q]
    BY <1>a, <2>2 DEF UpType, UpRec
  <2>4. Queued(chsock'[s]) = Queued(chsock[s]) \ {x} /\ Distinct(chsock'[s].q) /\ x \in Queued(chsock[s])
    BY <1>a, <2>0, <2>1, <2>3, QueueOps DEF Queues
  <2>5. In("userplex", s, x) /\ ~In("userplex", s, x)' /\ In("plex", s, x)'
    BY <1>a, <2>3, <2>4 DEF In
  <2>6. ASSUME NEW r \in Reqs \ {x}, NEW t, NEW n PROVE In(t, n, r)' <=> In(t, n, r)
    BY <1>a, <2>0, <2>3, <2>4 DEF In
  <2>7. ASSUME NEW t, NEW n PROVE In(t, n, x)' => In(t, n, x) \/ (t = "plex" /\ n = s)
    BY <1>a, <2>0, <2>3, <2>4 DEF In
  <2>8. AllSingle'
    <3>1. \A r \in Reqs \ {x} : \A t, n : In(t, n, r)' <=> In(t, n, r)
      BY <2>6
    <3>2. \A t, n : In(t, n, x)' => In(t, n, x) \/ (t = "plex" /\ n = s)
      BY <2>7
    <3>3. \A r \in Reqs : fate'[r] = fate[r]
      BY <2>0
    <3> QED BY <2>1, <2>5, <3>1, <3>2, <3>3, Onto
  <2>9. Queues' /\ PlexHands'
    BY <1>a, <2>0, <2>3, <2>4 DEF Queues, PlexHands, Hands
  <2> QED BY <2>8, <2>9
<1>2. CASE U!Refuse(s) \/ U!TooBusy(s)
  <2>1. PICK x \in Reqs : x = up[s].hand
    BY <1>2, <1>b DEF U!Refuse, U!TooBusy
  <2>2. up' = [up EXCEPT ![s].pc = "recv", ![s].hand = None] /\ UNCHANGED <<chsock, kid, usock>>
    BY <1>2 DEF U!Refuse, U!TooBusy, U!Served
  <2>3. Becomes(s, "recv", None)
    BY <1>a, <2>2 DEF UpType, UpRec, Becomes
  <2>4. fate'[x] \notin {"with", "twice"} /\ \A r \in Reqs \ {x} : fate'[r] = fate[r]
    <3>1. CASE U!Refuse(s)
      BY <1>e, <2>1, <3>1, AnswerDoes DEF U!Refuse
    <3>2. CASE U!TooBusy(s)
      <4>1. fate' = Lose(fate, {x})
        BY <2>1, <3>2, Same DEF U!TooBusy
      <4> QED BY <4>1, LoseDoes
    <3> QED BY <1>2, <3>1, <3>2
  <2> QED BY <1>d, <2>1, <2>2, <2>3, <2>4
<1>3. CASE U!Find(s) \/ U!Restart(s)
  <2>1. up[s].hand \in Reqs /\ UNCHANGED <<fate, chsock>>
    BY <1>3, <1>b DEF U!Find, U!Restart
  <2>2. \A k \in U!Kids : usock'[k].q = usock[k].q
    <3>1. CASE U!Find(s)
      BY <3>1 DEF U!Find
    <3>2. CASE U!Restart(s)
      <4>1. U!Fd(s) \in U!Kids
        BY <2>1, <3>2, EntryOf, SharedAssumption DEF U!Restart, U!Fd, U!User
      <4>2. usock' = [usock EXCEPT ![U!Fd(s)] = Finish(@)]
        BY <3>2, Same DEF U!Restart
      <4> QED BY <1>a, <4>1, <4>2, QueueOps DEF Queues
    <3> QED BY <1>3, <3>1, <3>2
  <2>3. /\ \E x \in {"send", "resend"} : Becomes(s, x, up[s].hand)
        /\ \A k \in U!Kids : /\ kid'[k].hand = kid[k].hand
                             /\ kid'[k].pc = "error" <=> kid[k].pc = "error"
                             /\ kid'[k].pc = "run" <=> kid[k].pc = "run"
                             /\ kid[k].pc = "error" => kid'[k] = kid[k]
    <3>1. CASE up' = [up EXCEPT ![s].pc = "send"] /\ UNCHANGED kid
      BY <1>a, <3>1 DEF Becomes, UpType, UpRec
    <3>2. ASSUME NEW next \in {"send", "resend"}, U!ForkChild(s, next)
          PROVE  /\ Becomes(s, next, up[s].hand)
                 /\ \A k \in U!Kids : /\ kid'[k].hand = kid[k].hand
                                      /\ kid'[k].pc = "error" <=> kid[k].pc = "error"
                                      /\ kid'[k].pc = "run" <=> kid[k].pc = "run"
                                      /\ kid[k].pc = "error" => kid'[k] = kid[k]
      <4>1. next \in UpPcs /\ Numbers
        BY DEF UpPcs, Starters
      <4> QED BY <2>1, <3>2, <4>1, ForkChildMoves
    <3> QED BY <1>3, <3>1, <3>2 DEF U!Find, U!Restart
  <2>4. \A t \in Clients : up'[t].hand = up[t].hand
    BY <2>3 DEF Becomes
  <2>5. \A r \in Reqs : \A t, n : In(t, n, r)' <=> In(t, n, r)
    BY <1>a, <2>1, <2>2, <2>3, <2>4 DEF In, Queued
  <2>6. AllSingle'
    BY <2>1, <2>5, Unmoved
  <2>7. Queues' /\ PlexHands'
    BY <1>a, <2>1, <2>2, <2>3 DEF Queues, PlexHands, Hands, Becomes
  <2> QED BY <2>6, <2>7
<1>4. CASE U!Sent(s)
  <2>0. PICK x \in Reqs : x = up[s].hand
    BY <1>4, <1>b DEF U!Sent
  <2>1. PICK k \in U!Kids : k = U!Fd(s)
    BY <1>4, <2>0, EntryOf, SharedAssumption DEF U!Sent, U!Fd, U!User
  <2>2. /\ UNCHANGED <<fate, chsock, kid>> /\ usock' = [usock EXCEPT ![k] = Put(@, x)]
        /\ up' = [up EXCEPT ![s].pc = "recv", ![s].hand = None]
    BY <1>4, <2>0, <2>1, Same DEF U!Sent, U!Served
  <2>3. Becomes(s, "recv", None) /\ usock'[k] = Put(usock[k], x) /\ \A i \in U!Kids : i # k => usock'[i] = usock[i]
    BY <1>a, <2>2 DEF UpType, UpRec, Becomes
  <2>4. In("plex", s, x)
    BY <2>0 DEF In
  <2>5. x \notin Queued(usock[k])
    <3>1. ~In("kid", k, x)
      BY <2>4 DEF AllSingle, Single
    <3> QED BY <3>1 DEF In
  <2>6. Queued(usock'[k]) = Queued(usock[k]) \cup {x} /\ Distinct(usock'[k].q)
    BY <1>a, <2>3, <2>5, QueueOps DEF Queues
  <2>7. ~In("plex", s, x)' /\ In("kid", k, x)'
    BY <1>a, <2>3, <2>6 DEF In, Becomes
  <2>8. ASSUME NEW r \in Reqs \ {x}, NEW t, NEW n PROVE In(t, n, r)' <=> In(t, n, r)
    BY <1>a, <2>0, <2>2, <2>3, <2>6 DEF In, Becomes
  <2>9. ASSUME NEW t, NEW n PROVE In(t, n, x)' => In(t, n, x) \/ (t = "kid" /\ n = k)
    BY <1>a, <2>0, <2>2, <2>3, <2>6 DEF In, Becomes
  <2>10. AllSingle'
    <3>1. \A r \in Reqs \ {x} : \A t, n : In(t, n, r)' <=> In(t, n, r)
      BY <2>8
    <3>2. \A t, n : In(t, n, x)' => In(t, n, x) \/ (t = "kid" /\ n = k)
      BY <2>9
    <3>3. \A r \in Reqs : fate'[r] = fate[r]
      BY <2>2
    <3> QED BY <2>0, <2>4, <2>7, <3>1, <3>2, <3>3, Onto
  <2>11. Queues'
    BY <1>a, <2>2, <2>3, <2>6 DEF Queues
  <2> QED BY <1>c, <2>2, <2>3, <2>10, <2>11
<1>5. CASE U!GiveUp(s) \/ U!SendError(s)
  <2>0. U!Drop(s) /\ up[s].pc \in {"send", "resend"}
    BY <1>5 DEF U!GiveUp, U!SendError
  <2>1. PICK x \in Reqs : x = up[s].hand
    BY <2>0, <1>b
  <2>2. PICK u \in Users : u = U!User(s)
    BY <2>1, SharedAssumption DEF U!User
  <2>3. U!Fd(s) = up[s].fd[u] /\ UNCHANGED <<chsock, kid>> /\ fate' = Lose(fate, {x})
    BY <2>0, <2>1, <2>2, Same DEF U!Fd, U!Drop
  <2>4. \A k \in U!Kids : usock'[k].q = usock[k].q
    <3>1. CASE U!Fd(s) = 0
      BY <2>0, <3>1 DEF U!Drop
    <3>2. CASE U!Fd(s) # 0
      <4>1. U!Fd(s) \in U!Kids
        BY <2>3, <3>2, EntryOf
      <4>2. usock' = [usock EXCEPT ![U!Fd(s)] = Finish(@)]
        BY <2>0, <3>2, Same DEF U!Drop
      <4> QED BY <1>a, <4>1, <4>2, QueueOps DEF Queues
    <3> QED BY <3>1, <3>2
  <2>5. Becomes(s, "recv", None)
    <3>1. up' = [[up EXCEPT ![s].pc = "recv", ![s].hand = None] EXCEPT ![s].fd[u] = 0]
      BY <2>0, <2>2 DEF U!Drop, U!Served
    <3> QED BY <1>a, <3>1 DEF UpType, UpRec, Becomes
  <2>6. fate'[x] \notin {"with", "twice"} /\ \A r \in Reqs \ {x} : fate'[r] = fate[r]
    BY <2>3, LoseDoes
  <2> QED BY <1>d, <2>1, <2>3, <2>4, <2>5, <2>6
<1>6. CASE U!UserplexEnds(s)
  <2>0. PICK gone : gone = ({up[s].hand} \ {None}) \cup Queued(chsock[s])
    OBVIOUS
  <2>1. /\ fate' = Lose(fate, gone) /\ chsock' = [chsock EXCEPT ![s] = Leave(@)] /\ UNCHANGED kid
        /\ usock' = [k \in U!Kids |-> IF k \in {up[s].fd[u] : u \in Users} \cup up[s].leaks THEN Finish(usock[k])
                                     ELSE usock[k]]
        /\ up' = [up EXCEPT ![s] = [pc |-> "ended", hand |-> None, fd |-> [u \in Users |-> 0], leaks |-> {}]]
    BY <1>6, <2>0, Same, SameQueued DEF U!UserplexEnds
  <2>2. Becomes(s, "ended", None)
    BY <1>a, <2>1 DEF UpType, UpRec, Becomes
  <2>3. \A k \in U!Kids : usock'[k].q = usock[k].q
    BY <1>a, <2>1, QueueOps DEF Queues
  <2>4. /\ Queued(chsock'[s]) = {} /\ Distinct(chsock'[s].q)
        /\ \A q \in Clients : q # s => chsock'[q] = chsock[q]
    BY <1>a, <2>1, QueueOps DEF Queues
  <2>5. \A r \in Reqs : fate'[r] = IF r \in gone THEN "lost" ELSE fate[r]
    BY <2>1, LoseDoes
  <2>6. ASSUME NEW r \in Reqs, NEW t, NEW n PROVE In(t, n, r)' <=> In(t, n, r) /\ r \notin gone
    <3>1. CASE r \notin gone
      <4>1. r # up[s].hand /\ r \notin Queued(chsock[s])
        BY <1>a, <2>0, <3>1
      <4>2. \A p \in Clients : r \in Queued(chsock'[p]) <=> r \in Queued(chsock[p])
        BY <2>4, <4>1
      <4>3. \A p \in Clients : up'[p].hand = r <=> up[p].hand = r
        BY <1>a, <2>2, <4>1 DEF Becomes
      <4> QED BY <1>a, <2>1, <2>3, <2>5, <3>1, <4>2, <4>3 DEF In, Queued
    <3>2. CASE r \in gone
      <4>1. In(t, n, r)' => In(t, n, r)
        BY <1>a, <2>1, <2>2, <2>3, <2>4, <2>5, <3>2 DEF In, Queued, Becomes
      <4>2. CASE r = up[s].hand
        <5>1. In("plex", s, r) /\ ~In("plex", s, r)'
          BY <1>a, <2>2, <4>2 DEF In, Becomes
        <5>2. In(t, n, r) => t = "plex" /\ n = s
          BY <5>1 DEF AllSingle, Single
        <5> QED BY <3>2, <4>1, <5>1, <5>2
      <4>3. CASE r \in Queued(chsock[s])
        <5>1. In("userplex", s, r) /\ ~In("userplex", s, r)'
          BY <2>4, <4>3 DEF In
        <5>2. In(t, n, r) => t = "userplex" /\ n = s
          BY <5>1 DEF AllSingle, Single
        <5> QED BY <3>2, <4>1, <5>1, <5>2
      <4> QED BY <2>0, <3>2, <4>2, <4>3
    <3> QED BY <3>1, <3>2
  <2>7. AllSingle'
    BY <2>5, <2>6, Removed
  <2>8. Queues'
    BY <1>a, <2>3, <2>4 DEF Queues
  <2> QED BY <1>c, <2>1, <2>2, <2>7, <2>8
<1> QED BY <1>1, <1>2, <1>3, <1>4, <1>5, <1>6 DEF U!UserplexStep, U!KillUserplex, U!InputOver

-----------------------------------------------------------------------------
(* The steps of the processes of users.                                    *)

\* What the state of one process becomes.
Turns(k, x, h) == /\ kid'[k].pc = x /\ kid'[k].hand = h /\ kid'[k].req = kid[k].req /\ kid'[k].user = kid[k].user
                  /\ \A i \in U!Kids \ {k} : kid'[i] = kid[i]

LEMMA KidTurns ==
  ASSUME kid \in KidType, NEW k \in U!Kids
  PROVE  /\ \A x : kid' = [kid EXCEPT ![k].pc = x] => Turns(k, x, kid[k].hand)
         /\ \A h : kid' = [kid EXCEPT ![k].hand = h] => Turns(k, kid[k].pc, h)
         /\ \A x, h : kid' = [kid EXCEPT ![k].pc = x, ![k].hand = h] => Turns(k, x, h)
<1>1. kid[k] \in KidRec /\ DOMAIN kid = U!Kids
  BY DEF KidType
<1>2. ASSUME NEW x, kid' = [kid EXCEPT ![k].pc = x] PROVE Turns(k, x, kid[k].hand)
  BY <1>1, <1>2 DEF KidRec, Turns
<1>3. ASSUME NEW h, kid' = [kid EXCEPT ![k].hand = h] PROVE Turns(k, kid[k].pc, h)
  BY <1>1, <1>3 DEF KidRec, Turns
<1>4. ASSUME NEW x, NEW h, kid' = [kid EXCEPT ![k].pc = x, ![k].hand = h] PROVE Turns(k, x, h)
  BY <1>1, <1>4 DEF KidRec, Turns
<1> QED BY <1>2, <1>3, <1>4

\* A process that reads what is for its handler was given the request that it was forked for.
LEMMA Discards ==
  ASSUME Whole, NEW k \in U!Kids, kid[k].pc = "discard", Readable(usock[k])
  PROVE  /\ kid[k].req \in Reqs
         /\ \/ usock[k].q # <<>> /\ Head(usock[k].q) = kid[k].req
            \/ usock[k].q = <<>> /\ fate[kid[k].req] = "lost"
<1>1. kid[k].req \in Reqs /\ Given(k)
  BY DEF Whole, Starters, Forks, Starter
<1>2. ASSUME usock[k].q = <<>>,
             NEW s \in Clients, up[s].fd[UserOf[kid[k].req]] = k
      PROVE  FALSE
  <2>1. UserOf[kid[k].req] \in Users /\ k # 0
    BY <1>1, SharedAssumption DEF U!Kids
  <2>2. usock[k].snd = TRUE
    BY <1>2, <2>1, EntryOf DEF Whole
  <2>3. usock[k].rcv = "open"
    BY DEF Whole, Starters, Numbers, Types, Sock
  <2> QED BY <1>2, <2>2, <2>3 DEF Readable, AtEnd
<1> QED BY <1>1, <1>2 DEF Given

LEMMA KidMoves ==
  ASSUME Whole, NEW k \in U!Kids, UNCHANGED pipe, U!KidStep(k) \/ U!KidDies(k)
  PROVE  AllSingle' /\ Queues' /\ PlexHands'
<1> USE DEF Whole
<1>a. /\ None \notin Reqs
      /\ kid \in KidType /\ kid[k].hand \in Reqs \cup {None} /\ usock \in [U!Kids -> Sock]
      /\ conn \in [Clients -> Sock] /\ chsock \in [Clients -> Sock]
      /\ fate \in [Reqs -> {"new", "with", "answered", "lost", "twice"}]
      /\ UNCHANGED <<cl, conn, sv>>
      /\ kid[k].hand # None => kid[k].pc = "run"
  BY SharedAssumption DEF Types, PlexOK, KidType, KidRec, pipe, Hands
<1>b. UNCHANGED <<chsock, up>>
  BY DEF U!KidStep, U!KidDies, U!Login, U!Exec, U!Discard, U!AnswerError, U!HandlerTakes, U!HandlerAnswers, U!HandlerEnds,
         U!Gone
<1>c. ASSUME NEW x, NEW h, Turns(k, x, h), h # None => x = "run" PROVE PlexHands'
  BY <1>b, <1>c DEF PlexHands, Hands, Turns
\* Of all places, those at the process change.
<1>d. ASSUME NEW x, NEW h, Turns(k, x, h), \A i \in U!Kids \ {k} : usock'[i] = usock[i],
             NEW r \in Reqs, fate'[r] = fate[r], NEW t, NEW n, n # k \/ t \notin {"kid", "process"}
      PROVE  In(t, n, r)' <=> In(t, n, r)
  BY <1>a, <1>b, <1>d DEF In, Turns
\* The process is gone, with the requests in `gone'.
<1>e. ASSUME NEW gone, usock' = [usock EXCEPT ![k] = Leave(@)], Turns(k, "ended", None),
             \A r \in Reqs : IF r \in gone THEN fate'[r] \notin {"with", "twice"} ELSE fate'[r] = fate[r],
             \A r \in Reqs : In("kid", k, r) \/ In("process", k, r) => r \in gone,
             \A r \in Reqs : r \in gone => In("kid", k, r) \/ In("process", k, r) \/ fate[r] # "with"
      PROVE  AllSingle' /\ Queues' /\ PlexHands'
  <2>1. /\ Queued(usock'[k]) = {} /\ Distinct(usock'[k].q)
        /\ \A i \in U!Kids \ {k} : usock'[i] = usock[i]
    BY <1>a, <1>e, QueueOps DEF Queues
  <2>2. ASSUME NEW r \in Reqs PROVE ~In("kid", k, r)' /\ ~In("process", k, r)'
    BY <1>a, <1>e, <2>1 DEF In, Turns
  <2>3. ASSUME NEW r \in Reqs, NEW t, NEW n PROVE In(t, n, r)' <=> In(t, n, r) /\ r \notin gone
    <3>1. CASE r \notin gone
      <4>1. CASE n = k /\ t \in {"kid", "process"}
        BY <1>e, <2>2, <3>1, <4>1
      <4>2. CASE n # k \/ t \notin {"kid", "process"}
        BY <1>d, <1>e, <2>1, <3>1, <4>2
      <4> QED BY <4>1, <4>2
    <3>2. CASE r \in gone
      <4>1. In(t, n, r)' => In(t, n, r)
        BY <1>a, <1>b, <1>e, <2>1, <2>2, <3>2 DEF In, Turns
      <4>2. CASE fate[r] # "with"
        <5>1. ~In(t, n, r)
          BY <4>2 DEF AllSingle, Single
        <5> QED BY <3>2, <4>1, <5>1
      <4>3. ASSUME NEW u \in {"kid", "process"}, In(u, k, r) PROVE ~In(t, n, r)'
        <5>1. In(t, n, r) => t = u /\ n = k
          BY <4>3 DEF AllSingle, Single
        <5> QED BY <2>2, <4>1, <5>1
      <4> QED BY <1>e, <3>2, <4>2, <4>3
    <3> QED BY <3>1, <3>2
  <2>4. AllSingle'
    BY <1>e, <2>3, Removed
  <2>5. Queues'
    BY <1>a, <1>b, <2>1 DEF Queues
  <2> QED BY <1>c, <1>e, <2>4, <2>5
<1>q. ASSUME NEW r \in Reqs
      PROVE  /\ In("kid", k, r) <=> r \in Queued(usock[k])
             /\ In("process", k, r) <=> kid[k].hand = r \/ (kid[k].pc = "error" /\ kid[k].req = r /\ fate[r] = "with")
  BY DEF In
<1>1. CASE U!Login(k) \/ U!Exec(k)
  <2>1. PICK x \in {"exec", "run", "discard"} : kid' = [kid EXCEPT ![k].pc = x]
    BY <1>1 DEF U!Login, U!Exec
  <2>2. UNCHANGED <<fate, usock>> /\ kid[k].pc \in {"login", "exec"}
    BY <1>1 DEF U!Login, U!Exec
  <2>3. Turns(k, x, None)
    BY <1>a, <2>1, <2>2, KidTurns
  <2>4. \A r \in Reqs : \A t, n : In(t, n, r)' <=> In(t, n, r)
    BY <1>a, <1>b, <2>2, <2>3 DEF In, Turns
  <2> QED BY <1>a, <1>b, <1>c, <2>2, <2>3, <2>4, Unmoved DEF Queues
<1>2. CASE U!Discard(k)
  <2>0. /\ kid[k].pc = "discard" /\ kid' = [kid EXCEPT ![k].pc = "error"] /\ Readable(usock[k]) /\ kid[k].hand = None
        /\ usock[k].q # <<>> => /\ usock' = [usock EXCEPT ![k] = Take(@)]
                                /\ fate' = Lose(fate, {Head(usock[k].q)} \ {kid[k].req})
        /\ usock[k].q = <<>> => UNCHANGED <<fate, usock>>
    BY <1>2, <1>a, Same, SameQueued DEF U!Discard
  <2>1. PICK x \in Reqs : x = kid[k].req
    BY <2>0, Discards
  <2>2. Turns(k, "error", None)
    BY <1>a, <2>0, KidTurns
  <2>3. CASE usock[k].q # <<>> /\ Head(usock[k].q) = x
    <3>1. usock' = [usock EXCEPT ![k] = Take(@)] /\ \A r \in Reqs : fate'[r] = fate[r]
      <4>1. fate' = Lose(fate, {})
        BY <2>0, <2>1, <2>3
      <4>2. \A r \in Reqs : fate'[r] = IF r \in {} THEN "lost" ELSE fate[r]
        BY <4>1, LoseDoes
      <4> QED BY <2>0, <2>3, <4>2
    <3>2. /\ usock'[k] = Take(usock[k]) /\ \A i \in U!Kids \ {k} : usock'[i] = usock[i]
          /\ x \in Queued(usock[k]) /\ Queued(usock'[k]) = Queued(usock[k]) \ {x} /\ Distinct(usock'[k].q)
      BY <1>a, <2>3, <3>1, QueueOps DEF Queues
    <3>3. In("kid", k, x) /\ ~In("kid", k, x)'
      BY <3>2 DEF In
    <3>4. fate[x] = "with"
      BY <3>3 DEF AllSingle, Single
    <3>5. In("process", k, x)'
      BY <2>1, <2>2, <3>1, <3>4 DEF In, Turns
    <3>6. ASSUME NEW r \in Reqs \ {x}, NEW t, NEW n PROVE In(t, n, r)' <=> In(t, n, r)
      <4>1. CASE n = k /\ t \in {"kid", "process"}
        BY <1>a, <2>0, <2>1, <2>2, <3>2, <4>1 DEF In, Turns
      <4>2. CASE n # k \/ t \notin {"kid", "process"}
        BY <1>d, <2>2, <3>1, <3>2, <4>2
      <4> QED BY <4>1, <4>2
    <3>7. ASSUME NEW t, NEW n PROVE In(t, n, x)' => In(t, n, x) \/ (t = "process" /\ n = k)
      <4>1. CASE n = k /\ t \in {"kid", "process"}
        BY <3>3, <4>1
      <4>2. CASE n # k \/ t \notin {"kid", "process"}
        BY <1>d, <2>2, <3>1, <3>2, <4>2
      <4> QED BY <4>1, <4>2
    <3>8. AllSingle'
      <4>1. \A r \in Reqs \ {x} : \A t, n : In(t, n, r)' <=> In(t, n, r)
        BY <3>6
      <4>2. \A t, n : In(t, n, x)' => In(t, n, x) \/ (t = "process" /\ n = k)
        BY <3>7
      <4> QED BY <3>1, <3>3, <3>5, <4>1, <4>2, Onto
    <3> QED BY <1>a, <1>b, <1>c, <2>2, <3>2, <3>8 DEF Queues
  <2>4. CASE usock[k].q = <<>> /\ fate[x] = "lost"
    <3>1. UNCHANGED <<fate, usock>>
      BY <2>0, <2>4
    <3>2. \A r \in Reqs : \A t, n : In(t, n, r)' <=> In(t, n, r)
      BY <1>a, <1>b, <2>0, <2>1, <2>2, <2>4, <3>1 DEF In, Turns
    <3> QED BY <1>a, <1>b, <1>c, <2>2, <3>1, <3>2, Unmoved DEF Queues
  <2> QED BY <2>0, <2>1, <2>3, <2>4, Discards
<1>3. CASE U!AnswerError(k)
  <2>1. PICK x \in Reqs : x = kid[k].req
    BY <1>3 DEF U!AnswerError, Starters, Forks, Starter
  <2>2. kid[k].pc = "error" /\ fate[x] \in {"with", "lost"} /\ kid[k].hand = None
    BY <1>3, <1>a, <2>1 DEF U!AnswerError, Starters, Forks
  <2> DEFINE f == [fate EXCEPT ![x] = "answered"]
  <2>3. /\ kid' = [kid EXCEPT ![k].pc = "ended", ![k].hand = None]
        /\ usock' = [usock EXCEPT ![k] = Leave(@)]
        /\ fate' = Lose(f, Queued(usock[k]))
    BY <1>3, <2>1, <2>2, Same, SameQueued DEF U!AnswerError, U!Gone
  <2>4. x \notin Queued(usock[k])
    <3>1. fate[x] = "with" => In("process", k, x)
      BY <1>q, <2>1, <2>2
    <3>2. ~In("kid", k, x)
      BY <3>1, <2>2 DEF AllSingle, Single
    <3> QED BY <1>q, <3>2
  <2>5. PICK gone : gone = {x} \cup Queued(usock[k])
    OBVIOUS
  <2>6. \A r \in Reqs : IF r \in gone THEN fate'[r] \notin {"with", "twice"} ELSE fate'[r] = fate[r]
    BY <1>a, <2>3, <2>4, <2>5 DEF Lose
  <2>7. \A r \in Reqs : In("kid", k, r) \/ In("process", k, r) => r \in gone
    BY <1>a, <1>q, <2>1, <2>2, <2>5
  <2>8. \A r \in Reqs : r \in gone => In("kid", k, r) \/ In("process", k, r) \/ fate[r] # "with"
    BY <1>q, <2>1, <2>2, <2>5
  <2>9. Turns(k, "ended", None)
    BY <1>a, <2>3, KidTurns
  <2> QED BY <1>e, <2>3, <2>6, <2>7, <2>8, <2>9
<1>4. CASE U!HandlerTakes(k)
  <2>0. kid[k].pc = "run" /\ kid[k].hand = None /\ usock[k].q # <<>> /\ UNCHANGED fate
    BY <1>4 DEF U!HandlerTakes
  <2>1. PICK x \in Reqs : x = Head(usock[k].q)
    BY <1>a, <2>0, SockOps
  <2>2. usock' = [usock EXCEPT ![k] = Take(@)] /\ kid' = [kid EXCEPT ![k].hand = x]
    BY <1>4, <2>1, Same DEF U!HandlerTakes
  <2>3. Turns(k, "run", x)
    BY <1>a, <2>0, <2>2, KidTurns
  <2>4. /\ usock'[k] = Take(usock[k]) /\ \A i \in U!Kids \ {k} : usock'[i] = usock[i]
        /\ x \in Queued(usock[k]) /\ Queued(usock'[k]) = Queued(usock[k]) \ {x} /\ Distinct(usock'[k].q)
    BY <1>a, <2>0, <2>1, <2>2, QueueOps DEF Queues
  <2>5. In("kid", k, x) /\ ~In("kid", k, x)' /\ In("process", k, x)'
    BY <2>3, <2>4 DEF In, Turns
  <2>6. ASSUME NEW r \in Reqs \ {x}, NEW t, NEW n PROVE In(t, n, r)' <=> In(t, n, r)
    <3>1. CASE n = k /\ t \in {"kid", "process"}
      BY <1>a, <2>0, <2>3, <2>4, <3>1 DEF In, Turns
    <3>2. CASE n # k \/ t \notin {"kid", "process"}
      BY <1>d, <2>0, <2>3, <2>4, <3>2
    <3> QED BY <3>1, <3>2
  <2>7. ASSUME NEW t, NEW n PROVE In(t, n, x)' => In(t, n, x) \/ (t = "process" /\ n = k)
    <3>1. CASE n = k /\ t \in {"kid", "process"}
      BY <2>5, <3>1
    <3>2. CASE n # k \/ t \notin {"kid", "process"}
      BY <1>d, <2>0, <2>3, <2>4, <3>2
    <3> QED BY <3>1, <3>2
  <2>8. AllSingle'
    <3>1. \A r \in Reqs \ {x} : \A t, n : In(t, n, r)' <=> In(t, n, r)
      BY <2>6
    <3>2. \A t, n : In(t, n, x)' => In(t, n, x) \/ (t = "process" /\ n = k)
      BY <2>7
    <3>3. \A r \in Reqs : fate'[r] = fate[r]
      BY <2>0
    <3> QED BY <2>5, <3>1, <3>2, <3>3, Onto
  <2> QED BY <1>a, <1>b, <1>c, <2>3, <2>4, <2>8 DEF Queues
<1>5. CASE U!HandlerAnswers(k)
  <2>1. PICK x \in Reqs : x = kid[k].hand
    BY <1>5, <1>a DEF U!HandlerAnswers
  <2>2. kid[k].pc = "run" /\ UNCHANGED usock /\ kid' = [kid EXCEPT ![k].hand = None] /\ U!Answer(x)
    BY <1>5, <2>1 DEF U!HandlerAnswers
  <2>3. Turns(k, "run", None)
    BY <1>a, <2>2, KidTurns
  <2>4. In("process", k, x) /\ ~In("process", k, x)'
    BY <1>a, <2>1, <2>2, <2>3 DEF In, Turns
  <2>5. fate'[x] = "answered" /\ \A r \in Reqs \ {x} : fate'[r] = fate[r]
    BY <2>2, <2>4, AnswerDoes DEF AllSingle, Single
  <2>6. ASSUME NEW r \in Reqs \ {x}, NEW t, NEW n PROVE In(t, n, r)' <=> In(t, n, r)
    <3>1. CASE n = k /\ t \in {"kid", "process"}
      BY <1>a, <2>1, <2>2, <2>3, <3>1 DEF In, Turns
    <3>2. CASE n # k \/ t \notin {"kid", "process"}
      BY <1>d, <2>2, <2>3, <2>5, <3>2
    <3> QED BY <3>1, <3>2
  <2>7. ASSUME NEW t, NEW n PROVE In(t, n, x)' => In(t, n, x)
    BY <1>a, <1>b, <2>2, <2>3, <2>5 DEF In, Turns
  <2>8. AllSingle'
    <3>1. \A r \in Reqs \ {x} : fate'[r] = fate[r] /\ \A t, n : In(t, n, r)' <=> In(t, n, r)
      BY <2>5, <2>6
    <3>2. \A t, n : In(t, n, x)' => In(t, n, x)
      BY <2>7
    <3>3. fate'[x] \notin {"with", "twice"}
      BY <2>5
    <3> QED BY <2>4, <3>1, <3>2, <3>3, OutOf
  <2> QED BY <1>a, <1>b, <1>c, <2>2, <2>3, <2>8 DEF Queues
<1>6. CASE U!HandlerEnds(k) \/ U!KidDies(k)
  <2>1. PICK gone : gone = ({kid[k].hand} \ {None}) \cup Queued(usock[k])
    OBVIOUS
  <2>2. kid[k].pc # "error"
    BY <1>6 DEF U!HandlerEnds, U!KidDies
  <2>3. /\ kid' = [kid EXCEPT ![k].pc = "ended", ![k].hand = None]
        /\ usock' = [usock EXCEPT ![k] = Leave(@)]
    BY <1>6, Same DEF U!HandlerEnds, U!KidDies, U!Gone
  <2>4. \A r \in Reqs : fate'[r] = IF r \in gone THEN "lost" ELSE fate[r]
    <3>1. CASE U!HandlerEnds(k)
      <4>1. gone = Queued(usock[k]) /\ fate' = Lose(fate, Queued(usock[k]))
        BY <2>1, <3>1, Same, SameQueued DEF U!HandlerEnds, U!Gone
      <4> QED BY <4>1, LoseDoes
    <3>2. CASE U!KidDies(k)
      <4>1. fate' = Lose(Lose(fate, {kid[k].hand} \ {None}), Queued(usock[k]))
        BY <3>2, Same, SameQueued DEF U!KidDies, U!Gone
      <4> QED BY <1>a, <2>1, <4>1 DEF Lose
    <3> QED BY <1>6, <3>1, <3>2
  <2>5. \A r \in Reqs : IF r \in gone THEN fate'[r] \notin {"with", "twice"} ELSE fate'[r] = fate[r]
    BY <2>4
  <2>6. \A r \in Reqs : In("kid", k, r) \/ In("process", k, r) => r \in gone
    BY <1>a, <1>q, <2>1, <2>2
  <2>7. \A r \in Reqs : r \in gone => In("kid", k, r) \/ In("process", k, r) \/ fate[r] # "with"
    BY <1>q, <2>1
  <2>8. Turns(k, "ended", None)
    BY <1>a, <2>3, KidTurns
  <2> QED BY <1>e, <2>3, <2>5, <2>6, <2>7, <2>8
<1> QED BY <1>1, <1>2, <1>3, <1>4, <1>5, <1>6 DEF U!KidStep

-----------------------------------------------------------------------------
(* The processes that wait, when userplex takes a step.                    *)

LEMMA StayGiven ==
  ASSUME NEW k \in U!Kids, Given(k), kid'[k].req = kid[k].req, usock'[k].q = usock[k].q,
         usock[k].snd = FALSE => usock'[k].snd = FALSE,
         fate[kid[k].req] = "lost" => fate'[kid[k].req] = "lost",
         \A s \in Clients : /\ usock[k].q = <<>> /\ up[s].pc \in {"send", "resend"} /\ up[s].hand = kid[k].req
                            /\ up[s].fd[UserOf[kid[k].req]] = k
                            => up'[s] = up[s]
  PROVE  Given(k)'
BY DEF Given

\* A request in the hand of userplex is no other's, if its process is not there or gone.
LEMMA NoOther ==
  ASSUME Whole, NEW s \in Clients, up[s].hand \in Reqs, NEW i \in U!Kids, Starter(i),
         up[s].pc = "find" \/ (up[s].pc = "send" /\ (U!Fd(s) = 0 \/ usock[U!Fd(s)].rcv = "gone"))
  PROVE  kid[i].req # up[s].hand
<1> SUFFICES ASSUME kid[i].req = up[s].hand PROVE FALSE
  OBVIOUS
<1> USE DEF Whole
<1>0. PICK x \in Reqs : x = up[s].hand
  OBVIOUS
<1>1. In("plex", s, x)
  BY <1>0 DEF In
<1>2. fate[x] = "with" /\ \A t, n : In(t, n, x) => t = "plex" /\ n = s
  BY <1>1 DEF AllSingle, Single
<1>3. CASE kid[i].pc = "error"
  <2>1. In("process", i, x)
    BY <1>0, <1>2, <1>3 DEF In
  <2> QED BY <1>2, <2>1
<1>4. CASE kid[i].pc \in {"login", "exec", "discard"}
  <2>0. Given(i)
    BY <1>4 DEF Starters, Forks
  <2>1. ASSUME NEW t \in Clients, up[t].pc \in {"send", "resend"}, up[t].hand = x, up[t].fd[UserOf[x]] = i PROVE FALSE
    <3>1. t = s
      BY <1>2, <2>1 DEF In
    <3>2. i = U!Fd(s) /\ up[s].pc = "send" /\ i # 0
      BY <1>0, <2>1, <3>1 DEF U!Fd, U!User, U!Kids
    <3>3. usock[i].rcv = "gone"
      BY <3>2
    <3> QED BY <1>4, <3>3 DEF Starters, Numbers
  <2>2. ASSUME usock[i].q # <<>>, Head(usock[i].q) = x PROVE FALSE
    <3>1. x \in Queued(usock[i])
      BY <2>2, QueueOps DEF Types, Queues
    <3> QED BY <1>2, <3>1 DEF In
  <2> QED BY <1>0, <1>2, <2>0, <2>1, <2>2 DEF Given
<1> QED BY <1>3, <1>4 DEF Starter

LEMMA RcvOps ==
  ASSUME NEW s \in Sock
  PROVE  /\ Finish(s).rcv = s.rcv /\ Take(s).rcv = s.rcv /\ Leave(s).rcv = "gone"
         /\ \A r : Put(s, r).rcv = s.rcv
BY DEF Sock, Finish, Leave, Take, Put

LEMMA FdOf ==
  ASSUME Types, Owned, NEW s \in Clients, up[s].hand \in Reqs, U!Fd(s) # 0
  PROVE  /\ U!Fd(s) \in U!Kids /\ U!Fd(s) \in 1 .. kids
         /\ kid[U!Fd(s)].user = UserOf[up[s].hand] /\ usock[U!Fd(s)].snd = TRUE
<1>1. PICK u \in Users : u = UserOf[up[s].hand]
  BY SharedAssumption
<1>2. U!Fd(s) = up[s].fd[u]
  BY <1>1 DEF U!Fd, U!User
<1>3. /\ up[s].fd[u] \in U!Kids /\ up[s].fd[u] \in 1 .. kids
      /\ kid[up[s].fd[u]].user = u /\ usock[up[s].fd[u]].snd = TRUE
  BY <1>2, EntryOf
<1> QED BY <1>1, <1>2, <1>3

LEMMA UserplexStarters ==
  ASSUME Whole, NEW s \in Clients, UNCHANGED pipe, U!UserplexStep(s) \/ U!SendError(s) \/ U!KillUserplex(s)
  PROVE  Starters'
<1> USE DEF Whole
<1>a. /\ None \notin Reqs /\ U!Kids = 1 .. MaxKid /\ MaxKid \in Nat /\ kids \in 0 .. MaxKid
      /\ up \in UpType /\ DOMAIN up = Clients /\ kid \in KidType /\ usock \in [U!Kids -> Sock]
      /\ chsock \in [Clients -> Sock]
      /\ fate \in [Reqs -> {"new", "with", "answered", "lost", "twice"}]
      /\ up[s].pc \in {"find", "send", "resend"} => up[s].hand \in Reqs
      /\ Forks /\ Numbers /\ Apart /\ Mine
  BY SharedAssumption DEF Types, PlexOK, UpType, U!Kids, Starters
<1>e. ASSUME up[s].hand \in Reqs
      PROVE  fate[up[s].hand] = "with" /\ U!User(s) \in Users /\ U!Fd(s) \in 0 .. kids
  <2>1. PICK x \in Reqs : x = up[s].hand
    BY <1>e
  <2>2. In("plex", s, x)
    BY <2>1 DEF In
  <2>3. U!User(s) \in Users
    BY <1>e, SharedAssumption DEF U!User
  <2> QED BY <2>1, <2>2, <2>3, EntryOf DEF AllSingle, Single, U!Fd
\* What is lost stays so, and only the request in the hand is answered.
<1>f. \A r \in Reqs : /\ fate[r] = "lost" => fate'[r] = "lost"
                      /\ fate[r] = "with" /\ r # up[s].hand => fate'[r] \in {"with", "lost"}
  <2>1. CASE fate' = fate
    BY <2>1
  <2>2. ASSUME NEW rs, fate' = Lose(fate, rs) PROVE <1>f
    <3>1. \A r \in Reqs : fate'[r] = IF r \in rs THEN "lost" ELSE fate[r]
      BY <2>2, LoseDoes
    <3> QED BY <3>1
  <2>3. CASE U!Refuse(s)
    <3>1. PICK x \in Reqs : x = up[s].hand
      BY <1>a, <2>3 DEF U!Refuse
    <3>2. fate[x] = "with" /\ U!Answer(x)
      BY <1>e, <2>3, <3>1 DEF U!Refuse
    <3>3. fate'[x] = "answered" /\ \A r \in Reqs \ {x} : fate'[r] = fate[r]
      BY <3>2, AnswerDoes
    <3> QED BY <3>1, <3>2, <3>3
  <2>4. CASE U!TooBusy(s) \/ U!GiveUp(s) \/ U!SendError(s) \/ U!UserplexEnds(s)
    <3>1. PICK rs : fate' = Lose(fate, rs)
      BY <2>4, Same DEF U!TooBusy, U!GiveUp, U!SendError, U!Drop, U!UserplexEnds
    <3> QED BY <2>2, <3>1
  <2>5. CASE U!Recv(s) \/ U!Find(s) \/ U!Sent(s) \/ U!Restart(s)
    BY <2>1, <2>5 DEF U!Recv, U!Find, U!Sent, U!Restart
  <2> QED BY <2>3, <2>4, <2>5 DEF U!UserplexStep, U!KillUserplex, U!InputOver
<1>g. ASSUME NEW k \in U!Kids, kid[k].pc = "error" PROVE kid[k].req \in Reqs /\ fate'[kid[k].req] \in {"with", "lost"}
  <2>1. kid[k].req \in Reqs /\ fate[kid[k].req] \in {"with", "lost"}
    BY <1>a, <1>g DEF Forks, Starter
  <2>2. PICK x \in Reqs : x = kid[k].req
    BY <2>1
  <2>3. ASSUME fate[x] = "with" PROVE x # up[s].hand
    <3>1. In("process", k, x)
      BY <1>g, <2>2, <2>3 DEF In
    <3>2. ~In("plex", s, x)
      BY <3>1 DEF AllSingle, Single
    <3> QED BY <3>2 DEF In
  <2> QED BY <1>f, <2>1, <2>2, <2>3
\* Each process that waits is still given its request.
<1>h. ASSUME NEW k \in U!Kids, kid[k].pc \in {"login", "exec", "discard"}, kid'[k] = kid[k] PROVE Given(k)'
  <2>1. Given(k) /\ kid[k].req \in Reqs /\ usock[k].rcv = "open" /\ k # 0
    BY <1>a, <1>h DEF Forks, Starter, Numbers, Sock
  <2>2. fate[kid[k].req] = "lost" => fate'[kid[k].req] = "lost"
    BY <1>f, <2>1
  <2>3. ASSUME usock'[k].q = usock[k].q, usock[k].snd = FALSE => usock'[k].snd = FALSE,
               \A t \in Clients \ {s} : up'[t] = up[t],
               usock[k].q = <<>> /\ up[s].pc \in {"send", "resend"} /\ up[s].hand = kid[k].req => U!Fd(s) # k
        PROVE  Given(k)'
    <3>1. \A t \in Clients : /\ usock[k].q = <<>> /\ up[t].pc \in {"send", "resend"} /\ up[t].hand = kid[k].req
                             /\ up[t].fd[UserOf[kid[k].req]] = k
                             => up'[t] = up[t]
      BY <2>3 DEF U!Fd, U!User
    <3> QED BY <1>h, <2>1, <2>2, <2>3, <3>1, StayGiven
  <2>4. CASE U!Recv(s) \/ U!Refuse(s) \/ U!Find(s)
    <3>1. UNCHANGED usock /\ up[s].pc \in {"recv", "find"} 
      BY <2>4 DEF U!Recv, U!Refuse, U!Find
    <3>2. \A t \in Clients \ {s} : up'[t] = up[t]
      BY <1>a, <2>4 DEF U!Recv, U!Refuse, U!Find, U!ForkChild, U!Served
    <3> QED BY <2>3, <3>1, <3>2
  <2>5. CASE U!TooBusy(s)
    <3>1. /\ UNCHANGED usock /\ \A t \in Clients \ {s} : up'[t] = up[t]
          /\ ~Fits(usock[U!Fd(s)]) /\ ~Refuses(usock[U!Fd(s)])
      BY <1>a, <2>5, Same, SameQueued DEF U!TooBusy, U!Served
    <3>2. usock[k].q = <<>> => U!Fd(s) # k
      <4>1. Len(<<>>) = 0
        OBVIOUS
      <4> QED BY <3>1, <4>1, Rooms DEF Fits
    <3> QED BY <2>3, <3>1, <3>2
  <2>6. CASE U!Restart(s) \/ U!GiveUp(s)
    <3>1. up[s].hand \in Reqs /\ U!Fd(s) \in 0 .. kids
      BY <1>a, <1>e, <2>6 DEF U!Restart, U!GiveUp
    <3>2. U!Fd(s) # k
      <4>1. U!Fd(s) = 0 \/ Refuses(usock[U!Fd(s)])
        BY <2>6, SameQueued DEF U!Restart, U!GiveUp
      <4> QED BY <2>1, <4>1 DEF Refuses
    <3>3. usock'[k] = usock[k]
      BY <1>a, <2>6, <3>1, <3>2 DEF U!Restart, U!GiveUp, U!Drop
    <3>4. \A t \in Clients \ {s} : up'[t] = up[t]
      BY <1>a, <2>6 DEF U!Restart, U!GiveUp, U!Drop, U!ForkChild, U!Served
    <3> QED BY <2>3, <3>2, <3>3, <3>4
\* The request was for this very process, which is told to answer it all the same.
  <2>6a. CASE U!SendError(s)
    <3>0. /\ U!Drop(s) /\ up[s].pc \in {"send", "resend"} /\ U!Fd(s) \in U!Kids /\ up[s].hand \in Reqs
      <4>1. U!Drop(s) /\ up[s].pc \in {"send", "resend"} /\ U!Fd(s) # 0
        BY <2>6a DEF U!SendError
      <4>2. up[s].hand \in Reqs
        BY <1>a, <4>1
      <4>3. U!Fd(s) \in 0 .. kids
        BY <1>e, <4>2
      <4> QED BY <1>a, <4>1, <4>2, <4>3
    <3>1. PICK gone : gone = {up[s].hand}
      OBVIOUS
    <3>2. /\ fate' = Lose(fate, gone) /\ \A t \in Clients \ {s} : up'[t] = up[t]
          /\ usock' = [usock EXCEPT ![U!Fd(s)] = Finish(@)]
      <4>1. fate' = Lose(fate, gone)
        BY <3>0, <3>1, Same DEF U!Drop
      <4>2. \A t \in Clients \ {s} : up'[t] = up[t]
        BY <1>a, <3>0 DEF U!Drop, U!Served
      <4>3. usock' = [usock EXCEPT ![U!Fd(s)] = Finish(@)]
        <5>1. U!Fd(s) # 0
          BY <2>6a DEF U!SendError
        <5> QED BY <3>0, <5>1, Same DEF U!Drop
      <4> QED BY <4>1, <4>2, <4>3
    <3>3. usock'[k].q = usock[k].q /\ (usock[k].snd = FALSE => usock'[k].snd = FALSE)
      <4>1. CASE U!Fd(s) = k
        <5>1. usock'[k] = Finish(usock[k]) /\ usock[k] \in Sock
          BY <1>a, <3>2, <4>1
        <5> QED BY <5>1, SndOps DEF Finish, Sock
      <4>2. CASE U!Fd(s) # k
        <5>1. usock'[k] = usock[k]
          BY <1>a, <3>2, <4>2
        <5> QED BY <5>1
      <4> QED BY <4>1, <4>2
    <3>4. CASE usock[k].q = <<>> /\ up[s].hand = kid[k].req /\ U!Fd(s) = k
      <4>1. usock'[k].snd = FALSE
        BY <1>a, <3>2, <3>4, SndOps
      <4>2. fate'[kid[k].req] = "lost"
        <5>1. PICK x \in Reqs : x = kid[k].req /\ x \in gone
          BY <2>1, <3>1, <3>4
        <5> QED BY <3>2, <5>1, LoseDoes
      <4> QED BY <1>h, <3>3, <3>4, <4>1, <4>2 DEF Given
    <3> QED BY <2>3, <3>2, <3>3, <3>4
  <2>7. CASE U!Sent(s)
    <3>0. PICK x \in Reqs : x = up[s].hand
      BY <1>a, <2>7 DEF U!Sent
    <3>1. PICK i \in U!Kids : i = U!Fd(s)
      BY <1>a, <1>e, <2>7, <3>0 DEF U!Sent
    <3>2. usock' = [usock EXCEPT ![i] = Put(@, x)] /\ \A t \in Clients \ {s} : up'[t] = up[t]
      BY <1>a, <2>7, <3>0, <3>1, Same DEF U!Sent, U!Served
    <3>3. CASE i # k
      BY <1>a, <2>3, <3>1, <3>2, <3>3
    <3>4. CASE i = k
      <4>1. Put(usock[k], x).q # <<>> /\ Head(Put(usock[k], x).q) = IF usock[k].q = <<>> THEN x ELSE Head(usock[k].q)
        BY <1>a, QueueOps DEF Queues
      <4>2. ASSUME usock[k].q = <<>> PROVE x = kid[k].req
        <5>1. usock[k].snd = TRUE
          BY <2>1, <3>0, <3>1, <3>4, FdOf
        <5>2. PICK t \in Clients : up[t].hand = kid[k].req /\ up[t].fd[UserOf[kid[k].req]] = k
          BY <2>1, <4>2, <5>1 DEF Given
        <5>3. t = s
          <6>1. UserOf[kid[k].req] \in Users /\ U!User(s) \in Users /\ up[s].fd[U!User(s)] = k
            BY <1>e, <2>1, <3>0, <3>1, <3>4, SharedAssumption DEF U!Fd
          <6> QED BY <2>1, <5>2, <6>1, Alone
        <5> QED BY <3>0, <5>2, <5>3
      <4>3. Head(Put(usock[k], x).q) = kid[k].req
        BY <2>1, <4>1, <4>2 DEF Given
      <4>4. usock'[k] = Put(usock[k], x)
        BY <1>a, <3>2, <3>4
      <4> QED BY <1>h, <4>1, <4>3, <4>4 DEF Given
    <3> QED BY <3>3, <3>4
  <2>8. CASE U!UserplexEnds(s)
    <3>1. PICK gone : gone = ({up[s].hand} \ {None}) \cup Queued(chsock[s])
      OBVIOUS
    <3>2. /\ fate' = Lose(fate, gone) /\ \A t \in Clients \ {s} : up'[t] = up[t]
          /\ usock' = [i \in U!Kids |-> IF i \in {up[s].fd[u] : u \in Users} \cup up[s].leaks THEN Finish(usock[i])
                                       ELSE usock[i]]
      BY <1>a, <2>8, <3>1, Same, SameQueued DEF U!UserplexEnds
    <3>3. usock'[k].q = usock[k].q /\ (usock[k].snd = FALSE => usock'[k].snd = FALSE)
      BY <1>a, <3>2, QueueOps, SndOps DEF Queues
    <3>4. CASE usock[k].q = <<>> /\ up[s].pc \in {"send", "resend"} /\ up[s].hand = kid[k].req /\ U!Fd(s) = k
      <4>1. usock'[k].snd = FALSE
        BY <1>a, <1>e, <3>2, <3>4, SndOps DEF U!Fd
      <4>2. fate'[kid[k].req] = "lost"
        <5>1. PICK x \in Reqs : x = kid[k].req /\ x \in gone
          BY <1>a, <2>1, <3>1, <3>4
        <5> QED BY <3>2, <5>1, LoseDoes
      <4> QED BY <1>h, <3>3, <3>4, <4>1, <4>2 DEF Given
    <3> QED BY <2>3, <3>2, <3>3, <3>4
  <2> QED BY <2>4, <2>5, <2>6, <2>6a, <2>7, <2>8 DEF U!UserplexStep, U!KillUserplex, U!InputOver
\* What is queued, if the step does not send.
<1>i. ASSUME UNCHANGED kid, kids' \in {kids, kids + 1}, \A k \in U!Kids : usock'[k].rcv = usock[k].rcv,
             \A k \in U!Kids : \/ usock'[k].q = usock[k].q
                               \/ kid[k].pc # "none" /\ \A r \in Queued(usock'[k]) : kid[k].user = UserOf[r]
      PROVE  Starters'
  <2>1. Forks'
    BY <1>a, <1>g, <1>h, <1>i DEF Forks, Starter
  <2>2. Numbers' /\ Apart' /\ Mine'
    BY <1>a, <1>i DEF Numbers, Apart, Mine, Starter, Queued
  <2> QED BY <2>1, <2>2 DEF Starters
<1>1. CASE U!Recv(s) \/ U!Refuse(s) \/ U!TooBusy(s)
  BY <1>i, <1>1 DEF U!Recv, U!Refuse, U!TooBusy
<1>2. CASE U!Sent(s)
  <2>0. PICK x \in Reqs : x = up[s].hand
    BY <1>a, <1>2 DEF U!Sent
  <2>1. PICK k \in U!Kids : k = U!Fd(s)
    BY <1>a, <1>e, <1>2, <2>0 DEF U!Sent
  <2>2. usock' = [usock EXCEPT ![k] = Put(@, x)] /\ UNCHANGED <<kid, kids>>
    BY <1>2, <2>0, <2>1, Same DEF U!Sent
  <2>3. usock'[k] = Put(usock[k], x) /\ \A i \in U!Kids \ {k} : usock'[i] = usock[i]
    BY <1>a, <2>2
  <2>4. Queued(usock'[k]) = Queued(usock[k]) \cup {x} /\ usock'[k].rcv = usock[k].rcv
    BY <1>a, <2>3, QueueOps, RcvOps DEF Queues
  <2>5. kid[k].user = UserOf[x] /\ k \in 1 .. kids
    <3>1. U!Fd(s) # 0 /\ up[s].hand \in Reqs
      BY <1>2, <2>0 DEF U!Sent
    <3> QED BY <2>0, <2>1, <3>1, FdOf
  <2>6. kid[k].pc # "none" /\ \A r \in Queued(usock'[k]) : kid[k].user = UserOf[r]
    <3>1. kid[k].user # None
      BY <2>0, <2>5, SharedAssumption
    <3> QED BY <1>a, <2>4, <2>5, <3>1 DEF Owned, Forked, Mine
  <2> QED BY <1>i, <2>2, <2>3, <2>4, <2>6
<1>3. CASE U!GiveUp(s) \/ U!SendError(s) \/ U!UserplexEnds(s)
  <2>1. UNCHANGED <<kid, kids>>
    BY <1>3 DEF U!GiveUp, U!SendError, U!Drop, U!UserplexEnds
  <2>2. \A k \in U!Kids : usock'[k] = usock[k] \/ usock'[k] = Finish(usock[k])
    <3>1. CASE U!GiveUp(s) \/ U!SendError(s)
      <4>1. U!Fd(s) \in 0 .. kids /\ U!Drop(s)
        BY <1>a, <1>e, <3>1 DEF U!GiveUp, U!SendError
      <4> QED BY <1>a, <4>1, Same DEF U!Drop
    <3>2. CASE U!UserplexEnds(s)
      BY <1>a, <3>2, Same DEF U!UserplexEnds
    <3> QED BY <1>3, <3>1, <3>2
  <2>3. \A k \in U!Kids : usock'[k].q = usock[k].q /\ usock'[k].rcv = usock[k].rcv
    BY <1>a, <2>2, QueueOps, RcvOps DEF Queues
  <2> QED BY <1>i, <2>1, <2>3
<1>4. CASE U!Find(s) \/ U!Restart(s)
  <2>1. up[s].hand \in Reqs /\ up[s].pc \in {"find", "send"}
    BY <1>a, <1>4 DEF U!Find, U!Restart
  <2>2. \A k \in U!Kids : usock'[k].q = usock[k].q /\ usock'[k].rcv = usock[k].rcv
    <3>1. CASE U!Find(s)
      BY <3>1 DEF U!Find
    <3>2. CASE U!Restart(s)
      <4>1. U!Fd(s) \in U!Kids
        BY <1>a, <1>e, <2>1, <3>2 DEF U!Restart
      <4>2. usock' = [usock EXCEPT ![U!Fd(s)] = Finish(@)]
        BY <3>2, Same DEF U!Restart
      <4> QED BY <1>a, <4>1, <4>2, QueueOps, RcvOps DEF Queues
    <3> QED BY <1>4, <3>1, <3>2
  <2>3. CASE UNCHANGED kid /\ kids' \in {kids, kids + 1}
    BY <1>i, <2>2, <2>3
  <2>4. ASSUME NEW next \in {"send", "resend"}, kids < MaxKid, kids' = kids + 1,
               kid' = [kid EXCEPT ![kids + 1] = [pc |-> "login", req |-> up[s].hand, hand |-> None, user |-> U!User(s)]],
               up' = [up EXCEPT ![s].pc = next, ![s].fd[U!User(s)] = kids + 1]
        PROVE  Starters'
    <3>0. PICK n \in U!Kids, x \in Reqs, u \in Users : n = kids + 1 /\ x = up[s].hand /\ u = U!User(s)
      BY <1>a, <1>e, <2>1, <2>4
    <3>1. /\ kid'[n] = [pc |-> "login", req |-> x, hand |-> None, user |-> u]
          /\ \A k \in U!Kids \ {n} : kid'[k] = kid[k]
      BY <1>a, <2>4, <3>0 DEF KidType
    <3>2. kid[n].pc = "none" /\ usock[n].q = <<>> /\ usock[n].rcv # "gone"
      BY <1>a, <3>0 DEF Numbers
    <3>3. Given(n)'
      <4>1. up' = Entry(s, next, u, n) /\ n \in 0 .. MaxKid /\ next \in UpPcs
        BY <1>a, <2>4, <3>0 DEF Entry, UpPcs
      <4>2. Entry(s, next, u, n)[s].fd = [up[s].fd EXCEPT ![u] = n] /\ Entry(s, next, u, n)[s].hand = up[s].hand
        BY <1>a, <4>1, UpEntry
      <4>3. up'[s].hand = x /\ up'[s].fd[u] = n
        <5>1. up[s].fd \in [Users -> 0 .. MaxKid]
          BY <1>a DEF UpType, UpRec
        <5> QED BY <3>0, <4>1, <4>2, <5>1
      <4>4. up'[s].pc = next
        BY <1>a, <2>4 DEF UpType, UpRec
      <4>5. kid'[n].req = x /\ UserOf[x] = u /\ usock'[n].q = <<>>
        BY <2>2, <3>0, <3>1, <3>2 DEF U!User
      <4> QED BY <4>3, <4>4, <4>5 DEF Given
    <3>4. \A i \in U!Kids : Starter(i) => kid[i].req # x
      <4>1. up[s].pc = "find" \/ (up[s].pc = "send" /\ usock[U!Fd(s)].rcv = "gone")
        <5>1. CASE U!Find(s)
          BY <5>1 DEF U!Find
        <5>2. CASE U!Restart(s)
          <6>1. up[s].pc = "send" /\ U!Fd(s) \in U!Kids /\ Refuses(usock[U!Fd(s)])
            BY <1>a, <1>e, <2>1, <5>2, SameQueued DEF U!Restart
          <6> QED BY <1>a, <6>1 DEF Refuses, Sock
        <5> QED BY <1>4, <5>1, <5>2
      <4> QED BY <2>1, <3>0, <4>1, NoOther
    <3>5. \A k \in U!Kids : Starter(k)' <=> Starter(k) \/ k = n
      BY <3>1, <3>2 DEF Starter
    <3>6. Forks'
      BY <1>a, <1>g, <1>h, <3>1, <3>3, <3>5 DEF Forks, Starter
    <3>7. Numbers'
      BY <1>a, <2>2, <2>4, <3>0, <3>1, <3>2 DEF Numbers
    <3>8. Apart'
      BY <1>a, <3>1, <3>4, <3>5 DEF Apart
    <3>9. Mine'
      <4>1. Queued(usock[n]) = {}
        BY <1>a, <3>2, QueueOps DEF Queues
      <4> QED BY <1>a, <2>2, <3>1, <4>1 DEF Mine, Queued
    <3> QED BY <3>6, <3>7, <3>8, <3>9 DEF Starters
  <2> QED BY <1>4, <2>3, <2>4 DEF U!Find, U!Restart, U!ForkChild
<1> QED BY <1>1, <1>2, <1>3, <1>4 DEF U!UserplexStep, U!KillUserplex, U!InputOver

\* The same when a process takes a step.
LEMMA KidStarters ==
  ASSUME Whole, NEW k \in U!Kids, UNCHANGED pipe, U!KidStep(k) \/ U!KidDies(k)
  PROVE  Starters'
<1> USE DEF Whole
<1>a. /\ None \notin Reqs /\ U!Kids = 1 .. MaxKid
      /\ kid \in KidType /\ kid[k].hand \in Reqs \cup {None} /\ usock \in [U!Kids -> Sock]
      /\ fate \in [Reqs -> {"new", "with", "answered", "lost", "twice"}]
      /\ kid[k].hand # None => kid[k].pc = "run"
      /\ Forks /\ Numbers /\ Apart /\ Mine
  BY SharedAssumption DEF Types, PlexOK, KidType, KidRec, Hands, Starters, U!Kids
<1>b. UNCHANGED <<chsock, up, kids>> /\ kid[k].pc \notin {"none", "ended"}
  BY DEF U!KidStep, U!KidDies, U!Login, U!Exec, U!Discard, U!AnswerError, U!HandlerTakes, U!HandlerAnswers, U!HandlerEnds,
         U!Gone
\* What the process answers was in its hand, or is what it was forked for.
<1>f. \A r \in Reqs : \/ fate'[r] = fate[r] \/ fate'[r] = "lost"
                      \/ r = kid[k].hand /\ fate[r] = "with"
                      \/ r = kid[k].req /\ kid[k].pc = "error"
  <2>1. CASE U!AnswerError(k)
    <3>1. PICK x \in Reqs : x = kid[k].req
      BY <1>a, <2>1 DEF U!AnswerError, Forks, Starter
    <3> QED BY <1>a, <2>1, <3>1, Same DEF U!AnswerError, U!Gone, Lose
  <2>2. CASE U!HandlerAnswers(k)
    <3>1. PICK x \in Reqs : x = kid[k].hand
      BY <1>a, <2>2 DEF U!HandlerAnswers
    <3>2. In("process", k, x)
      BY <3>1 DEF In
    <3>3. fate[x] = "with" /\ U!Answer(x)
      BY <2>2, <3>1, <3>2 DEF AllSingle, Single, U!HandlerAnswers
    <3>4. \A r \in Reqs \ {x} : fate'[r] = fate[r]
      BY <3>3, AnswerDoes
    <3> QED BY <3>1, <3>3, <3>4
  <2>3. CASE U!KidDies(k)
    BY <1>a, <2>3, Same DEF U!KidDies, U!Gone, Lose
  <2>4. CASE U!HandlerEnds(k)
    BY <1>a, <2>4, Same DEF U!HandlerEnds, U!Gone, Lose
  <2>5. CASE U!Discard(k)
    <3>1. fate' = fate \/ \E rs : fate' = Lose(fate, rs)
      BY <2>5, Same DEF U!Discard
    <3> QED BY <3>1, LoseDoes
  <2>6. CASE U!Login(k) \/ U!Exec(k) \/ U!HandlerTakes(k)
    BY <2>6 DEF U!Login, U!Exec, U!HandlerTakes
  <2> QED BY <2>1, <2>2, <2>3, <2>4, <2>5, <2>6 DEF U!KidStep
\* The other processes that wait.
<1>g. ASSUME NEW i \in U!Kids \ {k}, Starter(i)
      PROVE  /\ kid[i].req \in Reqs
             /\ fate[kid[i].req] = "lost" => fate'[kid[i].req] = "lost"
             /\ kid[i].pc = "error" => fate'[kid[i].req] \in {"with", "lost"}
  <2>1. PICK x \in Reqs : x = kid[i].req
    BY <1>a, <1>g DEF Forks
  <2>2. kid[k].pc = "error" => x # kid[k].req
    BY <1>a, <1>g, <2>1 DEF Apart, Starter
  <2>3. fate[x] = "lost" => fate'[x] = "lost"
    BY <1>f, <2>2
  <2>4. ASSUME kid[i].pc = "error" PROVE fate'[x] \in {"with", "lost"}
    <3>1. fate[x] \in {"with", "lost"}
      BY <1>a, <2>1, <2>4 DEF Forks
    <3>2. fate[x] = "with" => x # kid[k].hand
      <4>1. fate[x] = "with" => In("process", i, x)
        BY <2>1, <2>4 DEF In
      <4>2. x = kid[k].hand => In("process", k, x)
        BY DEF In
      <4> QED BY <1>g, <4>1, <4>2 DEF AllSingle, Single
    <3> QED BY <1>f, <2>2, <3>1, <3>2
  <2> QED BY <2>1, <2>3, <2>4
<1>h. ASSUME NEW x, NEW h, Turns(k, x, h), \A i \in U!Kids \ {k} : usock'[i] = usock[i],
             x \in {"login", "exec", "discard", "error"} => Starter(k),
             x # "none", x = "ended" <=> usock'[k].rcv = "gone",
             x = "error" => fate'[kid[k].req] \in {"with", "lost"},
             x \in {"login", "exec", "discard"} => Given(k)',
             Queued(usock'[k]) \subseteq Queued(usock[k]), h # None => h \in Queued(usock[k]) \/ h = kid[k].hand
      PROVE  Starters'
  <2>1. \A i \in U!Kids : Starter(i)' => Starter(i)
    BY <1>h DEF Turns, Starter
  <2>2. ASSUME NEW i \in U!Kids \ {k}, kid[i].pc \in {"login", "exec", "discard"} PROVE Given(i)'
    <3>1. Given(i) /\ kid'[i] = kid[i] /\ usock'[i] = usock[i]
      BY <1>a, <1>h, <2>2 DEF Forks, Turns
    <3>2. fate[kid[i].req] = "lost" => fate'[kid[i].req] = "lost"
      BY <1>g, <2>2 DEF Starter
    <3> QED BY <1>b, <3>1, <3>2, StayGiven
  <2>3. Forks'
    <3>1. ASSUME NEW i \in U!Kids \ {k} PROVE Forks!(i)'
      BY <1>a, <1>g, <1>h, <2>2, <3>1 DEF Forks, Turns, Starter
    <3>2. Forks!(k)'
      BY <1>a, <1>h DEF Forks, Turns, Starter
    <3> QED BY <3>1, <3>2 DEF Forks
  <2>4. Numbers'
    BY <1>a, <1>b, <1>h DEF Numbers, Turns
  <2>5. Apart'
    BY <1>a, <1>h, <2>1 DEF Apart, Turns
  <2>6. Mine'
    BY <1>a, <1>h DEF Mine, Turns
  <2> QED BY <2>3, <2>4, <2>5, <2>6 DEF Starters
<1>1. CASE U!Login(k) \/ U!Exec(k)
  <2>1. PICK x \in {"exec", "run", "discard"} : kid' = [kid EXCEPT ![k].pc = x]
    BY <1>1 DEF U!Login, U!Exec
  <2>2. UNCHANGED <<fate, usock>> /\ kid[k].pc \in {"login", "exec"}
    BY <1>1 DEF U!Login, U!Exec
  <2>3. Turns(k, x, None)
    BY <1>a, <2>1, <2>2, KidTurns
  <2>4. Given(k)'
    BY <1>a, <1>b, <2>2, <2>3 DEF Forks, Given, Turns
  <2>5. usock[k].rcv # "gone" /\ Starter(k)
    BY <1>a, <2>2 DEF Numbers, Starter
  <2> QED BY <1>h, <2>2, <2>3, <2>4, <2>5
<1>2. CASE U!Discard(k)
  <2>0. /\ kid[k].pc = "discard" /\ kid' = [kid EXCEPT ![k].pc = "error"] /\ Readable(usock[k]) /\ kid[k].hand = None
        /\ usock[k].q # <<>> => /\ usock' = [usock EXCEPT ![k] = Take(@)]
                                /\ fate' = Lose(fate, {Head(usock[k].q)} \ {kid[k].req})
        /\ usock[k].q = <<>> => UNCHANGED <<fate, usock>>
    BY <1>2, <1>a, Same, SameQueued DEF U!Discard
  <2>1. PICK x \in Reqs : x = kid[k].req
    BY <2>0, Discards
  <2>2. Turns(k, "error", None) /\ usock[k].rcv # "gone" /\ Starter(k)
    BY <1>a, <2>0, KidTurns DEF Numbers, Starter
  <2>3. /\ \A i \in U!Kids \ {k} : usock'[i] = usock[i]
        /\ usock'[k].rcv = usock[k].rcv /\ Queued(usock'[k]) \subseteq Queued(usock[k])
    BY <1>a, <2>0, QueueOps, RcvOps DEF Queues
  <2>4. fate'[x] \in {"with", "lost"}
    <3>1. CASE usock[k].q # <<>> /\ Head(usock[k].q) = x
      <4>1. fate' = Lose(fate, {})
        BY <2>0, <2>1, <3>1
      <4>2. \A r \in Reqs : fate'[r] = IF r \in {} THEN "lost" ELSE fate[r]
        BY <4>1, LoseDoes
      <4>3. In("kid", k, x)
        BY <1>a, <3>1, QueueOps DEF In, Queues
      <4> QED BY <4>2, <4>3 DEF AllSingle, Single
    <3>2. CASE usock[k].q = <<>> /\ fate[x] = "lost"
      BY <2>0, <3>2
    <3> QED BY <2>0, <2>1, <3>1, <3>2, Discards
  <2> QED BY <1>h, <2>1, <2>2, <2>3, <2>4
<1>3. CASE U!HandlerTakes(k)
  <2>0. kid[k].pc = "run" /\ usock[k].q # <<>> /\ usock' = [usock EXCEPT ![k] = Take(@)]
    BY <1>3, Same DEF U!HandlerTakes
  <2>1. PICK x \in Reqs : x = Head(usock[k].q)
    BY <1>a, <2>0, SockOps
  <2>2. kid' = [kid EXCEPT ![k].hand = x]
    BY <1>3, <2>1 DEF U!HandlerTakes
  <2>3. Turns(k, "run", x) /\ usock[k].rcv # "gone"
    BY <1>a, <2>0, <2>2, KidTurns DEF Numbers
  <2>4. /\ \A i \in U!Kids \ {k} : usock'[i] = usock[i]
        /\ usock'[k].rcv = usock[k].rcv /\ Queued(usock'[k]) \subseteq Queued(usock[k]) /\ x \in Queued(usock[k])
    BY <1>a, <2>0, <2>1, QueueOps, RcvOps DEF Queues
  <2> QED BY <1>h, <2>3, <2>4
<1>4. CASE U!HandlerAnswers(k)
  <2>1. kid[k].pc = "run" /\ kid' = [kid EXCEPT ![k].hand = None] /\ UNCHANGED usock
    BY <1>4 DEF U!HandlerAnswers
  <2>2. Turns(k, "run", None) /\ usock[k].rcv # "gone"
    BY <1>a, <2>1, KidTurns DEF Numbers
  <2> QED BY <1>h, <2>1, <2>2
<1>5. CASE U!AnswerError(k) \/ U!HandlerEnds(k) \/ U!KidDies(k)
  <2>1. /\ kid' = [kid EXCEPT ![k].pc = "ended", ![k].hand = None]
        /\ usock' = [usock EXCEPT ![k] = Leave(@)]
    BY <1>5, Same DEF U!AnswerError, U!HandlerEnds, U!KidDies, U!Gone
  <2>2. Turns(k, "ended", None)
    BY <1>a, <2>1, KidTurns
  <2>3. /\ \A i \in U!Kids \ {k} : usock'[i] = usock[i]
        /\ usock'[k].rcv = "gone" /\ Queued(usock'[k]) \subseteq Queued(usock[k])
    BY <1>a, <2>1, QueueOps, RcvOps DEF Queues
  <2> QED BY <1>h, <2>2, <2>3
<1> QED BY <1>1, <1>2, <1>3, <1>4, <1>5 DEF U!KidStep

-----------------------------------------------------------------------------
(* All steps, and what follows.                                            *)

LEMMA WholeInit == Init => Whole
<1> SUFFICES ASSUME Init PROVE Whole
  OBVIOUS
<1>1. Types /\ Owned
  BY TypesInit, OwnedInit
<1>2. /\ None \notin Reqs /\ U!Kids = 1 .. MaxKid /\ MaxKid \in Nat
      /\ conn = [p \in Clients |-> Open] /\ chsock = [p \in Clients |-> Open] /\ usock = [k \in U!Kids |-> Open]
      /\ fate = [r \in Reqs |-> "new"] /\ kids = 0
      /\ \A p \in Clients : /\ cl[p].hand = None /\ sv[p].hand = None /\ up[p].hand = None
                            /\ sv[p].pc = "none"
      /\ \A k \in U!Kids : kid[k].hand = None /\ kid[k].pc = "none"
  BY Same, SharedAssumption DEF Init, P!HtPipeInit, U!UserplexInit, U!Kids
<1>3. Open.q = <<>> /\ Queued(Open) = {} /\ Distinct(<<>>) /\ Open.rcv = "open"
  <2>1. Open.q = <<>> /\ Open.rcv = "open"
    BY DEF Open
  <2>2. Distinct(<<>>)
    BY DEF Distinct
  <2>3. Queued(Open) = {}
    BY <2>1 DEF Queued, ToSet
  <2> QED BY <2>1, <2>2, <2>3
<1>4. AllSingle
  <2>1. \A r \in Reqs : \A t, n : ~In(t, n, r)
    BY <1>2, <1>3 DEF In
  <2> QED BY <1>2, <2>1 DEF AllSingle, Single
<1>5. Queues /\ Hands
  BY <1>2, <1>3 DEF Queues, Hands
<1>6. Starters
  BY <1>2, <1>3 DEF Starters, Forks, Numbers, Apart, Mine, Starter
<1> QED BY <1>1, <1>4, <1>5, <1>6 DEF Whole

LEMMA WholeStep ==
  ASSUME Whole, [Next]_vars
  PROVE  Whole'
<1>0. Types' /\ Owned' /\ Types /\ AllSingle /\ Queues /\ Hands
  BY Step DEF Whole
<1>n. NotNew
  BY DEF Whole, Starters, Forks, NotNew
<1>1. ASSUME UNCHANGED plex, AllSingle', Queues', PipeHands', Loses PROVE Whole'
  <2>1. Starters'
    BY <1>1, PipeStarters
  <2>2. Hands'
    BY <1>0, <1>1 DEF PipeHands, Hands, plex
  <2> QED BY <1>0, <1>1, <2>1, <2>2 DEF Whole
<1>2. ASSUME UNCHANGED pipe, AllSingle', Queues', PlexHands', Starters' PROVE Whole'
  <2>1. Hands'
    BY <1>0, <1>2 DEF PlexHands, Hands, pipe
  <2> QED BY <1>0, <1>2, <2>1 DEF Whole
<1>3. ASSUME NEW p \in Clients,
             \/ P!ClientStep(p) \/ P!Start(p) \/ P!ClientEof(p) \/ P!ForkFails(p)
             \/ \E r \in Reqs : P!ClientRecv(p, r),
             UNCHANGED plex
      PROVE  Whole'
  BY <1>0, <1>n, <1>1, <1>3, ClientMoves
<1>4. ASSUME NEW s \in Clients, P!ServerStep(s) \/ P!MkChildFails(s) \/ P!KillServer(s), UNCHANGED plex PROVE Whole'
  BY <1>0, <1>1, <1>4, ServerMoves
<1>5. ASSUME NEW s \in Clients, U!UserplexStep(s) \/ U!SendError(s) \/ U!KillUserplex(s), UNCHANGED pipe PROVE Whole'
  BY <1>2, <1>5, UserplexMoves, UserplexStarters
<1>6. ASSUME NEW k \in U!Kids, U!KidStep(k) \/ U!KidDies(k), UNCHANGED pipe PROVE Whole'
  BY <1>2, <1>6, KidMoves, KidStarters
<1>7. CASE Work
  <2>1. ASSUME NEW p \in Clients, Client(p) PROVE Whole'
    BY <1>3, <2>1 DEF Client
  <2>2. ASSUME NEW s \in Clients, Server(s) PROVE Whole'
    BY <1>4, <2>2 DEF Server
  <2>3. ASSUME NEW s \in Clients, Userplex(s) PROVE Whole'
    BY <1>5, <2>3 DEF Userplex
  <2>4. ASSUME NEW k \in U!Kids, Kid(k) PROVE Whole'
    BY <1>6, <2>4 DEF Kid
  <2> QED BY <1>7, <2>1, <2>2, <2>3, <2>4 DEF Work
<1>8. ASSUME NEW p \in Clients, \/ Start(p) \/ Eof(p) \/ MkChildFails(p) \/ ForkFails(p) \/ SendError(p)
                                 \/ \E r \in Reqs : Request(p, r)
      PROVE  Whole'
  BY <1>3, <1>4, <1>5, <1>8 DEF Start, Eof, MkChildFails, ForkFails, SendError, Request
<1>9. CASE Kill
  BY <1>4, <1>5, <1>6, <1>9 DEF Kill
<1>10. CASE UNCHANGED vars
  <2>1. UNCHANGED <<fate, cl, conn, sv, path, stolen, disturbed, chsock, up, kid, usock, kids>>
    BY <1>10 DEF vars, pipe, plex
  <2>2. \A r \in Reqs : \A t, n : In(t, n, r)' <=> In(t, n, r)
    BY <2>1 DEF In
  <2>3. AllSingle'
    BY <1>0, <2>1, <2>2, Unmoved
  <2>4. Queues' /\ PipeHands' /\ Loses /\ UNCHANGED plex
    BY <1>0, <2>1 DEF Queues, PipeHands, Hands, Loses, plex
  <2> QED BY <1>1, <2>3, <2>4
<1> QED BY <1>7, <1>8, <1>9, <1>10 DEF Next

LEMMA WholeInvariant == Spec => []Whole
<1>1. Whole /\ [Next]_vars => Whole'
  BY WholeStep
<1> QED BY WholeInit, <1>1, PTL DEF Spec

\* The places of a request, as the property counts them: its index in the one queue, or the hand.
SockAt(t, n) == IF t = "conn" THEN conn[n] ELSE IF t = "userplex" THEN chsock[n] ELSE usock[n]
At(t, n, r, pl) == IF t \in {"conn", "userplex", "kid"}
                   THEN \E i \in 1 .. Len(SockAt(t, n).q) : SockAt(t, n).q[i] = r /\ pl = <<<<t, n>>, i>>
                   ELSE pl = <<t, n>>

LEMMA QueuedAt ==
  ASSUME NEW s \in Sock, NEW r
  PROVE  r \in Queued(s) <=> \E i \in 1 .. Len(s.q) : s.q[i] = r
<1>1. s.q \in Seq(Reqs) /\ DOMAIN s.q = 1 .. Len(s.q)
  BY DEF Sock, Queue
<1> QED BY <1>1 DEF Queued, ToSet

LEMMA PlacesAt ==
  ASSUME Types, NEW r \in Reqs, NEW pl
  PROVE  pl \in Places(r) <=> \E t, n : In(t, n, r) /\ At(t, n, r, pl)
<1> DEFINE conns == UNION {Ahead(<<"conn", p>>, conn[p], r) : p \in Clients}
           inputs == UNION {Ahead(<<"userplex", s>>, chsock[s], r) : s \in Clients}
           others == UNION {Ahead(<<"kid", k>>, usock[k], r) : k \in U!Kids}
           clients == {<<"client", p>> : p \in {q \in Clients : cl[q].hand = r}}
           servers == {<<"server", s>> : s \in {t \in Clients : sv[t].hand = r}}
           plexes == {<<"plex", s>> : s \in {t \in Clients : up[t].hand = r}}
           procs == {<<"process", k>> : k \in
                        {i \in U!Kids : kid[i].hand = r \/ (kid[i].pc = "error" /\ kid[i].req = r /\ fate[r] = "with")}}
           W(t) == \E n : In(t, n, r) /\ At(t, n, r, pl)
<1>a. conn \in [Clients -> Sock] /\ chsock \in [Clients -> Sock] /\ usock \in [U!Kids -> Sock]
  BY DEF Types
<1>1. pl \in conns <=> W("conn")
  <2>1. ASSUME NEW n \in Clients
        PROVE  pl \in Ahead(<<"conn", n>>, conn[n], r) <=> In("conn", n, r) /\ At("conn", n, r, pl)
    BY <1>a, <2>1, QueuedAt DEF Ahead, In, At, SockAt
  <2> QED BY <2>1 DEF In
<1>2. pl \in inputs <=> W("userplex")
  <2>1. ASSUME NEW n \in Clients
        PROVE  pl \in Ahead(<<"userplex", n>>, chsock[n], r) <=> In("userplex", n, r) /\ At("userplex", n, r, pl)
    BY <1>a, <2>1, QueuedAt DEF Ahead, In, At, SockAt
  <2> QED BY <2>1 DEF In
<1>3. pl \in others <=> W("kid")
  <2>1. ASSUME NEW n \in U!Kids
        PROVE  pl \in Ahead(<<"kid", n>>, usock[n], r) <=> In("kid", n, r) /\ At("kid", n, r, pl)
    BY <1>a, <2>1, QueuedAt DEF Ahead, In, At, SockAt
  <2> QED BY <2>1 DEF In
<1>4. pl \in clients <=> W("client")
  BY DEF In, At
<1>5. pl \in servers <=> W("server")
  BY DEF In, At
<1>6. pl \in plexes <=> W("plex")
  BY DEF In, At
<1>7. pl \in procs <=> W("process")
  BY DEF In, At
<1>8. Places(r) = conns \cup inputs \cup others \cup clients \cup servers \cup plexes \cup procs
  BY DEF Places
<1>9. (\E t, n : In(t, n, r) /\ At(t, n, r, pl)) <=> \E t : W(t)
  OBVIOUS
<1>10. \A t : W(t) => t \in {"conn", "userplex", "kid", "client", "server", "plex", "process"}
  BY DEF In
<1> HIDE DEF W, conns, inputs, others, clients, servers, plexes, procs
<1> QED BY <1>1, <1>2, <1>3, <1>4, <1>5, <1>6, <1>7, <1>8, <1>9, <1>10

LEMMA OnePlace ==
  ASSUME Types, Queues, NEW r \in Reqs, NEW t, NEW n, In(t, n, r)
  PROVE  /\ \E pl : At(t, n, r, pl)
         /\ \A pl, ql : At(t, n, r, pl) /\ At(t, n, r, ql) => pl = ql
<1>1. CASE t \in {"conn", "userplex", "kid"}
  <2>1. PICK s \in Sock : s = SockAt(t, n)
    BY <1>1 DEF Types, In, SockAt
  <2>2. Distinct(s.q) /\ r \in Queued(s)
    BY <1>1, <2>1 DEF Queues, In, SockAt
  <2>3. PICK i \in 1 .. Len(s.q) : s.q[i] = r
    BY <2>2, QueuedAt
  <2>4. \A j \in 1 .. Len(s.q) : s.q[j] = r => j = i
    BY <2>2, <2>3 DEF Distinct
  <2>5. \A pl : At(t, n, r, pl) <=> pl = <<<<t, n>>, i>>
    BY <1>1, <2>1, <2>3, <2>4 DEF At
  <2>6. At(t, n, r, <<<<t, n>>, i>>)
    BY <2>5
  <2> QED BY <2>5, <2>6
<1>2. CASE t \notin {"conn", "userplex", "kid"}
  BY <1>2 DEF At
<1> QED BY <1>1, <1>2

LEMMA WholeGives == Whole => Placed
<1> SUFFICES ASSUME Whole PROVE Placed
  OBVIOUS
<1> USE DEF Whole
<1>1. TypeOK
  BY TypesGive
<1>2. ASSUME NEW r \in Reqs
      PROVE  fate[r] # "twice" /\ Cardinality(Places(r)) = IF fate[r] = "with" THEN 1 ELSE 0
  <2>1. Single(r)
    BY DEF AllSingle
  <2>2. CASE fate[r] = "with"
    <3>1. PICK t, n : In(t, n, r)
      BY <2>1, <2>2 DEF Single
    <3>2. PICK one : At(t, n, r, one)
      BY <3>1, OnePlace
    <3>3. \A u, m : In(u, m, r) => u = t /\ m = n
      BY <2>1, <3>1 DEF Single
    <3>4. \A pl : pl \in Places(r) <=> pl = one
      <4>1. ASSUME NEW pl \in Places(r) PROVE pl = one
        BY <3>1, <3>2, <3>3, <4>1, PlacesAt, OnePlace
      <4>2. one \in Places(r)
        BY <3>1, <3>2, PlacesAt
      <4> QED BY <4>1, <4>2
    <3>5. Places(r) = {one}
      BY <3>4
    <3> QED BY <2>1, <2>2, <3>5, FS_Singleton DEF Single
  <2>3. CASE fate[r] # "with"
    <3>1. \A t, n : ~In(t, n, r)
      BY <2>1, <2>3 DEF Single
    <3>2. Places(r) = {}
      BY <3>1, PlacesAt
    <3> QED BY <2>1, <2>3, <3>2, FS_EmptySet DEF Single
  <2> QED BY <2>2, <2>3
<1>3. ASSUME NEW k \in U!Kids, NEW r \in Queued(usock[k]) \cup ({kid[k].hand} \ {None}) PROVE kid[k].user = UserOf[r]
  BY DEF Starters, Mine
<1> QED BY <1>1, <1>2, <1>3 DEF Placed

\* sendreq2(), recvreq(), discardreq() and simpleerror() on the way from a connection of the server
\* to the process of a user: whatever crashes, and for however many programs, users and requests, a
\* request that is under way is in one place, is answered once at most and reaches no process of
\* another user; a process whose handler is not there throws away just the request that it answers.
THEOREM AlwaysPlaced == Spec => []Placed
BY WholeInvariant, WholeGives, PTL

-----------------------------------------------------------------------------
(* Programs that start at once.                                            *)

Early(s) == sv[s].pc \in {"stat", "unlink", "bind"}

\* Whatever the programs do: one that tries again has waited for its server.
Waited == \A p \in Clients : cl[p].pc = "again" => P!Serving(p) \/ sv[p].pc = "ended"
\* Until the socket of a server that lives is unlinked it is at the path, and found there.
Kind == /\ \A s \in Clients : P!Bound(s) => path = s
        /\ \A p \in Clients : cl[p].pc = "failed" => sv[p].pc = "ended"
Found == Waited /\ (~stolen => Kind)

\* One program forks a server at a time, and waits for the server that it has forked.
OneForks == \A p, q \in Clients : P!Forking(p) /\ P!Forking(q) => p = q
Awaited == \A s \in Clients : Early(s) \/ sv[s].pc \in {"listen", "mkchild"} => cl[s].pc = "wait"
Waits == \A p \in Clients : /\ cl[p].pc = "wait" => sv[p].pc \notin {"none", "ended"}
                            /\ cl[p].pc = "again" => P!Serving(p)
                            /\ cl[p].pc # "failed"
\* There is no server while another is about to be, and nothing at the path where it is to be bound.
Nobody == \A p \in Clients : /\ cl[p].pc = "fork" \/ Early(p) => \A s \in Clients : ~P!Bound(s)
                             /\ sv[p].pc = "bind" => path = None
Calm == ~disturbed => ~stolen /\ OneForks /\ Awaited /\ Waits /\ Nobody

\* What the steps of a program and of a server do to all this.
ClientTo(p, from, to) == /\ cl[p].pc \in from /\ cl'[p].pc = to /\ \A q \in Clients \ {p} : cl'[q].pc = cl[q].pc
ServersSame == \A q \in Clients : sv'[q].pc = sv[q].pc
ServerTo(s, from, to) == /\ sv[s].pc \in from /\ sv'[s].pc = to /\ \A q \in Clients \ {s} : sv'[q].pc = sv[q].pc
PathSame == path' = path /\ stolen' = stolen
Same4 == path' = path /\ stolen' = stolen /\ disturbed' = disturbed

LEMMA StartsInit == Init => Found /\ Calm
BY SharedAssumption DEF Init, P!HtPipeInit, Found, Waited, Kind, Calm, OneForks, Awaited, Waits, Nobody, Early,
                        P!Forking, P!Serving, P!Listens, P!Bound

\* All that the invariant depends on.
LEMMA SameStarts ==
  ASSUME Found, Calm, \A p \in Clients : cl'[p].pc = cl[p].pc /\ sv'[p].pc = sv[p].pc, Same4
  PROVE  Found' /\ Calm'
BY DEF Found, Waited, Kind, Calm, OneForks, Awaited, Waits, Nobody, Early, P!Forking, P!Serving, P!Listens, P!Bound, Same4

LEMMA ClientSteps ==
  ASSUME Whole, NEW p \in Clients,
         \/ P!ClientStep(p) \/ P!Start(p) \/ P!ClientEof(p) \/ P!ForkFails(p)
         \/ \E r \in Reqs : P!ClientRecv(p, r)
  PROVE  \/ /\ ClientTo(p, {"off"}, "connect") \/ ClientTo(p, {"connect", "again"}, "recv") \/ ClientTo(p, {"fork"}, "ended")
            /\ ServersSame /\ Same4
         \/ /\ \E x \in {"recv", "send", "ended"} : ClientTo(p, {"recv", "send"}, x)
            /\ ServersSame /\ Same4
         \/ /\ ClientTo(p, {"connect"}, "fork") /\ ServersSame /\ PathSame
            /\ path # None => ~P!Listens(path)
            /\ disturbed' = (disturbed \/ \E q \in Clients : P!Forking(q))
         \/ /\ ClientTo(p, {"again"}, "failed") /\ ServersSame /\ Same4
            /\ path # None => ~P!Listens(path)
         \/ ClientTo(p, {"fork"}, "wait") /\ ServerTo(p, {"none"}, "stat") /\ Same4
         \/ ClientTo(p, {"wait"}, "again") /\ ServersSame /\ Same4 /\ (P!Serving(p) \/ sv[p].pc = "ended")
<1>a. /\ cl \in ClientType /\ DOMAIN cl = Clients /\ sv \in ServerType /\ DOMAIN sv = Clients
      /\ cl[p].pc \in {"off", "connect", "fork"} => sv[p].pc = "none"
  BY DEF Whole, Types, PipeOK, ClientType, ServerType, Hands
<1>b. ASSUME NEW x, cl' = [cl EXCEPT ![p].pc = x]
      PROVE  cl'[p].pc = x /\ \A q \in Clients \ {p} : cl'[q].pc = cl[q].pc
  BY <1>a, <1>b DEF ClientType
<1> USE DEF P!history, ServersSame, PathSame, Same4
<1>1. CASE P!Start(p)
  <2>1. ClientTo(p, {"off"}, "connect")
    BY <1>b, <1>1 DEF P!Start, ClientTo
  <2> QED BY <1>1, <2>1 DEF P!Start
<1>2. CASE P!Connect(p)
  <2>1. ClientTo(p, {"connect", "again"}, "recv")
    BY <1>b, <1>2 DEF P!Connect, ClientTo
  <2>2. path \in Clients /\ sv' = [sv EXCEPT ![path].back = @ \cup {p}] /\ Same4
    BY <1>2 DEF P!Connect, Whole, Types, PipeOK
  <2>3. ServersSame
    BY <1>a, <2>2 DEF ServerType, ServerRec
  <2> QED BY <2>1, <2>2, <2>3
<1>3. CASE P!NotThere(p)
  <2>1. UNCHANGED <<sv, path, stolen>> /\ (path # None => ~P!Listens(path))
    BY <1>3 DEF P!NotThere
  <2>2. disturbed' = (disturbed \/ (cl[p].pc = "connect" /\ \E q \in Clients : P!Forking(q)))
    BY <1>3 DEF P!NotThere
  <2>3. CASE cl[p].pc = "connect"
    <3>1. ClientTo(p, {"connect"}, "fork")
      BY <1>b, <1>3, <2>3 DEF P!NotThere, ClientTo
    <3>2. disturbed' = (disturbed \/ \E q \in Clients : P!Forking(q))
      BY <2>2, <2>3
    <3> QED BY <2>1, <3>1, <3>2
  <2>4. CASE cl[p].pc = "again"
    <3>1. ClientTo(p, {"again"}, "failed")
      BY <1>b, <1>3, <2>4 DEF P!NotThere, ClientTo
    <3>2. disturbed' = disturbed
      <4>1. cl[p].pc # "connect" /\ disturbed \in BOOLEAN
        BY <2>4 DEF Whole, Types, PipeOK
      <4>2. disturbed' = (disturbed \/ FALSE)
        BY <2>2, <4>1
      <4> QED BY <4>1, <4>2
    <3> QED BY <2>1, <3>1, <3>2
  <2> QED BY <1>3, <2>3, <2>4 DEF P!NotThere
<1>4. CASE P!ForkServer(p)
  <2>1. ClientTo(p, {"fork"}, "wait")
    BY <1>b, <1>4 DEF P!ForkServer, ClientTo
  <2>2. Same4 /\ sv' = [sv EXCEPT ![p].pc = "stat"] /\ sv[p].pc = "none"
    BY <1>a, <1>4 DEF P!ForkServer
  <2>3. ServerTo(p, {"none"}, "stat")
    BY <1>a, <2>2 DEF ServerType, ServerRec, ServerTo
  <2> QED BY <2>1, <2>2, <2>3
<1>5. CASE P!WaitServer(p)
  <2>1. ClientTo(p, {"wait"}, "again")
    BY <1>b, <1>5 DEF P!WaitServer, ClientTo
  <2> QED BY <1>5, <2>1 DEF P!WaitServer
<1>6. CASE P!ClientEof(p) \/ P!ClientSend(p) \/ P!ClientFails(p) \/ \E r \in Reqs : P!ClientRecv(p, r)
  <2>1. PICK x \in {"recv", "send", "ended"} : cl'[p].pc = x /\ \A q \in Clients \ {p} : cl'[q].pc = cl[q].pc
    BY <1>a, <1>6 DEF P!ClientEof, P!ClientSend, P!ClientFails, P!ClientRecv, P!ClientEnds
  <2>2. cl[p].pc \in {"recv", "send"} /\ UNCHANGED <<sv, path, stolen, disturbed>>
    BY <1>6 DEF P!ClientEof, P!ClientSend, P!ClientFails, P!ClientRecv, P!ClientEnds
  <2>3. ClientTo(p, {"recv", "send"}, x)
    BY <2>1, <2>2 DEF ClientTo
  <2> QED BY <2>2, <2>3
<1>7. CASE P!ForkFails(p)
  <2>1. ClientTo(p, {"fork"}, "ended")
    BY <1>b, <1>7 DEF P!ForkFails, ClientTo
  <2> QED BY <1>7, <2>1 DEF P!ForkFails
<1> QED BY <1>1, <1>2, <1>3, <1>4, <1>5, <1>6, <1>7 DEF P!ClientStep

ServingPcs == {"poll", "clients", "send", "accept"}

LEMMA ServerSteps ==
  ASSUME Whole, NEW s \in Clients, P!ServerStep(s) \/ P!MkChildFails(s) \/ P!KillServer(s)
  PROVE  /\ cl' = cl
         /\ \/ ServerTo(s, {"stat"}, "unlink") /\ Same4
            \/ ServerTo(s, {"stat"}, "bind") /\ Same4 /\ path = None
            \/ /\ ServerTo(s, {"unlink"}, "bind") /\ path' = None /\ disturbed' = disturbed
               /\ stolen' = (stolen \/ (path # None /\ P!Bound(path)))
            \/ /\ ServerTo(s, {"bind"}, "listen") /\ path = None /\ path' = s
               /\ stolen' = stolen /\ disturbed' = disturbed
            \/ ServerTo(s, {"bind"}, "ended") /\ path # None /\ Same4
            \/ ServerTo(s, {"listen"}, "mkchild") /\ Same4
            \/ ServerTo(s, {"mkchild"}, "poll") /\ Same4
            \/ /\ ServerTo(s, {"mkchild"} \cup ServingPcs, "ended") /\ PathSame
               /\ disturbed' = (disturbed \/ cl[s].pc \in {"wait", "again"})
            \/ (\E x \in ServingPcs : ServerTo(s, ServingPcs, x)) /\ Same4
<1>a. sv \in ServerType /\ DOMAIN sv = Clients
  BY DEF Whole, Types, PipeOK, ServerType
<1>b. ASSUME NEW x, sv' = [sv EXCEPT ![s].pc = x]
      PROVE  sv'[s].pc = x /\ \A q \in Clients \ {s} : sv'[q].pc = sv[q].pc
  BY <1>a, <1>b DEF ServerType, ServerRec
<1>c. cl' = cl
  BY DEF P!ServerStep, P!MkChildFails, P!KillServer, P!ServerEnds, P!Stat, P!Unlink, P!Bind, P!BindFails,
         P!Listen, P!MkChild, P!Poll, P!ClientsRead, P!Accept, P!SendChild, P!ChildGone, P!ReadClient, P!DropClient
<1>e. ASSUME P!ServerEnds(s) PROVE path' = path /\ sv'[s].pc = "ended" /\ \A q \in Clients \ {s} : sv'[q].pc = sv[q].pc
  BY <1>a, <1>e DEF P!ServerEnds
<1> USE DEF P!history, PathSame, Same4
<1>1. CASE P!Stat(s)
  <2>1. sv' = [sv EXCEPT ![s].pc = IF path = None THEN "bind" ELSE "unlink"] /\ Same4 /\ sv[s].pc = "stat"
    BY <1>1 DEF P!Stat
  <2>2. CASE path = None
    <3>1. ServerTo(s, {"stat"}, "bind")
      BY <1>b, <2>1, <2>2 DEF ServerTo
    <3> QED BY <1>c, <2>1, <2>2, <3>1
  <2>3. CASE path # None
    <3>1. ServerTo(s, {"stat"}, "unlink")
      BY <1>b, <2>1, <2>3 DEF ServerTo
    <3> QED BY <1>c, <2>1, <2>3, <3>1
  <2> QED BY <2>2, <2>3
<1>2. CASE P!Unlink(s)
  <2>1. ServerTo(s, {"unlink"}, "bind")
    BY <1>b, <1>2 DEF P!Unlink, ServerTo
  <2>2. path' = None /\ disturbed' = disturbed /\ stolen' = (stolen \/ (path # None /\ P!Bound(path)))
    BY <1>2 DEF P!Unlink
  <2> QED BY <1>c, <2>1, <2>2
<1>3. CASE P!Bind(s)
  <2>1. ServerTo(s, {"bind"}, "listen")
    BY <1>b, <1>3 DEF P!Bind, ServerTo
  <2>2. path = None /\ path' = s /\ stolen' = stolen /\ disturbed' = disturbed
    BY <1>3 DEF P!Bind
  <2> QED BY <1>c, <2>1, <2>2
<1>4. CASE P!BindFails(s)
  <2>1. ServerTo(s, {"bind"}, "ended")
    BY <1>e, <1>4 DEF P!BindFails, ServerTo
  <2>2. path # None /\ Same4
    BY <1>e, <1>4 DEF P!BindFails
  <2> QED BY <1>c, <2>1, <2>2
<1>5. CASE P!Listen(s)
  <2>1. ServerTo(s, {"listen"}, "mkchild")
    BY <1>b, <1>5 DEF P!Listen, ServerTo
  <2>2. Same4
    BY <1>5 DEF P!Listen
  <2> QED BY <1>c, <2>1, <2>2
<1>6. CASE P!MkChild(s)
  <2>1. ServerTo(s, {"mkchild"}, "poll")
    BY <1>b, <1>6 DEF P!MkChild, ServerTo
  <2>2. Same4
    BY <1>6 DEF P!MkChild
  <2> QED BY <1>c, <2>1, <2>2
<1>7. CASE P!MkChildFails(s) \/ P!ChildGone(s) \/ P!KillServer(s)
  <2>1. P!ServerEnds(s) /\ P!Disturbs(s) /\ sv[s].pc \in {"mkchild"} \cup ServingPcs
    BY <1>7 DEF P!MkChildFails, P!ChildGone, P!KillServer, P!Serving, ServingPcs
  <2>2. ServerTo(s, {"mkchild"} \cup ServingPcs, "ended")
    BY <1>e, <2>1 DEF ServerTo
  <2>3. path' = path /\ stolen' = stolen /\ disturbed' = (disturbed \/ cl[s].pc \in {"wait", "again"})
    BY <1>e, <2>1 DEF P!Disturbs
  <2> QED BY <1>c, <2>2, <2>3
<1>8. CASE P!Poll(s) \/ P!ClientsRead(s) \/ P!Accept(s) \/ P!SendChild(s)
           \/ \E p \in Clients : P!ReadClient(s, p) \/ P!DropClient(s, p)
  <2>1. Same4 /\ sv[s].pc \in ServingPcs /\ sv'[s].pc \in ServingPcs /\ \A q \in Clients \ {s} : sv'[q].pc = sv[q].pc
    <3> USE DEF ServingPcs
    <3>1. CASE P!Poll(s)
      BY <1>a, <3>1 DEF P!Poll, ServerType, ServerRec
    <3>2. CASE P!ClientsRead(s)
      <4>1. PICK x \in {"accept", "poll"} : sv' = [sv EXCEPT ![s].pc = x]
        BY <3>2 DEF P!ClientsRead
      <4> QED BY <1>b, <3>2, <4>1 DEF P!ClientsRead
    <3>3. CASE P!Accept(s)
      BY <1>a, <3>3 DEF P!Accept, ServerType, ServerRec
    <3>4. CASE P!SendChild(s)
      BY <1>a, <3>4 DEF P!SendChild, ServerType, ServerRec
    <3>5. ASSUME NEW p \in Clients, P!ReadClient(s, p) \/ P!DropClient(s, p) PROVE <2>1
      BY <1>a, <3>5 DEF P!ReadClient, P!DropClient, ServerType, ServerRec
    <3> QED BY <1>8, <3>1, <3>2, <3>3, <3>4, <3>5
  <2>2. ServerTo(s, ServingPcs, sv'[s].pc)
    BY <2>1 DEF ServerTo
  <2> QED BY <1>c, <2>1, <2>2
<1> QED BY <1>1, <1>2, <1>3, <1>4, <1>5, <1>6, <1>7, <1>8 DEF P!ServerStep

LEMMA ClientFound ==
  ASSUME Whole, Found, NEW p \in Clients,
         \/ P!ClientStep(p) \/ P!Start(p) \/ P!ClientEof(p) \/ P!ForkFails(p)
         \/ \E r \in Reqs : P!ClientRecv(p, r)
  PROVE  Found'
<1>a. None \notin Clients /\ cl[p].pc \in {"off", "connect", "fork"} => sv[p].pc = "none"
  BY SharedAssumption DEF Whole, Hands
<1>b. path' = path /\ stolen' = stolen
  BY ClientSteps DEF Same4, PathSame
<1> USE DEF Found, Waited, Kind, P!Serving, P!Listens, P!Bound, ClientTo, ServersSame
<1>1. CASE ClientTo(p, {"fork"}, "wait") /\ ServerTo(p, {"none"}, "stat")
  BY <1>b, <1>1 DEF ServerTo
<1>2. CASE ClientTo(p, {"again"}, "failed") /\ ServersSame /\ (path # None => ~P!Listens(path))
  <2>1. ~stolen => sv[p].pc = "ended"
    BY SharedAssumption, <1>2
  <2> QED BY <1>b, <1>2, <2>1
<1>3. CASE ClientTo(p, {"wait"}, "again") /\ ServersSame /\ (P!Serving(p) \/ sv[p].pc = "ended")
  BY <1>b, <1>3
<1>4. ASSUME NEW x, ServersSame, x \notin {"again", "failed"}, cl'[p].pc = x, \A q \in Clients \ {p} : cl'[q].pc = cl[q].pc
      PROVE  Found'
  BY <1>b, <1>4
<1> QED BY <1>1, <1>2, <1>3, <1>4, ClientSteps

LEMMA ServerFound ==
  ASSUME Whole, Found, NEW s \in Clients, P!ServerStep(s) \/ P!MkChildFails(s) \/ P!KillServer(s)
  PROVE  Found'
<1>a. None \notin Clients
  BY SharedAssumption DEF Whole, Types
<1> USE DEF Found, Waited, Kind, P!Serving, P!Listens, P!Bound, ServerTo, Same4, PathSame, ServingPcs
<1>c. cl' = cl
  BY ServerSteps
<1>1. CASE (ServerTo(s, {"stat"}, "unlink") \/ ServerTo(s, {"stat"}, "bind")) /\ Same4
  BY <1>c, <1>1
<1>2. CASE /\ ServerTo(s, {"unlink"}, "bind") /\ path' = None
           /\ stolen' = (stolen \/ (path # None /\ P!Bound(path)))
  <2>1. ~stolen' => ~stolen /\ \A q \in Clients : ~P!Bound(q)
    BY <1>a, <1>2
  <2> QED BY <1>c, <1>2, <2>1
<1>3. CASE ServerTo(s, {"bind"}, "listen") /\ path = None /\ path' = s /\ stolen' = stolen
  BY <1>a, <1>c, <1>3
<1>4. CASE ServerTo(s, {"bind"}, "ended") /\ Same4
  BY <1>c, <1>4
<1>5. CASE (ServerTo(s, {"listen"}, "mkchild") \/ ServerTo(s, {"mkchild"}, "poll")) /\ Same4
  BY <1>c, <1>5
<1>6. CASE ServerTo(s, {"mkchild"} \cup ServingPcs, "ended") /\ PathSame
  BY <1>c, <1>6
<1>7. CASE (\E x \in ServingPcs : ServerTo(s, ServingPcs, x)) /\ Same4
  BY <1>c, <1>7
<1> QED BY <1>1, <1>2, <1>3, <1>4, <1>5, <1>6, <1>7, ServerSteps

LEMMA ClientCalm ==
  ASSUME Whole, Found, Calm, NEW p \in Clients,
         \/ P!ClientStep(p) \/ P!Start(p) \/ P!ClientEof(p) \/ P!ForkFails(p)
         \/ \E r \in Reqs : P!ClientRecv(p, r)
  PROVE  Calm'
<1>a. None \notin Clients /\ (cl[p].pc \in {"off", "connect", "fork"} => sv[p].pc = "none")
  BY SharedAssumption DEF Whole, Hands
<1> SUFFICES ASSUME ~disturbed' PROVE (~stolen /\ OneForks /\ Awaited /\ Waits /\ Nobody)'
  BY DEF Calm
<1>b. ~disturbed /\ path' = path /\ stolen' = stolen
  BY ClientSteps DEF Same4, PathSame
<1>d. ~stolen /\ OneForks /\ Awaited /\ Waits /\ Nobody /\ Kind
  BY <1>b DEF Calm, Found
<1> USE DEF OneForks, Awaited, Waits, Nobody, Early, P!Forking, P!Serving, P!Listens, P!Bound, ClientTo, ServersSame
<1>1. CASE ClientTo(p, {"off"}, "connect") /\ ServersSame
  BY <1>a, <1>b, <1>d, <1>1
<1>2. CASE ClientTo(p, {"connect", "again"}, "recv") /\ ServersSame
  BY <1>a, <1>b, <1>d, <1>2
<1>3. CASE ClientTo(p, {"fork"}, "ended") /\ ServersSame
  BY <1>a, <1>b, <1>d, <1>3
<1>4. CASE (\E x \in {"recv", "send", "ended"} : ClientTo(p, {"recv", "send"}, x)) /\ ServersSame
  BY <1>a, <1>b, <1>d, <1>4
<1>5. CASE /\ ClientTo(p, {"connect"}, "fork") /\ ServersSame
           /\ path # None => ~P!Listens(path)
           /\ disturbed' = (disturbed \/ \E q \in Clients : P!Forking(q))
  <2>1. \A q \in Clients : cl[q].pc \notin {"fork", "wait", "again"}
    BY <1>5
  <2>2. \A s \in Clients : ~P!Bound(s)
    BY <1>a, <1>d, <1>5, <2>1 DEF Kind
  <2> QED BY <1>a, <1>b, <1>d, <1>5, <2>1, <2>2
<1>6. CASE ClientTo(p, {"again"}, "failed") /\ (path # None => ~P!Listens(path))
  <2>1. path = p
    BY <1>d, <1>6 DEF Kind
  <2> QED BY <1>a, <1>d, <1>6, <2>1
<1>7. CASE ClientTo(p, {"fork"}, "wait") /\ ServerTo(p, {"none"}, "stat")
  BY <1>a, <1>b, <1>d, <1>7 DEF ServerTo
<1>8. CASE ClientTo(p, {"wait"}, "again") /\ ServersSame /\ (P!Serving(p) \/ sv[p].pc = "ended")
  BY <1>a, <1>b, <1>d, <1>8
<1> QED BY <1>1, <1>2, <1>3, <1>4, <1>5, <1>6, <1>7, <1>8, ClientSteps

LEMMA ServerCalm ==
  ASSUME Whole, Found, Calm, NEW s \in Clients, P!ServerStep(s) \/ P!MkChildFails(s) \/ P!KillServer(s)
  PROVE  Calm'
<1>a. None \notin Clients
  BY SharedAssumption DEF Whole, Types
<1>c. cl' = cl
  BY ServerSteps
<1> SUFFICES ASSUME ~disturbed' PROVE (~stolen /\ OneForks /\ Awaited /\ Waits /\ Nobody)'
  BY DEF Calm
<1>b. ~disturbed
  BY ServerSteps DEF Same4
<1>d. ~stolen /\ OneForks /\ Awaited /\ Waits /\ Nobody /\ Kind
  BY <1>b DEF Calm, Found
<1> USE DEF OneForks, Awaited, Waits, Nobody, Early, P!Forking, P!Serving, P!Listens, P!Bound, ServerTo, Same4, PathSame,
            ServingPcs
\* What starts is awaited by the one program that forks a server.
<1>e. ASSUME Early(s) \/ sv[s].pc \in {"listen", "mkchild"}
      PROVE  /\ cl[s].pc = "wait" /\ \A q \in Clients \ {s} : ~P!Forking(q)
             /\ \A q \in Clients \ {s} : ~Early(q) /\ sv[q].pc \notin {"listen", "mkchild"}
  BY <1>d, <1>e
<1>1. CASE \/ ServerTo(s, {"stat"}, "unlink") /\ Same4
           \/ ServerTo(s, {"stat"}, "bind") /\ Same4 /\ path = None
  BY <1>c, <1>d, <1>e, <1>1
<1>2. CASE /\ ServerTo(s, {"unlink"}, "bind") /\ path' = None
           /\ stolen' = (stolen \/ (path # None /\ P!Bound(path)))
  <2>1. \A q \in Clients : ~P!Bound(q)
    BY <1>d, <1>2
  <2>2. path # None => path \in Clients
    BY DEF Whole, Types, PipeOK
  <2>3. ~stolen'
    BY <1>2, <1>d, <2>1, <2>2
  <2> QED BY <1>c, <1>d, <1>e, <1>2, <2>1, <2>3
<1>3. CASE ServerTo(s, {"bind"}, "listen") /\ path = None /\ path' = s /\ stolen' = stolen
  BY <1>c, <1>d, <1>e, <1>3
<1>4. CASE ServerTo(s, {"bind"}, "ended") /\ path # None
  BY <1>d, <1>4
<1>5. CASE (ServerTo(s, {"listen"}, "mkchild") \/ ServerTo(s, {"mkchild"}, "poll")) /\ Same4
  BY <1>c, <1>d, <1>e, <1>5
<1>6. CASE /\ ServerTo(s, {"mkchild"} \cup ServingPcs, "ended") /\ PathSame
           /\ disturbed' = (disturbed \/ cl[s].pc \in {"wait", "again"})
  <2>1. cl[s].pc \notin {"wait", "again"}
    BY <1>6
  <2> QED BY <1>c, <1>d, <1>6, <2>1
<1>7. CASE (\E x \in ServingPcs : ServerTo(s, ServingPcs, x)) /\ Same4
  BY <1>c, <1>d, <1>7
<1> QED BY <1>1, <1>2, <1>3, <1>4, <1>5, <1>6, <1>7, ServerSteps

LEMMA StartsStep ==
  ASSUME Whole, Found, Calm, [Next]_vars
  PROVE  Found' /\ Calm'
<1>1. ASSUME UNCHANGED pipe PROVE Found' /\ Calm'
  BY <1>1, SameStarts DEF pipe, Same4
<1>2. CASE \E p \in Clients : Client(p) \/ Start(p) \/ Eof(p) \/ ForkFails(p) \/ \E r \in Reqs : Request(p, r)
  BY <1>2, ClientFound, ClientCalm DEF Client, Start, Eof, ForkFails, Request
<1>3. CASE \E s \in Clients : Server(s) \/ MkChildFails(s) \/ P!KillServer(s)
  BY <1>3, ServerFound, ServerCalm DEF Server, MkChildFails
<1>4. CASE (\E s \in Clients : Userplex(s) \/ SendError(s)) \/ (\E k \in U!Kids : Kid(k)) \/ UNCHANGED vars
  BY <1>1, <1>4 DEF Userplex, SendError, Kid, vars
<1>5. CASE Kill
  BY <1>1, <1>3, <1>5 DEF Kill
<1> QED BY <1>2, <1>3, <1>4, <1>5 DEF Next, Work

\* clconnect(), mklisten() and the fork of the server between two clconnect(): for any number of
\* programs that start at once, and in every order of their steps, a server is at the path and a
\* program whose own server lives gets its connection, until a server has unlinked what another that
\* lives has bound.  That, and any failure, takes two programs that both find no server before
\* either is connected to its own, or a server that ends before its program is connected.
THEOREM AlwaysDecoupled == Spec => []Decoupled
<1>1. Whole /\ Found /\ Calm /\ [Next]_vars => Found' /\ Calm'
  BY StartsStep
<1>2. Found /\ Calm => Decoupled
  BY DEF Found, Kind, Calm, Waits, Decoupled
<1> QED BY StartsInit, WholeInvariant, <1>1, <1>2, PTL DEF Spec
=============================================================================
