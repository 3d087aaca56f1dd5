--------------------------- MODULE PyServeProofs ---------------------------
(***************************************************************************)
(* serve.py: for any number of requests and threads, and any limits, each  *)
(* request is held by one of the main thread, a thread, a queue and the    *)
(* response thread until it is closed, once.                               *)
(***************************************************************************)
EXTENDS PyServe, FiniteSetTheorems, SequenceTheorems, TLAPS

-----------------------------------------------------------------------------
(* The inductive invariant.                                                *)

\* What each thread is doing says whether it has a request, and which sets it is in.
Active == {t \in Ids : th[t] \notin {"none", "close", "gone"}}
Registering(t) == /\ pc = "register" /\ t = nreq
                  /\ serves[t] = IF cname = "pool" THEN 0 ELSE t
Doing(t) == /\ th[t] \in {"none", "write", "look", "wait", "expired", "gone"} => serves[t] = 0
            /\ th[t] \in {"run", "iterator", "close"} => serves[t] # 0
            /\ th[t] = "starting" => Registering(t)
            /\ t > nreq => th[t] = "none"
Members == /\ current = {t \in Ids : th[t] \notin {"none", "starting", "close", "gone"}}
           /\ waiting = {t \in Ids : th[t] \in {"wait", "expired"}}
           /\ Cardinality(Active) <= MaxThreads

\* A thread is in the list of its condition once.
Waiters == /\ waiters \in Seq(Ids)
           /\ \A i \in DOMAIN waiters : waiters[i] \in waiting
           /\ \A i, j \in DOMAIN waiters : waiters[i] = waiters[j] => i = j

\* The main thread is somewhere else with each handler; the thread that it is about to start is new.
Steering ==
  /\ pc \in {"admit", "full"} => cname \in {"free", "rplex"}
  /\ pc \in {"put", "qfull", "spawn"} => cname = "pool"
  /\ pc \in {"run", "admit", "full", "put", "qfull", "spawn", "register"} => nreq \in Ids
  /\ pc \in {"admit", "full", "put", "qfull", "spawn"} => th[nreq] = "none"

\* Where a request may be.
Mine(r) == r = nreq /\ pc \in {"run", "admit", "full", "put", "qfull"}
InTh(r) == \E t \in Ids : serves[t] = r
InQ(r) == \E i \in DOMAIN queue : queue[i] = r
InC(r) == \E i \in DOMAIN cqueue : cqueue[i].req = r
InR(r) == r \in DOMAIN resp

Lists == /\ queue \in Seq(Ids) /\ Len(queue) <= QSize
         /\ cqueue \in Seq([req : Ids, body : Bodies])
         /\ \A r \in Ids : r > nreq => ~InTh(r) /\ ~InQ(r) /\ ~InC(r) /\ ~InR(r)

\* It is at one of them at most, and there once.
ThOnce == \A t, u \in Ids : serves[t] # 0 /\ serves[u] = serves[t] => u = t
QOnce == \A i, j \in DOMAIN queue : queue[i] = queue[j] => i = j
COnce == \A i, j \in DOMAIN cqueue : cqueue[i].req = cqueue[j].req => i = j
Apart == \A r \in Ids : /\ Mine(r) => ~InTh(r) /\ ~InQ(r) /\ ~InC(r) /\ ~InR(r)
                        /\ InTh(r) => ~InQ(r) /\ ~InC(r) /\ ~InR(r)
                        /\ InQ(r) => ~InC(r) /\ ~InR(r)
                        /\ InC(r) => ~InR(r)

\* And it is closed when it is at none.
Somewhere(r) == Mine(r) \/ InTh(r) \/ InQ(r) \/ InC(r) \/ InR(r)
Closing == \A r \in Ids : /\ closed[r] \in {0, 1}
                          /\ Somewhere(r) \/ r > nreq => closed[r] = 0
                          /\ Up /\ r <= nreq /\ ~Somewhere(r) => closed[r] = 1

Threads == (\A t \in Ids : Doing(t)) /\ Members /\ Waiters /\ Steering
Requests == Lists /\ ThOnce /\ QOnce /\ COnce /\ Apart /\ Closing
Whole == TypeOK /\ Threads /\ Requests

-----------------------------------------------------------------------------
(* Lemmas about sequences.                                                 *)

\* A member that occurs once is at the place that SelectInSeq() gives.
LEMMA FirstIsOnly ==
  ASSUME NEW S, NEW s \in Seq(S), NEW k \in DOMAIN s,
         \A i \in DOMAIN s : s[i] = s[k] => i = k
  PROVE  RemoveFirst(s, s[k]) = RemoveAt(s, k)
  <1>1. {i \in 1 .. Len(s) : s[i] = s[k]} = {k}
    OBVIOUS
  <1>2. SelectInSeq(s, LAMBDA v : v = s[k]) = Min({k})
    BY <1>1 DEF SelectInSeq
  <1>3. Min({k}) = k
    BY DEF Min
  <1>4. \E i \in 1 .. Len(s) : s[i] = s[k]
    OBVIOUS
  <1> QED BY <1>2, <1>3, <1>4 DEF RemoveFirst

\* Without it the others are left, each once.
LEMMA WithoutOne ==
  ASSUME NEW S, NEW s \in Seq(S), NEW e,
         \A i, j \in DOMAIN s : s[i] = s[j] => i = j
  PROVE  LET z == RemoveFirst(s, e) IN
         /\ z \in Seq(S)
         /\ \A i \in DOMAIN z : \E j \in DOMAIN s : z[i] = s[j]
         /\ \A i \in DOMAIN z : z[i] # e
         /\ \A i, j \in DOMAIN z : z[i] = z[j] => i = j
  <1>1. CASE \E i \in 1 .. Len(s) : s[i] = e
    <2>1. PICK k \in 1 .. Len(s) : s[k] = e
      BY <1>1
    <2> DEFINE z == RemoveFirst(s, e)
               a == SubSeq(s, 1, k - 1)
               b == SubSeq(s, k + 1, Len(s))
    <2>2. k \in DOMAIN s
      OBVIOUS
    <2>3. RemoveFirst(s, s[k]) = RemoveAt(s, k)
      BY <2>2, FirstIsOnly
    <2>4. z = a \o b
      BY <2>1, <2>3 DEF RemoveAt
    <2>5. /\ a \in Seq(S) /\ Len(a) = k - 1
          /\ \A i \in 1 .. k - 1 : a[i] = s[i]
      OBVIOUS
    <2>6. /\ b \in Seq(S) /\ Len(b) = Len(s) - k
          /\ \A i \in 1 .. Len(s) - k : b[i] = s[i + k]
      OBVIOUS
    <2> HIDE DEF z, a, b
    <2>7. z \in Seq(S) /\ Len(z) = Len(s) - 1
      BY <2>4, <2>5, <2>6
    <2>8. \A i \in 1 .. Len(s) - 1 : z[i] = IF i < k THEN s[i] ELSE s[i + 1]
      <3> SUFFICES ASSUME NEW i \in 1 .. Len(s) - 1
                   PROVE  z[i] = IF i < k THEN s[i] ELSE s[i + 1]
        OBVIOUS
      <3>1. CASE i < k
        <4>1. z[i] = a[i]
          BY <2>4, <2>5, <2>6, <3>1
        <4> QED BY <4>1, <2>5, <3>1
      <3>2. CASE ~(i < k)
        <4>1. z[i] = b[i - (k - 1)]
          BY <2>4, <2>5, <2>6, <3>2
        <4>2. i - (k - 1) \in 1 .. Len(s) - k /\ i - (k - 1) + k = i + 1
          BY <3>2
        <4> QED BY <4>1, <4>2, <2>6, <3>2
      <3> QED BY <3>1, <3>2
    <2>9. \A i \in DOMAIN z : i \in 1 .. Len(s) - 1
      BY <2>7
    <2>10. \A i \in 1 .. Len(s) - 1 : i \in DOMAIN s /\ i + 1 \in DOMAIN s
      OBVIOUS
    <2>11. \A i \in DOMAIN z : \E j \in DOMAIN s : j # k /\ z[i] = s[j]
      <3> SUFFICES ASSUME NEW i \in DOMAIN z PROVE \E j \in DOMAIN s : j # k /\ z[i] = s[j]
        OBVIOUS
      <3>1. CASE i < k
        BY <2>8, <2>9, <2>10, <3>1
      <3>2. CASE ~(i < k)
        <4>1. i + 1 \in DOMAIN s /\ z[i] = s[i + 1] /\ i + 1 # k
          BY <2>8, <2>9, <2>10, <3>2
        <4> QED BY <4>1
      <3> QED BY <3>1, <3>2
    <2>12. \A i \in DOMAIN z : z[i] # e
      BY <2>1, <2>2, <2>11
    <2>13. \A i, j \in DOMAIN z : z[i] = z[j] => i = j
      <3> SUFFICES ASSUME NEW i \in DOMAIN z, NEW j \in DOMAIN z, z[i] = z[j] PROVE i = j
        OBVIOUS
      <3>1. i \in 1 .. Len(s) - 1 /\ j \in 1 .. Len(s) - 1
        BY <2>9
      <3>2. CASE i < k /\ j < k
        BY <2>8, <2>10, <3>1, <3>2
      <3>3. CASE i < k /\ ~(j < k)
        <4>1. i \in DOMAIN s /\ j + 1 \in DOMAIN s /\ s[i] = s[j + 1]
          BY <2>8, <2>10, <3>1, <3>3
        <4> QED BY <4>1, <3>1, <3>3
      <3>4. CASE ~(i < k) /\ j < k
        <4>1. i + 1 \in DOMAIN s /\ j \in DOMAIN s /\ s[i + 1] = s[j]
          BY <2>8, <2>10, <3>1, <3>4
        <4> QED BY <4>1, <3>1, <3>4
      <3>5. CASE ~(i < k) /\ ~(j < k)
        <4>1. i + 1 \in DOMAIN s /\ j + 1 \in DOMAIN s /\ s[i + 1] = s[j + 1]
          BY <2>8, <2>10, <3>1, <3>5
        <4> QED BY <4>1, <3>1
      <3> QED BY <3>2, <3>3, <3>4, <3>5
    <2> QED BY <2>7, <2>11, <2>12, <2>13 DEF z
  <1>2. CASE ~\E i \in 1 .. Len(s) : s[i] = e
    BY <1>2 DEF RemoveFirst
  <1> QED BY <1>1, <1>2

\* A queue from which the first is taken, and one at whose end another is put.
LEMMA TailOf ==
  ASSUME NEW S, NEW s \in Seq(S), s # <<>>
  PROVE  /\ Head(s) \in S /\ Tail(s) \in Seq(S) /\ Len(Tail(s)) = Len(s) - 1
         /\ 1 \in DOMAIN s /\ Head(s) = s[1]
         /\ \A i \in DOMAIN Tail(s) : i + 1 \in DOMAIN s /\ Tail(s)[i] = s[i + 1]
         /\ \A i \in DOMAIN s : i = 1 \/ (i - 1 \in DOMAIN Tail(s) /\ s[i] = Tail(s)[i - 1])
  OBVIOUS
LEMMA AppendTo ==
  ASSUME NEW S, NEW s \in Seq(S), NEW e \in S
  PROVE  /\ Append(s, e) \in Seq(S) /\ Len(Append(s, e)) = Len(s) + 1
         /\ Len(s) + 1 \in DOMAIN Append(s, e) /\ Append(s, e)[Len(s) + 1] = e
         /\ \A i \in DOMAIN s : i \in DOMAIN Append(s, e) /\ Append(s, e)[i] = s[i]
         /\ \A i \in DOMAIN Append(s, e) : i = Len(s) + 1 \/ i \in DOMAIN s
         /\ Len(s) + 1 \notin DOMAIN s
  OBVIOUS

-----------------------------------------------------------------------------
(* How a request comes to one of its places and leaves it.                 *)

LEMMA ThreadGets ==
  ASSUME NEW t \in Ids, NEW q \in Ids, serves \in [Ids -> 0 .. MaxReq], ThOnce,
         serves[t] = 0, ~InTh(q), serves' = [serves EXCEPT ![t] = q]
  PROVE  /\ ThOnce'
         /\ \A r \in Ids : InTh(r)' <=> InTh(r) \/ r = q
  <1>1. /\ serves'[t] = q
        /\ \A u \in Ids \ {t} : serves'[u] = serves[u]
    OBVIOUS
  <1>2. q # 0 /\ \A u \in Ids : serves[u] # q
    BY PyServeAssumption DEF InTh, Ids
  <1>3. ThOnce'
    BY <1>1, <1>2 DEF ThOnce
  <1>4. ASSUME NEW r \in Ids PROVE InTh(r)' <=> InTh(r) \/ r = q
    <2>1. r # 0
      BY PyServeAssumption DEF Ids
    <2> QED BY <1>1, <2>1 DEF InTh
  <1> QED BY <1>3, <1>4

LEMMA ThreadGives ==
  ASSUME NEW t \in Ids, serves \in [Ids -> 0 .. MaxReq], ThOnce,
         serves[t] # 0, serves' = [serves EXCEPT ![t] = 0]
  PROVE  /\ ThOnce'
         /\ \A r \in Ids : InTh(r)' <=> InTh(r) /\ r # serves[t]
         /\ serves[t] \in Ids /\ InTh(serves[t])
  <1>1. /\ serves'[t] = 0
        /\ \A u \in Ids \ {t} : serves'[u] = serves[u]
    OBVIOUS
  <1>2. ThOnce'
    BY <1>1 DEF ThOnce
  <1>3. ASSUME NEW r \in Ids PROVE InTh(r)' <=> InTh(r) /\ r # serves[t]
    <2>1. r # 0
      BY PyServeAssumption DEF Ids
    <2> QED BY <1>1, <2>1 DEF InTh, ThOnce
  <1>4. serves[t] \in Ids
    BY PyServeAssumption DEF Ids
  <1> QED BY <1>2, <1>3, <1>4 DEF InTh

LEMMA QueueGets ==
  ASSUME NEW q \in Ids, queue \in Seq(Ids), QOnce, ~InQ(q), queue' = Append(queue, q)
  PROVE  /\ QOnce' /\ queue' \in Seq(Ids) /\ Len(queue') = Len(queue) + 1
         /\ \A r \in Ids : InQ(r)' <=> InQ(r) \/ r = q
  <1>1. /\ queue' \in Seq(Ids) /\ Len(queue') = Len(queue) + 1
        /\ Len(queue) + 1 \in DOMAIN queue' /\ queue'[Len(queue) + 1] = q
        /\ \A i \in DOMAIN queue : i \in DOMAIN queue' /\ queue'[i] = queue[i]
        /\ \A i \in DOMAIN queue' : i = Len(queue) + 1 \/ i \in DOMAIN queue
        /\ Len(queue) + 1 \notin DOMAIN queue
    BY AppendTo
  <1>2. QOnce'
    BY <1>1 DEF QOnce, InQ
  <1>3. ASSUME NEW r \in Ids PROVE InQ(r)' <=> InQ(r) \/ r = q
    BY <1>1 DEF InQ
  <1> QED BY <1>1, <1>2, <1>3

LEMMA QueueGives ==
  ASSUME queue \in Seq(Ids), QOnce, queue # <<>>, queue' = Tail(queue)
  PROVE  /\ QOnce' /\ queue' \in Seq(Ids) /\ Len(queue') = Len(queue) - 1
         /\ \A r \in Ids : InQ(r)' <=> InQ(r) /\ r # Head(queue)
         /\ Head(queue) \in Ids /\ InQ(Head(queue))
  <1>1. /\ Head(queue) \in Ids /\ queue' \in Seq(Ids) /\ Len(queue') = Len(queue) - 1
        /\ 1 \in DOMAIN queue /\ Head(queue) = queue[1]
        /\ \A i \in DOMAIN queue' : i + 1 \in DOMAIN queue /\ queue'[i] = queue[i + 1]
        /\ \A i \in DOMAIN queue : i = 1 \/ (i - 1 \in DOMAIN queue' /\ queue[i] = queue'[i - 1])
    BY TailOf
  <1>2. \A i \in DOMAIN queue' : i \in Nat /\ i # 0
    BY <1>1
  <1>3. QOnce'
    BY <1>1, <1>2 DEF QOnce
  <1>4. ASSUME NEW r \in Ids PROVE InQ(r)' <=> InQ(r) /\ r # Head(queue)
    <2>1. ASSUME InQ(r)' PROVE InQ(r) /\ r # Head(queue)
      <3>1. PICK i \in DOMAIN queue' : queue'[i] = r
        BY <2>1 DEF InQ
      <3>2. i + 1 \in DOMAIN queue /\ queue[i + 1] = r /\ i + 1 # 1
        BY <1>1, <1>2, <3>1
      <3> QED BY <1>1, <3>2 DEF InQ, QOnce
    <2>2. ASSUME InQ(r), r # Head(queue) PROVE InQ(r)'
      <3>1. PICK i \in DOMAIN queue : queue[i] = r
        BY <2>2 DEF InQ
      <3>2. i - 1 \in DOMAIN queue' /\ queue'[i - 1] = r
        BY <1>1, <2>2, <3>1
      <3> QED BY <3>2 DEF InQ
    <2> QED BY <2>1, <2>2
  <1> QED BY <1>1, <1>3, <1>4 DEF InQ

LEMMA CqueueGets ==
  ASSUME NEW q \in Ids, NEW b \in Bodies, cqueue \in Seq([req : Ids, body : Bodies]), COnce, ~InC(q),
         cqueue' = Append(cqueue, [req |-> q, body |-> b])
  PROVE  /\ COnce' /\ cqueue' \in Seq([req : Ids, body : Bodies])
         /\ \A r \in Ids : InC(r)' <=> InC(r) \/ r = q
  <1> DEFINE R == [req : Ids, body : Bodies]
             e == [req |-> q, body |-> b]
  <1>1. e \in R /\ e.req = q
    OBVIOUS
  <1>2. cqueue \in Seq(R) /\ cqueue' = Append(cqueue, e)
    OBVIOUS
  <1> HIDE DEF R, e
  <1>3. /\ cqueue' \in Seq(R)
        /\ Len(cqueue) + 1 \in DOMAIN cqueue' /\ cqueue'[Len(cqueue) + 1] = e
        /\ \A i \in DOMAIN cqueue : i \in DOMAIN cqueue' /\ cqueue'[i] = cqueue[i]
        /\ \A i \in DOMAIN cqueue' : i = Len(cqueue) + 1 \/ i \in DOMAIN cqueue
        /\ Len(cqueue) + 1 \notin DOMAIN cqueue
    BY <1>1, <1>2, AppendTo
  <1>4. COnce'
    BY <1>1, <1>3 DEF COnce, InC
  <1>5. ASSUME NEW r \in Ids PROVE InC(r)' <=> InC(r) \/ r = q
    BY <1>1, <1>3 DEF InC
  <1> QED BY <1>3, <1>4, <1>5 DEF R

LEMMA CqueueGives ==
  ASSUME cqueue \in Seq([req : Ids, body : Bodies]), COnce, cqueue # <<>>, cqueue' = Tail(cqueue)
  PROVE  /\ COnce' /\ cqueue' \in Seq([req : Ids, body : Bodies])
         /\ \A r \in Ids : InC(r)' <=> InC(r) /\ r # Head(cqueue).req
         /\ Head(cqueue).req \in Ids /\ InC(Head(cqueue).req)
  <1> DEFINE R == [req : Ids, body : Bodies]
  <1>0. cqueue \in Seq(R) /\ \A e \in R : e.req \in Ids
    OBVIOUS
  <1> HIDE DEF R
  <1>1. /\ Head(cqueue) \in R /\ cqueue' \in Seq(R)
        /\ 1 \in DOMAIN cqueue /\ Head(cqueue) = cqueue[1]
        /\ \A i \in DOMAIN cqueue' : i + 1 \in DOMAIN cqueue /\ cqueue'[i] = cqueue[i + 1]
        /\ \A i \in DOMAIN cqueue : i = 1 \/ (i - 1 \in DOMAIN cqueue' /\ cqueue[i] = cqueue'[i - 1])
    BY <1>0, TailOf
  <1>2. \A i \in DOMAIN cqueue' : i \in Nat /\ i # 0
    BY <1>1
  <1>3. COnce'
    BY <1>1, <1>2 DEF COnce
  <1>4. ASSUME NEW r \in Ids PROVE InC(r)' <=> InC(r) /\ r # Head(cqueue).req
    <2>1. ASSUME InC(r)' PROVE InC(r) /\ r # Head(cqueue).req
      <3>1. PICK i \in DOMAIN cqueue' : cqueue'[i].req = r
        BY <2>1 DEF InC
      <3>2. i + 1 \in DOMAIN cqueue /\ cqueue[i + 1].req = r /\ i + 1 # 1
        BY <1>1, <1>2, <3>1
      <3> QED BY <1>1, <3>2 DEF InC, COnce
    <2>2. ASSUME InC(r), r # Head(cqueue).req PROVE InC(r)'
      <3>1. PICK i \in DOMAIN cqueue : cqueue[i].req = r
        BY <2>2 DEF InC
      <3>2. i - 1 \in DOMAIN cqueue' /\ cqueue'[i - 1].req = r
        BY <1>1, <2>2, <3>1
      <3> QED BY <3>2 DEF InC
    <2> QED BY <2>1, <2>2
  <1>5. Head(cqueue).req \in Ids
    BY <1>0, <1>1
  <1> QED BY <1>1, <1>3, <1>4, <1>5 DEF InC, R

\* The response to r goes on, or ends and is closed.
LEMMA ResponseGoesOn ==
  ASSUME NEW r \in Ids, NEW x, Becomes(r, x), closed \in [Ids -> 0 .. 2]
  PROVE  \/ /\ closed' = [closed EXCEPT ![r] = @ + 1]
            /\ \A q \in Ids : InR(q)' <=> InR(q) /\ q # r
         \/ /\ closed' = closed
            /\ \A q \in Ids : InR(q)' <=> InR(q) \/ q = r
  <1>1. CASE x.over /\ x.buf = 0
    <2>1. closed' = [closed EXCEPT ![r] = @ + 1] /\ DOMAIN resp' = DOMAIN resp \ {r}
      BY <1>1 DEF Becomes, Close
    <2> QED BY <2>1 DEF InR
  <1>2. CASE ~(x.over /\ x.buf = 0)
    <2>1. closed' = closed /\ DOMAIN resp' = DOMAIN resp \cup {r}
      BY <1>2 DEF Becomes
    <2> QED BY <2>1 DEF InR
  <1> QED BY <1>1, <1>2

-----------------------------------------------------------------------------
(* What the steps do to where requests are.                                *)

\* Nobody is given a request.
LEMMA NothingMoves ==
  ASSUME Requests, UNCHANGED <<serves, queue, cqueue, closed, nreq>>, DOMAIN resp' = DOMAIN resp,
         Up' => Up, \A r \in Ids : Mine(r)' <=> Mine(r)
  PROVE  Requests'
  <1>1. \A r \in Ids : /\ InTh(r)' <=> InTh(r)
                       /\ InQ(r)' <=> InQ(r)
                       /\ InC(r)' <=> InC(r)
                       /\ InR(r)' <=> InR(r)
    BY DEF InTh, InQ, InC, InR
  <1>2. Lists' /\ ThOnce' /\ QOnce' /\ COnce'
    BY <1>1 DEF Requests, Lists, ThOnce, QOnce, COnce
  <1>3. Apart'
    BY <1>1 DEF Requests, Apart
  <1>4. Closing'
    BY <1>1 DEF Requests, Closing, Somewhere
  <1> QED BY <1>2, <1>3, <1>4 DEF Requests

\* A request q goes from one place to the next: what is known of where the others are.
LEMMA OneMoves ==
  ASSUME Requests, nreq \in 0 .. MaxReq, NEW q \in Ids, q <= nreq, Somewhere(q), nreq' = nreq, Up' => Up, closed' = closed,
         Somewhere(q)',
         ThOnce', QOnce', COnce', queue' \in Seq(Ids), Len(queue') <= QSize,
         cqueue' \in Seq([req : Ids, body : Bodies]),
         \A r \in Ids : r # q => /\ Mine(r)' <=> Mine(r)
                                 /\ InTh(r)' <=> InTh(r)
                                 /\ InQ(r)' <=> InQ(r)
                                 /\ InC(r)' <=> InC(r)
                                 /\ InR(r)' <=> InR(r),
         /\ Mine(q)' => ~InTh(q)' /\ ~InQ(q)' /\ ~InC(q)' /\ ~InR(q)'
         /\ InTh(q)' => ~InQ(q)' /\ ~InC(q)' /\ ~InR(q)'
         /\ InQ(q)' => ~InC(q)' /\ ~InR(q)'
         /\ InC(q)' => ~InR(q)'
  PROVE  Requests'
  <1>0. MaxReq \in Nat
    BY PyServeAssumption
  <1>1. Lists'
    BY <1>0 DEF Requests, Lists, Ids
  <1>2. Apart'
    BY DEF Requests, Apart
  <1>3. Closing'
    BY DEF Requests, Closing, Somewhere
  <1> QED BY <1>1, <1>2, <1>3 DEF Requests

\* A request q is closed, and is nowhere then.
LEMMA OneCloses ==
  ASSUME Requests, nreq \in 0 .. MaxReq, NEW q \in Ids, q <= nreq, Somewhere(q), nreq' = nreq, Up' => Up,
         closed \in [Ids -> 0 .. 2], closed' = [closed EXCEPT ![q] = @ + 1],
         ~Somewhere(q)',
         ThOnce', QOnce', COnce', queue' \in Seq(Ids), Len(queue') <= QSize,
         cqueue' \in Seq([req : Ids, body : Bodies]),
         \A r \in Ids : r # q => /\ Mine(r)' <=> Mine(r)
                                 /\ InTh(r)' <=> InTh(r)
                                 /\ InQ(r)' <=> InQ(r)
                                 /\ InC(r)' <=> InC(r)
                                 /\ InR(r)' <=> InR(r)
  PROVE  Requests'
  <1>1. closed[q] = 0 /\ closed'[q] = 1 /\ \A r \in Ids : r # q => closed'[r] = closed[r]
    BY DEF Requests, Closing
  <1>2. Lists'
    BY DEF Requests, Lists, Somewhere
  <1>3. Apart'
    BY DEF Requests, Apart, Somewhere
  <1>4. Closing'
    <2> SUFFICES ASSUME NEW r \in Ids
                 PROVE  /\ closed'[r] \in {0, 1}
                        /\ Somewhere(r)' \/ r > nreq' => closed'[r] = 0
                        /\ Up' /\ r <= nreq' /\ ~Somewhere(r)' => closed'[r] = 1
      BY DEF Closing
    <2>1. CASE r = q
      <3>1. ~(r > nreq)
        BY <2>1, PyServeAssumption DEF Ids
      <3> QED BY <1>1, <2>1, <3>1
    <2>2. CASE r # q
      <3>1. Somewhere(r)' <=> Somewhere(r)
        BY <2>2 DEF Somewhere
      <3> QED BY <1>1, <2>2, <3>1 DEF Requests, Closing
    <2> QED BY <2>1, <2>2
  <1> QED BY <1>2, <1>3, <1>4 DEF Requests

\* A request that is somewhere has come.
LEMMA HasCome ==
  ASSUME TypeOK, Requests, NEW r \in Ids, Somewhere(r)
  PROVE  r <= nreq /\ nreq \in Ids
  <1>1. CASE Mine(r)
    BY <1>1, PyServeAssumption DEF Mine, TypeOK, Ids
  <1>2. CASE ~Mine(r)
    BY <1>2, PyServeAssumption DEF Requests, Lists, Somewhere, TypeOK, Ids
  <1> QED BY <1>1, <1>2

-----------------------------------------------------------------------------
(* The steps of the main thread, and their effect on requests.             *)

LEMMA RequestsRecv == ASSUME Whole, Recv PROVE Requests'
  <1>1. /\ nreq < MaxReq /\ nreq \in 0 .. MaxReq /\ nreq' = nreq + 1 /\ pc = "recv"
        /\ pc' \in {"run", "put", "admit"}
        /\ UNCHANGED <<serves, queue, cqueue, resp, closed>>
    BY DEF Recv, Whole, TypeOK, threads, pool, rplex
  <1>2. nreq + 1 \in Ids
    BY <1>1, PyServeAssumption DEF Ids
  <1>3. \A r \in Ids : /\ ~Mine(r)
                       /\ Mine(r)' <=> r = nreq + 1
                       /\ InTh(r)' <=> InTh(r)
                       /\ InQ(r)' <=> InQ(r)
                       /\ InC(r)' <=> InC(r)
                       /\ InR(r)' <=> InR(r)
    BY <1>1 DEF Mine, InTh, InQ, InC, InR
  <1>4. /\ nreq + 1 > nreq
        /\ \A r \in Ids : r > nreq + 1 => r > nreq
        /\ \A r \in Ids : r <= nreq + 1 /\ r # nreq + 1 => r <= nreq
    BY <1>1, PyServeAssumption DEF Ids
  <1>5. Lists'
    BY <1>1, <1>3, <1>4 DEF Whole, Requests, Lists
  <1>6. ThOnce' /\ QOnce' /\ COnce'
    BY <1>1 DEF Whole, Requests, ThOnce, QOnce, COnce
  <1>7. Apart'
    BY <1>2, <1>3, <1>4 DEF Whole, Requests, Apart, Lists
  <1>8. Up /\ Up'
    BY <1>1 DEF Up
  <1>9. Closing'
    <2> SUFFICES ASSUME NEW r \in Ids
                 PROVE  /\ closed'[r] \in {0, 1}
                        /\ Somewhere(r)' \/ r > nreq' => closed'[r] = 0
                        /\ Up' /\ r <= nreq' /\ ~Somewhere(r)' => closed'[r] = 1
      BY DEF Closing
    <2>1. CASE r = nreq + 1
      BY <1>1, <1>3, <1>4, <2>1 DEF Whole, Requests, Closing, Somewhere
    <2>2. CASE r # nreq + 1
      <3>1. Somewhere(r)' <=> Somewhere(r)
        BY <1>3, <2>2 DEF Somewhere
      <3>2. /\ r > nreq + 1 => r > nreq
            /\ r <= nreq + 1 => r <= nreq
        BY <1>4, <2>2
      <3> QED BY <1>1, <1>8, <3>1, <3>2 DEF Whole, Requests, Closing
    <2> QED BY <2>1, <2>2
  <1> QED BY <1>5, <1>6, <1>7, <1>9 DEF Requests

LEMMA RequestsRunHere == ASSUME Whole, RunHere PROVE Requests'
  <1>1. /\ pc = "run" /\ pc' = "recv" /\ closed' = [closed EXCEPT ![nreq] = @ + 1]
        /\ UNCHANGED <<serves, queue, cqueue, resp, nreq>>
    BY DEF RunHere, Close, threads, pool, rplex
  <1>2. nreq \in Ids /\ nreq \in 0 .. MaxReq /\ closed \in [Ids -> 0 .. 2] /\ nreq <= nreq
    BY <1>1, PyServeAssumption DEF Whole, Threads, Steering, TypeOK, Ids
  <1>3. Mine(nreq) /\ Somewhere(nreq)
    BY <1>1 DEF Mine, Somewhere
  <1>4. \A r \in Ids : /\ ~Mine(r)'
                       /\ r # nreq => ~Mine(r)
                       /\ InTh(r)' <=> InTh(r)
                       /\ InQ(r)' <=> InQ(r)
                       /\ InC(r)' <=> InC(r)
                       /\ InR(r)' <=> InR(r)
    BY <1>1 DEF Mine, InTh, InQ, InC, InR
  <1>5. ~InTh(nreq) /\ ~InQ(nreq) /\ ~InC(nreq) /\ ~InR(nreq)
    BY <1>2, <1>3 DEF Whole, Requests, Apart
  <1>6. PICK q \in Ids : q = nreq
    BY <1>2
  <1>7. ~Somewhere(q)'
    BY <1>4, <1>5, <1>6 DEF Somewhere
  <1>8. Somewhere(q) /\ q <= nreq /\ closed' = [closed EXCEPT ![q] = @ + 1]
    BY <1>1, <1>2, <1>3, <1>6
  <1>9. ThOnce' /\ QOnce' /\ COnce'
    BY <1>1 DEF Whole, Requests, ThOnce, QOnce, COnce
  <1>10. /\ queue' \in Seq(Ids) /\ Len(queue') <= QSize
         /\ cqueue' \in Seq([req : Ids, body : Bodies])
    BY <1>1 DEF Whole, Requests, Lists
  <1>11. \A r \in Ids : r # q => /\ Mine(r)' <=> Mine(r)
                                 /\ InTh(r)' <=> InTh(r)
                                 /\ InQ(r)' <=> InQ(r)
                                 /\ InC(r)' <=> InC(r)
                                 /\ InR(r)' <=> InR(r)
    BY <1>4, <1>6
  <1>12. Up' => Up
    BY <1>1 DEF Up
  <1> QED BY <1>1, <1>2, <1>7, <1>8, <1>9, <1>10, <1>11, <1>12, OneCloses DEF Whole

\* The main thread gives the request q, which it had in hand, to a thread.
LEMMA RequestsAdmit == ASSUME Whole, Admit PROVE Requests'
  <1>0. /\ pc \in {"admit", "full"} /\ UNCHANGED <<queue, cqueue, resp, nreq, closed>>
        /\ nreq \in Ids /\ nreq \in 0 .. MaxReq /\ serves \in [Ids -> 0 .. MaxReq]
    BY DEF Admit, pool, rplex, Whole, Threads, Steering, TypeOK
  <1>1. CASE pc' = "full" /\ UNCHANGED threads
    <2>1. \A r \in Ids : Mine(r)' <=> Mine(r)
      BY <1>0, <1>1 DEF Mine
    <2>2. UNCHANGED <<serves, queue, cqueue, closed, nreq>> /\ DOMAIN resp' = DOMAIN resp /\ (Up' => Up)
      BY <1>0, <1>1 DEF threads, Up
    <2> QED BY <2>1, <2>2, NothingMoves DEF Whole
  <1>2. CASE Starts(nreq, nreq)
    <2>1. PICK q \in Ids : q = nreq
      BY <1>0
    <2>2. serves' = [serves EXCEPT ![q] = q] /\ pc' = "register"
      BY <1>2, <2>1 DEF Starts
    <2>3. Mine(q) /\ serves[q] = 0 /\ q <= nreq
      BY <1>0, <2>1, PyServeAssumption DEF Mine, Whole, Threads, Steering, Doing, Ids
    <2>4. ~InTh(q) /\ ~InQ(q) /\ ~InC(q) /\ ~InR(q)
      BY <2>3 DEF Whole, Requests, Apart
    <2>5. ThOnce' /\ \A r \in Ids : InTh(r)' <=> InTh(r) \/ r = q
      BY <1>0, <2>2, <2>3, <2>4, ThreadGets DEF Whole, Requests
    <2>6. \A r \in Ids : /\ ~Mine(r)'
                         /\ r # q => ~Mine(r)
                         /\ InQ(r)' <=> InQ(r)
                         /\ InC(r)' <=> InC(r)
                         /\ InR(r)' <=> InR(r)
      BY <1>0, <2>1, <2>2 DEF Mine, InQ, InC, InR
    <2>7. Somewhere(q) /\ Somewhere(q)'
      BY <2>3, <2>5 DEF Somewhere
    <2>8. QOnce' /\ COnce' /\ (Up' => Up)
      BY <1>0 DEF Whole, Requests, QOnce, COnce, Up
    <2>9. /\ queue' \in Seq(Ids) /\ Len(queue') <= QSize
          /\ cqueue' \in Seq([req : Ids, body : Bodies])
      BY <1>0 DEF Whole, Requests, Lists
    <2>10. \A r \in Ids : r # q => /\ Mine(r)' <=> Mine(r)
                                   /\ InTh(r)' <=> InTh(r)
                                   /\ InQ(r)' <=> InQ(r)
                                   /\ InC(r)' <=> InC(r)
                                   /\ InR(r)' <=> InR(r)
      BY <2>5, <2>6
    <2>11. ~Mine(q)' /\ ~InQ(q)' /\ ~InC(q)' /\ ~InR(q)'
      BY <2>4, <2>6
    <2> QED BY <1>0, <2>3, <2>5, <2>7, <2>8, <2>9, <2>10, <2>11, OneMoves DEF Whole
  <1> QED BY <1>1, <1>2 DEF Admit

LEMMA RequestsPut == ASSUME Whole, Put PROVE Requests'
  <1>0. /\ pc \in {"put", "qfull"} /\ UNCHANGED <<serves, cqueue, resp, nreq, closed>>
        /\ nreq \in Ids /\ nreq \in 0 .. MaxReq
    BY DEF Put, threads, rplex, Whole, Threads, Steering, TypeOK
  <1>1. CASE pc' = "qfull" /\ queue' = queue
    <2>1. \A r \in Ids : Mine(r)' <=> Mine(r)
      BY <1>0, <1>1 DEF Mine
    <2>2. UNCHANGED <<serves, queue, cqueue, closed, nreq>> /\ DOMAIN resp' = DOMAIN resp /\ (Up' => Up)
      BY <1>0, <1>1 DEF Up
    <2> QED BY <2>1, <2>2, NothingMoves DEF Whole
  <1>2. CASE Len(queue) < QSize /\ queue' = Append(queue, nreq) /\ pc' \in {"spawn", "recv"}
    <2>1. PICK q \in Ids : q = nreq
      BY <1>0
    <2>3. Mine(q) /\ q <= nreq
      BY <1>0, <2>1, PyServeAssumption DEF Mine, Ids
    <2>4. ~InTh(q) /\ ~InQ(q) /\ ~InC(q) /\ ~InR(q)
      BY <2>3 DEF Whole, Requests, Apart
    <2>2. queue' = Append(queue, q) /\ queue \in Seq(Ids) /\ QOnce
      BY <1>2, <2>1 DEF Whole, Requests, Lists
    <2>5. /\ QOnce' /\ queue' \in Seq(Ids) /\ Len(queue') = Len(queue) + 1
          /\ \A r \in Ids : InQ(r)' <=> InQ(r) \/ r = q
      BY <2>2, <2>4, QueueGets
    <2>6. \A r \in Ids : /\ ~Mine(r)'
                         /\ r # q => ~Mine(r)
                         /\ InTh(r)' <=> InTh(r)
                         /\ InC(r)' <=> InC(r)
                         /\ InR(r)' <=> InR(r)
      BY <1>0, <1>2, <2>1 DEF Mine, InTh, InC, InR
    <2>7. Somewhere(q) /\ Somewhere(q)'
      BY <2>3, <2>5 DEF Somewhere
    <2>8. ThOnce' /\ COnce' /\ (Up' => Up)
      BY <1>0 DEF Whole, Requests, ThOnce, COnce, Up
    <2>9. Len(queue') <= QSize /\ cqueue' \in Seq([req : Ids, body : Bodies])
      BY <1>0, <1>2, <2>2, <2>5, PyServeAssumption DEF Whole, Requests, Lists
    <2>10. \A r \in Ids : r # q => /\ Mine(r)' <=> Mine(r)
                                   /\ InTh(r)' <=> InTh(r)
                                   /\ InQ(r)' <=> InQ(r)
                                   /\ InC(r)' <=> InC(r)
                                   /\ InR(r)' <=> InR(r)
      BY <2>5, <2>6
    <2>11. ~Mine(q)' /\ ~InTh(q)' /\ ~InC(q)' /\ ~InR(q)'
      BY <2>4, <2>6
    <2> QED BY <1>0, <2>3, <2>5, <2>7, <2>8, <2>9, <2>10, <2>11, OneMoves DEF Whole
  <1> QED BY <1>1, <1>2 DEF Put

\* A thread of the pool begins with none.
LEMMA RequestsSpawn == ASSUME Whole, Spawn PROVE Requests'
  <1>1. pc = "spawn" /\ pc' \in {"register", "recv"} /\ UNCHANGED <<queue, rplex, closed, nreq>>
    BY DEF Spawn, Starts
  <1>2. serves' = serves
    <2>1. CASE Starts(nreq, 0)
      <3>1. nreq \in Ids /\ serves[nreq] = 0 /\ serves \in [Ids -> 0 .. MaxReq]
        BY <1>1 DEF Whole, Threads, Steering, Doing, TypeOK
      <3> QED BY <2>1, <3>1 DEF Starts
    <2>2. CASE UNCHANGED threads
      BY <2>2 DEF threads
    <2> QED BY <2>1, <2>2 DEF Spawn
  <1>3. \A r \in Ids : Mine(r)' <=> Mine(r)
    BY <1>1 DEF Mine
  <1>4. Up' => Up
    BY <1>1 DEF Up
  <1> QED BY <1>1, <1>2, <1>3, <1>4, NothingMoves DEF Whole, rplex

\* After an abort nobody closes anything any more.
LEMMA RequestsAbort == ASSUME Whole, Abort PROVE Requests'
  <1>1. pc' = "aborted" /\ UNCHANGED <<serves, queue, cqueue, resp, closed, nreq>>
    BY DEF Abort, threads, pool, rplex
  <1>2. \A r \in Ids : /\ ~Mine(r)' /\ (InTh(r)' <=> InTh(r))
                       /\ InQ(r)' <=> InQ(r)
                       /\ InC(r)' <=> InC(r)
                       /\ InR(r)' <=> InR(r)
    BY <1>1 DEF Mine, InTh, InQ, InC, InR
  <1>3. Lists' /\ ThOnce' /\ QOnce' /\ COnce'
    BY <1>1, <1>2 DEF Whole, Requests, Lists, ThOnce, QOnce, COnce
  <1>4. Apart' /\ ~Up'
    BY <1>1, <1>2 DEF Whole, Requests, Apart, Up
  <1>5. Closing'
    BY <1>1, <1>2, <1>4 DEF Whole, Requests, Closing, Somewhere
  <1> QED BY <1>3, <1>4, <1>5 DEF Requests

\* The other steps of the main thread.
LEMMA RequestsWaiting == ASSUME Whole, Eof \/ Registered \/ Join PROVE Requests'
  <1>1. /\ UNCHANGED <<serves, queue, cqueue, resp, closed, nreq>>
        /\ pc \notin {"run", "admit", "full", "put", "qfull"} /\ pc' \notin {"run", "admit", "full", "put", "qfull"}
        /\ Up
    BY DEF Eof, Registered, Join, threads, pool, rplex, Up
  <1>2. \A r \in Ids : Mine(r)' <=> Mine(r)
    BY <1>1 DEF Mine
  <1> QED BY <1>1, <1>2, NothingMoves DEF Whole

-----------------------------------------------------------------------------
(* The steps of the threads, and their effect on requests.                 *)

\* A thread closes the request that it has.
LEMMA RequestsClosed ==
  ASSUME Whole, NEW t \in Ids, serves[t] # 0, Close(serves[t]), serves' = [serves EXCEPT ![t] = 0],
         UNCHANGED <<pc, nreq, queue, cqueue, resp>>
  PROVE  Requests'
  <1>0. /\ serves \in [Ids -> 0 .. MaxReq] /\ nreq \in 0 .. MaxReq /\ closed \in [Ids -> 0 .. 2]
        /\ ThOnce
    BY DEF Whole, TypeOK, Requests
  <1>1. /\ ThOnce' /\ serves[t] \in Ids /\ InTh(serves[t])
        /\ \A r \in Ids : InTh(r)' <=> InTh(r) /\ r # serves[t]
    BY <1>0, ThreadGives
  <1>2. PICK q \in Ids : q = serves[t]
    BY <1>1
  <1>3. Somewhere(q) /\ q <= nreq
    BY <1>1, <1>2, HasCome DEF Whole, Somewhere
  <1>4. ~Mine(q) /\ ~InQ(q) /\ ~InC(q) /\ ~InR(q)
    BY <1>1, <1>2 DEF Whole, Requests, Apart
  <1>5. \A r \in Ids : /\ Mine(r)' <=> Mine(r)
                       /\ InQ(r)' <=> InQ(r)
                       /\ InC(r)' <=> InC(r)
                       /\ InR(r)' <=> InR(r)
    BY DEF Mine, InQ, InC, InR
  <1>6. ~Somewhere(q)'
    BY <1>1, <1>2, <1>4, <1>5 DEF Somewhere
  <1>7. \A r \in Ids : r # q => /\ Mine(r)' <=> Mine(r)
                                /\ InTh(r)' <=> InTh(r)
                                /\ InQ(r)' <=> InQ(r)
                                /\ InC(r)' <=> InC(r)
                                /\ InR(r)' <=> InR(r)
    BY <1>1, <1>2, <1>5
  <1>8. QOnce' /\ COnce' /\ (Up' => Up)
    BY DEF Whole, Requests, QOnce, COnce, Up
  <1>9. /\ queue' \in Seq(Ids) /\ Len(queue') <= QSize
        /\ cqueue' \in Seq([req : Ids, body : Bodies])
    BY DEF Whole, Requests, Lists
  <1>10. closed' = [closed EXCEPT ![q] = @ + 1] /\ nreq' = nreq
    BY <1>2 DEF Close
  <1> QED BY <1>0, <1>1, <1>3, <1>6, <1>7, <1>8, <1>9, <1>10, OneCloses DEF Whole

LEMMA RequestsWork == ASSUME Whole, NEW t \in Ids, Work(t) PROVE Requests'
  <1>0. UNCHANGED <<pc, nreq, queue, cqueue, resp>>
    BY DEF Work, pool, rplex
  <1>1. CASE UNCHANGED <<serves, closed>>
    <2>1. (\A r \in Ids : Mine(r)' <=> Mine(r)) /\ (Up' => Up)
      BY <1>0 DEF Mine, Up
    <2> QED BY <1>0, <1>1, <2>1, NothingMoves DEF Whole
  <1>2. CASE Close(serves[t]) /\ serves' = [serves EXCEPT ![t] = 0]
    <2>1. serves[t] # 0
      BY DEF Work, Whole, Threads, Doing
    <2> QED BY <1>0, <1>2, <2>1, RequestsClosed
  <1> QED BY <1>1, <1>2 DEF Work

LEMMA RequestsCloseOwn == ASSUME Whole, NEW t \in Ids, CloseOwn(t) PROVE Requests'
  <1>1. /\ UNCHANGED <<pc, nreq, queue, cqueue, resp>>
        /\ Close(serves[t]) /\ serves' = [serves EXCEPT ![t] = 0]
    BY DEF CloseOwn, pool, rplex
  <1>2. serves[t] # 0
    BY DEF CloseOwn, Whole, Threads, Doing
  <1> QED BY <1>1, <1>2, RequestsClosed

LEMMA RequestsPutIter == ASSUME Whole, NEW t \in Ids, PutIter(t) PROVE Requests'
  <1>0. /\ UNCHANGED <<pc, nreq, queue, resp, closed>>
        /\ serves \in [Ids -> 0 .. MaxReq] /\ nreq \in 0 .. MaxReq /\ ThOnce
    BY DEF PutIter, pool, Whole, TypeOK, Requests
  <1>1. CASE UNCHANGED <<cqueue, serves>>
    <2>1. (\A r \in Ids : Mine(r)' <=> Mine(r)) /\ (Up' => Up)
      BY <1>0 DEF Mine, Up
    <2> QED BY <1>0, <1>1, <2>1, NothingMoves DEF Whole
  <1>2. CASE /\ th[t] = "iterator"
             /\ serves' = [serves EXCEPT ![t] = 0]
             /\ \E b \in Bodies : cqueue' = Append(cqueue, [req |-> serves[t], body |-> b])
    <2>1. serves[t] # 0
      BY <1>2 DEF Whole, Threads, Doing
    <2>2. /\ ThOnce' /\ serves[t] \in Ids /\ InTh(serves[t])
          /\ \A r \in Ids : InTh(r)' <=> InTh(r) /\ r # serves[t]
      BY <1>0, <1>2, <2>1, ThreadGives
    <2>3. PICK q \in Ids : q = serves[t]
      BY <2>2
    <2>4. Somewhere(q) /\ q <= nreq
      BY <2>2, <2>3, HasCome DEF Whole, Somewhere
    <2>5. ~Mine(q) /\ ~InQ(q) /\ ~InC(q) /\ ~InR(q)
      BY <2>2, <2>3 DEF Whole, Requests, Apart
    <2>6. PICK b \in Bodies : cqueue' = Append(cqueue, [req |-> q, body |-> b])
      BY <1>2, <2>3
    <2>7. cqueue \in Seq([req : Ids, body : Bodies]) /\ COnce
      BY DEF Whole, Requests, Lists
    <2>8. /\ COnce' /\ cqueue' \in Seq([req : Ids, body : Bodies])
          /\ \A r \in Ids : InC(r)' <=> InC(r) \/ r = q
      BY <2>5, <2>6, <2>7, CqueueGets
    <2>9. \A r \in Ids : /\ Mine(r)' <=> Mine(r)
                         /\ InQ(r)' <=> InQ(r)
                         /\ InR(r)' <=> InR(r)
      BY <1>0 DEF Mine, InQ, InR
    <2>10. \A r \in Ids : r # q => /\ Mine(r)' <=> Mine(r)
                                   /\ InTh(r)' <=> InTh(r)
                                   /\ InQ(r)' <=> InQ(r)
                                   /\ InC(r)' <=> InC(r)
                                   /\ InR(r)' <=> InR(r)
      BY <2>2, <2>3, <2>8, <2>9
    <2>11. ~Mine(q)' /\ ~InTh(q)' /\ ~InQ(q)' /\ ~InR(q)' /\ Somewhere(q)'
      BY <2>2, <2>3, <2>5, <2>8, <2>9 DEF Somewhere
    <2>12. QOnce' /\ (Up' => Up) /\ queue' \in Seq(Ids) /\ Len(queue') <= QSize
      BY <1>0 DEF Whole, Requests, Lists, QOnce, Up
    <2> QED BY <1>0, <2>2, <2>4, <2>8, <2>10, <2>11, <2>12, OneMoves DEF Whole
  <1> QED BY <1>1, <1>2 DEF PutIter

LEMMA RequestsLook == ASSUME Whole, NEW t \in Ids, Look(t) PROVE Requests'
  <1>0. /\ UNCHANGED <<pc, nreq, cqueue, resp, closed>>
        /\ serves \in [Ids -> 0 .. MaxReq] /\ nreq \in 0 .. MaxReq /\ ThOnce
        /\ queue \in Seq(Ids) /\ QOnce /\ Len(queue) <= QSize /\ serves[t] = 0
    BY DEF Look, rplex, Whole, TypeOK, Requests, Lists, Threads, Doing
  <1>1. CASE UNCHANGED <<serves, queue>>
    <2>1. (\A r \in Ids : Mine(r)' <=> Mine(r)) /\ (Up' => Up)
      BY <1>0 DEF Mine, Up
    <2> QED BY <1>0, <1>1, <2>1, NothingMoves DEF Whole
  <1>2. CASE queue # <<>> /\ serves' = [serves EXCEPT ![t] = Head(queue)] /\ queue' = Tail(queue)
    <2>1. /\ QOnce' /\ queue' \in Seq(Ids) /\ Len(queue') = Len(queue) - 1
          /\ Head(queue) \in Ids /\ InQ(Head(queue))
          /\ \A r \in Ids : InQ(r)' <=> InQ(r) /\ r # Head(queue)
      BY <1>0, <1>2, QueueGives
    <2>2. PICK q \in Ids : q = Head(queue)
      BY <2>1
    <2>3. Somewhere(q) /\ q <= nreq
      BY <2>1, <2>2, HasCome DEF Whole, Somewhere
    <2>4. ~Mine(q) /\ ~InTh(q) /\ ~InC(q) /\ ~InR(q)
      BY <2>1, <2>2 DEF Whole, Requests, Apart
    <2>5. ThOnce' /\ \A r \in Ids : InTh(r)' <=> InTh(r) \/ r = q
      BY <1>0, <1>2, <2>2, <2>4, ThreadGets
    <2>6. \A r \in Ids : /\ Mine(r)' <=> Mine(r)
                         /\ InC(r)' <=> InC(r)
                         /\ InR(r)' <=> InR(r)
      BY <1>0 DEF Mine, InC, InR
    <2>7. \A r \in Ids : r # q => /\ Mine(r)' <=> Mine(r)
                                  /\ InTh(r)' <=> InTh(r)
                                  /\ InQ(r)' <=> InQ(r)
                                  /\ InC(r)' <=> InC(r)
                                  /\ InR(r)' <=> InR(r)
      BY <2>1, <2>2, <2>5, <2>6
    <2>8. ~Mine(q)' /\ ~InQ(q)' /\ ~InC(q)' /\ ~InR(q)' /\ Somewhere(q)'
      BY <2>1, <2>2, <2>4, <2>5, <2>6 DEF Somewhere
    <2>9. COnce' /\ (Up' => Up) /\ cqueue' \in Seq([req : Ids, body : Bodies]) /\ Len(queue') <= QSize
      BY <1>0, <2>1, PyServeAssumption DEF Whole, Requests, Lists, COnce, Up
    <2> QED BY <1>0, <2>1, <2>3, <2>5, <2>7, <2>8, <2>9, OneMoves DEF Whole
  <1> QED BY <1>1, <1>2 DEF Look

\* The other steps of a thread.
LEMMA RequestsOther ==
  ASSUME Whole, NEW t \in Ids, Register(t) \/ Leave(t) \/ Wakes(t) \/ Expires(t) \/ GivesUp(t)
  PROVE  Requests'
  <1>1. UNCHANGED <<pc, serves, queue, cqueue, resp, closed, nreq>>
    BY DEF Register, Leave, Wakes, Expires, GivesUp, pool, rplex
  <1>2. (\A r \in Ids : Mine(r)' <=> Mine(r)) /\ (Up' => Up)
    BY <1>1 DEF Mine, Up
  <1> QED BY <1>1, <1>2, NothingMoves DEF Whole

-----------------------------------------------------------------------------
(* The steps of the response thread.                                       *)

LEMMA RequestsReadPipe == ASSUME Whole, ReadPipe PROVE Requests'
  <1>1. UNCHANGED <<pc, serves, queue, cqueue, resp, closed, nreq>>
    BY DEF ReadPipe, threads, pool
  <1>2. (\A r \in Ids : Mine(r)' <=> Mine(r)) /\ (Up' => Up)
    BY <1>1 DEF Mine, Up
  <1> QED BY <1>1, <1>2, NothingMoves DEF Whole

\* It goes on with the response to q, which was in its hands or in the queue.
LEMMA RequestsResponse ==
  ASSUME Whole, NEW q \in Ids, NEW x, Becomes(q, x), InC(q) \/ InR(q), ~InC(q)',
         UNCHANGED <<pc, nreq, serves, queue>>,
         COnce', cqueue' \in Seq([req : Ids, body : Bodies]),
         \A r \in Ids : r # q => (InC(r)' <=> InC(r))
  PROVE  Requests'
  <1>0. nreq \in 0 .. MaxReq /\ closed \in [Ids -> 0 .. 2]
    BY DEF Whole, TypeOK
  <1>1. Somewhere(q) /\ q <= nreq
    BY HasCome DEF Whole, Somewhere
  <1>2. ~Mine(q) /\ ~InTh(q) /\ ~InQ(q)
    BY DEF Whole, Requests, Apart
  <1>3. \A r \in Ids : /\ Mine(r)' <=> Mine(r)
                       /\ InTh(r)' <=> InTh(r)
                       /\ InQ(r)' <=> InQ(r)
    BY DEF Mine, InTh, InQ
  <1>4. ThOnce' /\ QOnce' /\ (Up' => Up) /\ queue' \in Seq(Ids) /\ Len(queue') <= QSize
    BY DEF Whole, Requests, Lists, ThOnce, QOnce, Up
  <1>5. CASE /\ closed' = [closed EXCEPT ![q] = @ + 1]
             /\ \A r \in Ids : InR(r)' <=> InR(r) /\ r # q
    <2>1. ~Somewhere(q)'
      BY <1>2, <1>3, <1>5 DEF Somewhere
    <2>2. \A r \in Ids : r # q => /\ Mine(r)' <=> Mine(r)
                                  /\ InTh(r)' <=> InTh(r)
                                  /\ InQ(r)' <=> InQ(r)
                                  /\ InC(r)' <=> InC(r)
                                  /\ InR(r)' <=> InR(r)
      BY <1>3, <1>5
    <2> QED BY <1>0, <1>1, <1>4, <1>5, <2>1, <2>2, OneCloses DEF Whole
  <1>6. CASE closed' = closed /\ \A r \in Ids : InR(r)' <=> InR(r) \/ r = q
    <2>1. Somewhere(q)' /\ ~Mine(q)' /\ ~InTh(q)' /\ ~InQ(q)'
      BY <1>2, <1>3, <1>6 DEF Somewhere
    <2>2. \A r \in Ids : r # q => /\ Mine(r)' <=> Mine(r)
                                  /\ InTh(r)' <=> InTh(r)
                                  /\ InQ(r)' <=> InQ(r)
                                  /\ InC(r)' <=> InC(r)
                                  /\ InR(r)' <=> InR(r)
      BY <1>3, <1>6
    <2> QED BY <1>0, <1>1, <1>4, <1>6, <2>1, <2>2, OneMoves DEF Whole
  <1> QED BY <1>0, <1>5, <1>6, ResponseGoesOn

LEMMA RequestsDrain == ASSUME Whole, Drain PROVE Requests'
  <1>0. /\ UNCHANGED <<pc, nreq, serves, queue>>
        /\ cqueue \in Seq([req : Ids, body : Bodies]) /\ COnce
    BY DEF Drain, threads, pool, Whole, Requests, Lists
  <1>1. CASE UNCHANGED <<cqueue, resp, closed>>
    <2>1. (\A r \in Ids : Mine(r)' <=> Mine(r)) /\ (Up' => Up)
      BY <1>0 DEF Mine, Up
    <2> QED BY <1>0, <1>1, <2>1, NothingMoves DEF Whole
  <1>2. CASE /\ cqueue # <<>> /\ cqueue' = Tail(cqueue)
             /\ \E x : Becomes(Head(cqueue).req, x)
    <2>1. /\ COnce' /\ cqueue' \in Seq([req : Ids, body : Bodies])
          /\ Head(cqueue).req \in Ids /\ InC(Head(cqueue).req)
          /\ \A r \in Ids : InC(r)' <=> InC(r) /\ r # Head(cqueue).req
      BY <1>0, <1>2, CqueueGives
    <2>2. PICK q \in Ids : q = Head(cqueue).req
      BY <2>1
    <2>3. PICK x : Becomes(q, x)
      BY <1>2, <2>2
    <2>4. InC(q) /\ ~InC(q)' /\ \A r \in Ids : r # q => (InC(r)' <=> InC(r))
      BY <2>1, <2>2
    <2> QED BY <1>0, <2>1, <2>3, <2>4, RequestsResponse
  <1> QED BY <1>1, <1>2 DEF Drain

LEMMA RequestsFlush == ASSUME Whole, NEW q \in Ids, Flush(q) PROVE Requests'
  <1>1. /\ UNCHANGED <<pc, nreq, serves, queue, cqueue>> /\ InR(q)
    BY DEF Flush, threads, pool, InR
  <1>2. \E x : Becomes(q, x)
    BY DEF Flush
  <1>3. PICK x : Becomes(q, x)
    BY <1>2
  <1>4. ~InC(q) /\ COnce' /\ cqueue' \in Seq([req : Ids, body : Bodies])
    BY <1>1 DEF Whole, Requests, Lists, Apart, COnce
  <1>5. \A r \in Ids : InC(r)' <=> InC(r)
    BY <1>1 DEF InC
  <1> QED BY <1>1, <1>3, <1>4, <1>5, RequestsResponse

-----------------------------------------------------------------------------
(* What the steps do to the threads.                                       *)

LEMMA ActiveFinite == IsFiniteSet(Active) /\ Cardinality(Active) \in Nat
  <1>1. IsFiniteSet(Ids)
    BY PyServeAssumption, FS_Interval DEF Ids
  <1>2. Active \subseteq Ids
    BY DEF Active
  <1> QED BY <1>1, <1>2, FS_Subset, FS_CardinalityType

\* The steps of the main thread that start none, and those of the response thread.
LEMMA ThreadsStay ==
  ASSUME Threads, UNCHANGED <<th, serves, current, waiting, cname>>,
         \/ waiters' = waiters
         \/ waiters # <<>> /\ waiters' = Tail(waiters),
         nreq' = nreq \/ (nreq' = nreq + 1 /\ nreq \in Nat /\ pc = "recv"),
         pc' = "register" => pc = "register",
         pc = "register" => pc' = "register" \/ th[nreq] # "starting",
         Steering'
  PROVE  Threads'
  <1>1. ASSUME NEW t \in Ids PROVE Doing(t)'
    <2>1. CASE nreq' = nreq
      BY <2>1 DEF Threads, Doing, Registering
    <2>2. CASE nreq' = nreq + 1 /\ nreq \in Nat /\ pc = "recv"
      <3>1. t > nreq + 1 => t > nreq
        BY <2>2, PyServeAssumption DEF Ids
      <3> QED BY <2>2, <3>1 DEF Threads, Doing, Registering
    <2> QED BY <2>1, <2>2
  <1>2. Members'
    BY DEF Threads, Members, Active
  <1>3. Waiters'
    <2>1. CASE waiters' = waiters
      BY <2>1 DEF Threads, Waiters
    <2>2. CASE waiters # <<>> /\ waiters' = Tail(waiters)
      <3>1. waiters \in Seq(Ids)
        BY DEF Threads, Waiters
      <3>2. /\ waiters' \in Seq(Ids)
            /\ \A i \in DOMAIN waiters' : i + 1 \in DOMAIN waiters /\ waiters'[i] = waiters[i + 1]
        BY <2>2, <3>1, TailOf
      <3>3. \A i \in DOMAIN waiters' : i \in Nat
        BY <3>2
      <3>4. \A i \in DOMAIN waiters' : waiters'[i] \in waiting'
        BY <3>2 DEF Threads, Waiters
      <3>5. \A i, j \in DOMAIN waiters' : waiters'[i] = waiters'[j] => i = j
        BY <3>2, <3>3 DEF Threads, Waiters
      <3> QED BY <3>2, <3>4, <3>5 DEF Waiters
    <2> QED BY <2>1, <2>2
  <1> QED BY <1>1, <1>2, <1>3 DEF Threads

\* The main thread starts thread n, as no other is being started and there is room.
LEMMA ThreadsStart ==
  ASSUME Whole, NEW n \in Ids, n = nreq, NEW r, Starts(n, r),
         pc \in {"admit", "full", "spawn"}, Cardinality(current) < MaxThreads,
         r = IF cname = "pool" THEN 0 ELSE n,
         UNCHANGED <<cname, nreq, waiting, waiters>>
  PROVE  Threads'
  <1>1. /\ th \in [Ids -> {"none", "starting", "run", "iterator", "write", "leave", "close", "look", "wait",
                           "expired", "gone"}]
        /\ serves \in [Ids -> 0 .. MaxReq]
        /\ th' = [th EXCEPT ![n] = "starting"] /\ serves' = [serves EXCEPT ![n] = r]
        /\ pc' = "register" /\ current' = current
        /\ th[n] = "none"
    BY DEF Starts, Whole, TypeOK, Threads, Steering
  <1>2. \A t \in Ids : t # n => th'[t] = th[t] /\ serves'[t] = serves[t]
    BY <1>1
  <1>3. th'[n] = "starting" /\ serves'[n] = r
    BY <1>1
  <1>4. \A t \in Ids : th[t] # "starting"
    BY DEF Whole, Threads, Doing, Registering
  <1>5. ASSUME NEW t \in Ids PROVE Doing(t)'
    <2>1. CASE t = n
      <3>1. ~(n > nreq)
        BY PyServeAssumption DEF Ids
      <3> QED BY <1>1, <1>3, <2>1, <3>1 DEF Doing, Registering
    <2>2. CASE t # n
      BY <1>2, <1>4, <2>2 DEF Whole, Threads, Doing
    <2> QED BY <2>1, <2>2
  <1>6. Members'
    <2>1. Active = current
      BY <1>4 DEF Active, Whole, Threads, Members
    <2>2. Active' = Active \cup {n}
      BY <1>1, <1>2, <1>3 DEF Active, Ids
    <2>3. n \notin Active
      BY <1>1 DEF Active
    <2>4. Cardinality(Active') = Cardinality(Active) + 1
      BY <2>2, <2>3, ActiveFinite, FS_AddElement
    <2>5. Cardinality(Active') <= MaxThreads'
      BY <2>1, <2>4, ActiveFinite, PyServeAssumption
    <2>6. current' = {t \in Ids : th'[t] \notin {"none", "starting", "close", "gone"}}
      BY <1>1, <1>2, <1>3, <1>4 DEF Whole, Threads, Members
    <2>7. waiting' = {t \in Ids : th'[t] \in {"wait", "expired"}}
      BY <1>1, <1>2, <1>3 DEF Whole, Threads, Members
    <2> QED BY <2>5, <2>6, <2>7 DEF Members, Ids
  <1>7. Waiters'
    BY DEF Whole, Threads, Waiters
  <1>8. Steering'
    BY <1>1 DEF Whole, Threads, Steering
  <1> QED BY <1>5, <1>6, <1>7, <1>8 DEF Threads

\* The thread t goes from one state to the next.
LEMMA ThreadGoes ==
  ASSUME Whole, NEW t \in Ids, NEW st, Goes(t, st), th[t] # "none", st # "none", st # "starting",
         th[t] \notin {"close", "gone"} \/ st \in {"close", "gone"},
         UNCHANGED <<pc, nreq, cname>>,
         current' = IF st \in {"close", "gone"} THEN current \ {t} ELSE current \cup {t},
         waiting' = IF st \in {"wait", "expired"} THEN waiting \cup {t} ELSE waiting \ {t},
         \A u \in Ids : u # t => serves'[u] = serves[u],
         st \in {"write", "look", "wait", "expired", "gone"} => serves'[t] = 0,
         st \in {"run", "iterator", "close"} => serves'[t] # 0,
         Waiters'
  PROVE  Threads'
  <1>1. /\ th \in [Ids -> {"none", "starting", "run", "iterator", "write", "leave", "close", "look", "wait",
                           "expired", "gone"}]
        /\ th' = [th EXCEPT ![t] = st]
    BY DEF Goes, Whole, TypeOK
  <1>2. th'[t] = st /\ \A u \in Ids : u # t => th'[u] = th[u]
    BY <1>1
  <1>3. ASSUME NEW u \in Ids PROVE Doing(u)'
    <2>1. CASE u = t
      <3>1. ~(t > nreq)
        BY DEF Whole, Threads, Doing
      <3> QED BY <1>2, <2>1, <3>1 DEF Doing
    <2>2. CASE u # t
      BY <1>2, <2>2 DEF Whole, Threads, Doing, Registering
    <2> QED BY <2>1, <2>2
  <1>4. Members'
    <2>1. Active' \subseteq Active
      BY <1>2 DEF Active, Ids
    <2>2. Cardinality(Active') <= Cardinality(Active) /\ Cardinality(Active') \in Nat
      BY <2>1, ActiveFinite, FS_Subset, FS_CardinalityType
    <2>3. Cardinality(Active') <= MaxThreads'
      BY <2>2, ActiveFinite, PyServeAssumption DEF Whole, Threads, Members
    <2>4. current' = {u \in Ids : th'[u] \notin {"none", "starting", "close", "gone"}}
      BY <1>1, <1>2 DEF Whole, Threads, Members
    <2>5. waiting' = {u \in Ids : th'[u] \in {"wait", "expired"}}
      BY <1>1, <1>2 DEF Whole, Threads, Members
    <2> QED BY <2>3, <2>4, <2>5 DEF Members, Ids
  <1>5. Steering'
    <2>1. nreq \in Ids /\ th[nreq] = "none" => th'[nreq] = "none"
      BY <1>2
    <2> QED BY <2>1 DEF Whole, Threads, Steering, Ids
  <1> QED BY <1>3, <1>4, <1>5 DEF Threads

LEMMA ThreadsMain ==
  ASSUME Whole, Recv \/ Eof \/ RunHere \/ Abort \/ Registered \/ Put \/ Join
  PROVE  Threads'
  <1>0. nreq \in 0 .. MaxReq /\ Threads /\ Steering /\ MaxReq \in Nat /\ nreq \in Nat
    BY PyServeAssumption DEF Whole, TypeOK, Threads
  <1>1. CASE Recv
    <2>1. /\ UNCHANGED <<th, serves, current, waiting, waiters, cname>>
          /\ nreq' = nreq + 1 /\ pc = "recv" /\ nreq < MaxReq
          /\ pc' = CASE cname = "single" -> "run" [] cname = "pool" -> "put" [] OTHER -> "admit"
          /\ cname \in {"single", "free", "pool", "rplex"}
      BY <1>1 DEF Recv, threads, pool, Whole, TypeOK
    <2>2. nreq + 1 \in Ids /\ nreq + 1 > nreq
      BY <1>0, <2>1 DEF Ids
    <2>3. th[nreq + 1] = "none"
      BY <2>2 DEF Whole, Threads, Doing
    <2>4. Steering'
      BY <2>1, <2>2, <2>3 DEF Steering, Ids
    <2> QED BY <1>0, <2>1, <2>4, ThreadsStay
  <1>2. CASE Eof \/ RunHere \/ Abort \/ Join
    <2>1. /\ UNCHANGED <<th, serves, current, waiting, waiters, cname, nreq>>
          /\ pc # "register" /\ pc' \in {"recv", "join", "aborted", "ended"}
      BY <1>2 DEF Eof, RunHere, Abort, Join, threads, pool
    <2>2. Steering'
      BY <1>0, <2>1 DEF Steering
    <2> QED BY <1>0, <2>1, <2>2, ThreadsStay
  <1>3. CASE Registered
    <2>1. /\ UNCHANGED <<th, serves, current, waiting, waiters, cname, nreq>>
          /\ th[nreq] # "starting" /\ pc' = "recv"
      BY <1>3 DEF Registered, threads, pool
    <2>2. Steering'
      BY <1>0, <2>1 DEF Steering
    <2> QED BY <1>0, <2>1, <2>2, ThreadsStay
  <1>4. CASE Put
    <2>1. /\ UNCHANGED <<th, serves, current, waiting, cname, nreq>>
          /\ pc \in {"put", "qfull"} /\ pc' \in {"qfull", "spawn", "recv"}
          /\ waiters' = waiters \/ (waiters # <<>> /\ waiters' = Tail(waiters))
      BY <1>4 DEF Put, threads
    <2>2. Steering'
      BY <1>0, <2>1 DEF Steering, Ids
    <2> QED BY <1>0, <2>1, <2>2, ThreadsStay
  <1> QED BY <1>1, <1>2, <1>3, <1>4

LEMMA ThreadsAdmit == ASSUME Whole, Admit \/ Spawn PROVE Threads'
  <1>1. Threads /\ Steering
    BY DEF Whole, Threads
  <1>2. CASE /\ UNCHANGED threads
             /\ \/ Admit /\ pc' = "full"
                \/ Spawn /\ pc' = "recv"
    <2>1. /\ UNCHANGED <<th, serves, current, waiting, waiters, cname, nreq>>
          /\ \/ pc \in {"admit", "full"} /\ pc' = "full"
             \/ pc = "spawn" /\ pc' = "recv"
      BY <1>2 DEF Admit, Spawn, threads, pool
    <2>2. Steering'
      BY <1>1, <2>1 DEF Steering, Ids
    <2> QED BY <1>1, <2>1, <2>2, ThreadsStay
  <1>3. CASE Admit /\ Starts(nreq, nreq) /\ Cardinality(current) < MaxThreads
    <2>1. /\ UNCHANGED <<cname, nreq, waiting, waiters>> /\ pc \in {"admit", "full"}
          /\ nreq \in Ids /\ cname # "pool"
      BY <1>1, <1>3 DEF Admit, pool, Steering
    <2>2. PICK n \in Ids : n = nreq
      BY <2>1
    <2>3. Starts(n, n)
      BY <1>3, <2>2
    <2> QED BY <1>3, <2>1, <2>2, <2>3, ThreadsStart
  <1>4. CASE Spawn /\ Starts(nreq, 0) /\ Cardinality(current) < MaxThreads
    <2>1. /\ UNCHANGED <<cname, nreq, waiting, waiters>> /\ pc = "spawn"
          /\ nreq \in Ids /\ cname = "pool"
      BY <1>1, <1>4 DEF Spawn, Steering
    <2>2. PICK n \in Ids : n = nreq
      BY <2>1
    <2>3. Starts(n, 0)
      BY <1>4, <2>2
    <2> QED BY <1>4, <2>1, <2>2, <2>3, ThreadsStart
  <1> QED BY <1>2, <1>3, <1>4 DEF Admit, Spawn

LEMMA ThreadsResponse == ASSUME Whole, Response PROVE Threads'
  <1>1. UNCHANGED <<th, serves, current, waiting, waiters, cname, nreq, pc>>
    BY DEF Response, ReadPipe, Drain, Flush, threads, pool
  <1>2. Steering'
    BY <1>1 DEF Whole, Threads, Steering
  <1> QED BY <1>1, <1>2, ThreadsStay DEF Whole

LEMMA ThreadsOwn ==
  ASSUME Whole, NEW t \in Ids,
         \/ Register(t) \/ Work(t) \/ PutIter(t) \/ Leave(t) \/ CloseOwn(t)
         \/ Look(t) \/ Wakes(t) \/ Expires(t) \/ GivesUp(t)
  PROVE  Threads'
  <1>0. /\ current = {u \in Ids : th[u] \notin {"none", "starting", "close", "gone"}}
        /\ waiting = {u \in Ids : th[u] \in {"wait", "expired"}}
        /\ serves \in [Ids -> 0 .. MaxReq]
        /\ Waiters /\ Doing(t)
    BY DEF Whole, Threads, Members, TypeOK
  <1>1. CASE Register(t)
    <2> DEFINE st == IF cname = "pool" THEN "look" ELSE "run"
    <2>1. /\ Goes(t, st) /\ th[t] = "starting" /\ current' = current \cup {t}
          /\ UNCHANGED <<pc, nreq, cname, serves, waiting, waiters>>
      BY <1>1 DEF Register, pool
    <2>2. waiting' = waiting \ {t} /\ Waiters'
      BY <1>0, <2>1 DEF Waiters
    <2>3. serves'[t] = IF cname = "pool" THEN 0 ELSE t
      BY <1>0, <2>1 DEF Doing, Registering
    <2>4. t # 0
      BY PyServeAssumption DEF Ids
    <2> QED BY <2>1, <2>2, <2>3, <2>4, ThreadGoes
  <1>2. CASE Work(t) /\ UNCHANGED serves
    <2>1. PICK st \in {"iterator", "leave", "look"} : Goes(t, st) /\ (st = "look" => cname = "pool")
      BY <1>2 DEF Work
    <2>2. /\ th[t] = "run" /\ UNCHANGED <<pc, nreq, cname, current, waiting, waiters>>
      BY <1>2 DEF Work, pool
    <2>3. st # "look" \/ serves'[t] = 0
      BY <1>0, <1>2, <2>1, <2>2 DEF Work, Goes, Whole, TypeOK
    <2>4. current' = current \cup {t} /\ waiting' = waiting \ {t} /\ Waiters'
      BY <1>0, <2>2 DEF Waiters
    <2>5. serves'[t] # 0 \/ st = "look"
      BY <1>0, <1>2, <2>2 DEF Doing
    <2> QED BY <1>2, <2>1, <2>2, <2>3, <2>4, <2>5, ThreadGoes
  <1>3. CASE Work(t) /\ Goes(t, "look") /\ serves' = [serves EXCEPT ![t] = 0]
    <2>1. /\ th[t] = "run" /\ UNCHANGED <<pc, nreq, cname, current, waiting, waiters>>
      BY <1>3 DEF Work, pool
    <2>2. current' = current \cup {t} /\ waiting' = waiting \ {t} /\ Waiters'
      BY <1>0, <2>1 DEF Waiters
    <2>3. serves'[t] = 0 /\ \A u \in Ids : u # t => serves'[u] = serves[u]
      BY <1>0, <1>3
    <2> QED BY <1>3, <2>1, <2>2, <2>3, ThreadGoes
  <1>4. CASE PutIter(t)
    <2>1. /\ UNCHANGED <<pc, nreq, cname, current, waiting, waiters>>
          /\ th[t] \in {"iterator", "write"}
      BY <1>4 DEF PutIter, pool
    <2>2. current' = current \cup {t} /\ waiting' = waiting \ {t} /\ Waiters'
      BY <1>0, <2>1 DEF Waiters
    <2>3. CASE Goes(t, "write") /\ serves' = [serves EXCEPT ![t] = 0]
      <3>1. serves'[t] = 0 /\ \A u \in Ids : u # t => serves'[u] = serves[u]
        BY <1>0, <2>3
      <3> QED BY <2>1, <2>2, <2>3, <3>1, ThreadGoes
    <2>4. CASE Goes(t, "leave") /\ serves' = serves
      BY <2>1, <2>2, <2>4, ThreadGoes
    <2> QED BY <1>4, <2>3, <2>4 DEF PutIter
  <1>5. CASE Leave(t)
    <2> DEFINE st == IF serves[t] = 0 THEN "gone" ELSE "close"
    <2>1. /\ UNCHANGED <<pc, nreq, cname, serves, waiting, waiters>>
          /\ th[t] = "leave" /\ Goes(t, st) /\ current' = current \ {t}
      BY <1>5 DEF Leave, pool
    <2>2. waiting' = waiting \ {t} /\ Waiters'
      BY <1>0, <2>1 DEF Waiters
    <2> QED BY <2>1, <2>2, ThreadGoes
  <1>6. CASE CloseOwn(t)
    <2>1. /\ UNCHANGED <<pc, nreq, cname, current, waiting, waiters>>
          /\ th[t] = "close" /\ Goes(t, "gone") /\ serves' = [serves EXCEPT ![t] = 0]
      BY <1>6 DEF CloseOwn, pool
    <2>2. current' = current \ {t} /\ waiting' = waiting \ {t} /\ Waiters'
      BY <1>0, <2>1 DEF Waiters
    <2>3. serves'[t] = 0 /\ \A u \in Ids : u # t => serves'[u] = serves[u]
      BY <1>0, <2>1
    <2> QED BY <2>1, <2>2, <2>3, ThreadGoes
  <1>7. CASE Look(t)
    <2>1. UNCHANGED <<pc, nreq, cname, current>> /\ th[t] = "look" /\ current' = current \cup {t}
      BY <1>0, <1>7 DEF Look
    <2>2. CASE /\ queue # <<>> /\ serves' = [serves EXCEPT ![t] = Head(queue)]
               /\ Goes(t, "run") /\ UNCHANGED <<waiting, waiters>>
      <3>1. Head(queue) \in Ids
        BY <2>2, TailOf DEF Whole, Requests, Lists
      <3>2. serves'[t] # 0 /\ \A u \in Ids : u # t => serves'[u] = serves[u]
        BY <1>0, <2>2, <3>1, PyServeAssumption DEF Ids
      <3>3. waiting' = waiting \ {t} /\ Waiters'
        BY <1>0, <2>1, <2>2 DEF Waiters
      <3> QED BY <2>1, <2>2, <3>2, <3>3, ThreadGoes
    <2>3. CASE /\ Goes(t, "wait") /\ waiting' = waiting \cup {t}
               /\ waiters' = Append(waiters, t) /\ serves' = serves
      <3>1. /\ waiters' \in Seq(Ids)
            /\ waiters'[Len(waiters) + 1] = t
            /\ \A i \in DOMAIN waiters : waiters'[i] = waiters[i]
            /\ \A i \in DOMAIN waiters' : i = Len(waiters) + 1 \/ i \in DOMAIN waiters
        BY <1>0, <2>3, AppendTo DEF Waiters
      <3>2. t \notin waiting
        BY <1>0, <2>1
      <3>3. \A i \in DOMAIN waiters' : waiters'[i] \in waiting'
        BY <1>0, <2>3, <3>1 DEF Waiters
      <3>4. \A i \in DOMAIN waiters : waiters'[i] # t
        BY <1>0, <3>1, <3>2 DEF Waiters
      <3>5. \A i, j \in DOMAIN waiters' : waiters'[i] = waiters'[j] => i = j
        BY <1>0, <3>1, <3>4 DEF Waiters
      <3>6. Waiters'
        BY <3>1, <3>3, <3>5 DEF Waiters, Ids
      <3>7. serves'[t] = 0
        BY <1>0, <2>1, <2>3 DEF Doing
      <3> QED BY <2>1, <2>3, <3>6, <3>7, ThreadGoes
    <2>4. CASE Goes(t, "leave") /\ UNCHANGED <<serves, waiting, waiters>>
      <3>1. waiting' = waiting \ {t} /\ Waiters'
        BY <1>0, <2>1, <2>4 DEF Waiters
      <3> QED BY <2>1, <2>4, <3>1, ThreadGoes
    <2> QED BY <1>7, <2>2, <2>3, <2>4 DEF Look
  <1>8. CASE Wakes(t)
    <2>1. /\ UNCHANGED <<pc, nreq, cname, current, serves, waiters>>
          /\ th[t] = "wait" /\ t \notin Range(waiters) /\ Goes(t, "look") /\ waiting' = waiting \ {t}
      BY <1>8 DEF Wakes
    <2>2. current' = current \cup {t} /\ serves'[t] = 0
      BY <1>0, <2>1 DEF Doing
    <2>3. \A i \in DOMAIN waiters : waiters[i] # t
      BY <2>1 DEF Range
    <2>4. Waiters'
      BY <1>0, <2>1, <2>3 DEF Waiters
    <2> QED BY <2>1, <2>2, <2>4, ThreadGoes
  <1>9. CASE Expires(t)
    <2>1. /\ UNCHANGED <<pc, nreq, cname, current, serves, waiters, waiting>>
          /\ th[t] = "wait" /\ Goes(t, "expired")
      BY <1>9 DEF Expires
    <2>2. current' = current \cup {t} /\ waiting' = waiting \cup {t} /\ serves'[t] = 0 /\ Waiters'
      BY <1>0, <2>1 DEF Doing, Waiters
    <2> QED BY <2>1, <2>2, ThreadGoes
  <1>10. CASE GivesUp(t)
    <2>1. /\ UNCHANGED <<pc, nreq, cname, current, serves>>
          /\ th[t] = "expired" /\ Goes(t, "leave") /\ waiting' = waiting \ {t}
          /\ waiters' = RemoveFirst(waiters, t)
      BY <1>10 DEF GivesUp
    <2>2. current' = current \cup {t}
      BY <1>0, <2>1
    <2>3. /\ waiters \in Seq(Ids)
          /\ \A i, j \in DOMAIN waiters : waiters[i] = waiters[j] => i = j
      BY <1>0 DEF Waiters
    <2>4. /\ waiters' \in Seq(Ids)
          /\ \A i \in DOMAIN waiters' : \E j \in DOMAIN waiters : waiters'[i] = waiters[j]
          /\ \A i \in DOMAIN waiters' : waiters'[i] # t
          /\ \A i, j \in DOMAIN waiters' : waiters'[i] = waiters'[j] => i = j
      BY <2>1, <2>3, WithoutOne
    <2>5. \A i \in DOMAIN waiters' : waiters'[i] \in waiting'
      BY <1>0, <2>1, <2>4 DEF Waiters
    <2>6. Waiters'
      BY <2>4, <2>5 DEF Waiters, Ids
    <2> QED BY <2>1, <2>2, <2>6, ThreadGoes
  <1> QED BY <1>1, <1>2, <1>3, <1>4, <1>5, <1>6, <1>7, <1>8, <1>9, <1>10 DEF Work

-----------------------------------------------------------------------------
(* The types, and the invariant.                                           *)

ThStates == {"none", "starting", "run", "iterator", "write", "leave", "close", "look", "wait", "expired", "gone"}

LEMMA BecomesTyped ==
  ASSUME NEW r \in Ids, NEW x, Becomes(r, x), closed \in [Ids -> 0 .. 2], DOMAIN resp \subseteq Ids
  PROVE  /\ DOMAIN closed' = Ids /\ closed' = [u \in Ids |-> closed'[u]]
         /\ DOMAIN resp' \subseteq Ids
  BY DEF Becomes, Close

\* closed stays a function, whose values Closing tells.
LEMMA TypesKept ==
  ASSUME TypeOK, Threads', Requests',
         cname' = cname,
         pc' \in {"recv", "run", "admit", "full", "register", "put", "qfull", "spawn", "join", "ended", "aborted"},
         nreq' \in 0 .. MaxReq, th' \in [Ids -> ThStates], serves' \in [Ids -> 0 .. MaxReq],
         rt' \in {"select", "drain", "done"}, DOMAIN resp' \subseteq Ids,
         closed' = [u \in Ids |-> closed'[u]]
  PROVE  TypeOK'
  <1>1. current' \subseteq Ids /\ waiting' \subseteq current'
    BY DEF Threads, Members, Ids
  <1>2. Range(waiters') \subseteq waiting'
    BY DEF Threads, Waiters, Range
  <1>3. closed' \in [Ids -> 0 .. 2]
    <2>1. \A u \in Ids : closed'[u] \in 0 .. 2
      BY DEF Requests, Closing, Ids
    <2> QED BY <2>1
  <1> QED BY <1>1, <1>2, <1>3 DEF TypeOK, ThStates, Ids

LEMMA TypesMain ==
  ASSUME Whole, Threads', Requests',
         Recv \/ Eof \/ RunHere \/ Abort \/ Admit \/ Registered \/ Put \/ Spawn \/ Join
  PROVE  TypeOK'
  <1>0. TypeOK /\ closed = [u \in Ids |-> closed[u]] /\ PyServeAssumption
        /\ th \in [Ids -> ThStates] /\ serves \in [Ids -> 0 .. MaxReq] /\ nreq \in 0 .. MaxReq
    BY PyServeAssumption DEF Whole, TypeOK, ThStates
  <1>1. CASE Recv
    BY <1>0, <1>1, TypesKept DEF Recv, TypeOK, threads, rplex, PyServeAssumption
  <1>2. CASE Eof \/ Abort \/ Registered \/ Put \/ Join
    BY <1>0, <1>2, TypesKept DEF Eof, Abort, Registered, Put, Join, TypeOK, threads, pool, rplex
  <1>3. CASE RunHere
    BY <1>0, <1>3, TypesKept DEF RunHere, Close, TypeOK, threads, pool, rplex
  <1>4. CASE Admit \/ Spawn
    <2>1. UNCHANGED <<cname, nreq, rplex, closed>> /\ pc' \in {"full", "recv", "register"}
      BY <1>4 DEF Admit, Spawn, Starts
    <2>2. CASE UNCHANGED threads
      BY <1>0, <2>1, <2>2, TypesKept DEF threads, rplex, TypeOK
    <2>3. CASE Starts(nreq, nreq) \/ Starts(nreq, 0)
      <3>1. th' \in [Ids -> ThStates] /\ serves' \in [Ids -> 0 .. MaxReq]
        BY <1>0, <2>3 DEF Starts, ThStates, PyServeAssumption
      <3> QED BY <1>0, <2>1, <3>1, TypesKept DEF rplex, TypeOK
    <2> QED BY <1>4, <2>2, <2>3 DEF Admit, Spawn
  <1> QED BY <1>1, <1>2, <1>3, <1>4

LEMMA TypesOwn ==
  ASSUME Whole, Threads', Requests', NEW t \in Ids,
         \/ Register(t) \/ Work(t) \/ PutIter(t) \/ Leave(t) \/ CloseOwn(t)
         \/ Look(t) \/ Wakes(t) \/ Expires(t) \/ GivesUp(t)
  PROVE  TypeOK'
  <1>0. TypeOK /\ closed = [u \in Ids |-> closed[u]] /\ 0 \in 0 .. MaxReq
        /\ th \in [Ids -> ThStates] /\ serves \in [Ids -> 0 .. MaxReq] /\ nreq \in 0 .. MaxReq
    BY PyServeAssumption DEF Whole, TypeOK, ThStates
  <1>1. UNCHANGED <<cname, pc, nreq, rt, resp>>
    BY DEF Register, Work, PutIter, Leave, CloseOwn, Look, Wakes, Expires, GivesUp, rplex
  <1>2. \E st \in ThStates : Goes(t, st)
    BY DEF Register, Work, PutIter, Leave, CloseOwn, Look, Wakes, Expires, GivesUp, ThStates
  <1>3. th' \in [Ids -> ThStates]
    BY <1>0, <1>2 DEF Goes
  <1>4. serves' \in [Ids -> 0 .. MaxReq]
    <2>1. CASE UNCHANGED serves \/ serves' = [serves EXCEPT ![t] = 0]
      BY <1>0, <2>1
    <2>2. CASE queue # <<>> /\ serves' = [serves EXCEPT ![t] = Head(queue)]
      <3>1. Head(queue) \in Ids
        BY <2>2, TailOf DEF Whole, Requests, Lists
      <3> QED BY <1>0, <2>2, <3>1, PyServeAssumption DEF Ids
    <2> QED BY <2>1, <2>2 DEF Register, Work, PutIter, Leave, CloseOwn, Look, Wakes, Expires, GivesUp
  <1>5. closed' = [u \in Ids |-> closed'[u]]
    BY <1>0 DEF Register, Work, PutIter, Leave, CloseOwn, Look, Wakes, Expires, GivesUp, Close
  <1> QED BY <1>0, <1>1, <1>3, <1>4, <1>5, TypesKept DEF TypeOK

LEMMA TypesResponse == ASSUME Whole, Threads', Requests', Response PROVE TypeOK'
  <1>0. TypeOK /\ closed \in [Ids -> 0 .. 2] /\ closed = [u \in Ids |-> closed[u]] /\ DOMAIN resp \subseteq Ids
        /\ th \in [Ids -> ThStates] /\ serves \in [Ids -> 0 .. MaxReq] /\ nreq \in 0 .. MaxReq
    BY DEF Whole, TypeOK, ThStates
  <1>1. UNCHANGED <<cname, pc, nreq, th, serves>>
    BY DEF Response, ReadPipe, Drain, Flush, threads
  <1>2. rt' \in {"select", "drain", "done"}
    BY <1>0 DEF Response, ReadPipe, Drain, Flush, TypeOK
  <1>3. DOMAIN resp' \subseteq Ids /\ closed' = [u \in Ids |-> closed'[u]]
    <2>1. CASE UNCHANGED <<resp, closed>>
      BY <1>0, <2>1
    <2>2. CASE cqueue # <<>> /\ \E x : Becomes(Head(cqueue).req, x)
      <3>1. cqueue \in Seq([req : Ids, body : Bodies])
        BY DEF Whole, Requests, Lists
      <3>2. Head(cqueue) \in [req : Ids, body : Bodies]
        BY <2>2, <3>1, TailOf
      <3>3. PICK q \in Ids : q = Head(cqueue).req
        BY <3>2
      <3>4. PICK x : Becomes(q, x)
        BY <2>2, <3>3
      <3> QED BY <1>0, <3>4, BecomesTyped
    <2>3. CASE \E q \in Ids : Flush(q)
      <3>1. PICK q \in Ids : Flush(q)
        BY <2>3
      <3>2. \E x : Becomes(q, x)
        BY <3>1 DEF Flush
      <3> QED BY <1>0, <3>2, BecomesTyped
    <2>4. ReadPipe => UNCHANGED <<resp, closed>>
      BY DEF ReadPipe
    <2>5. Drain => UNCHANGED <<resp, closed>> \/ (cqueue # <<>> /\ \E x : Becomes(Head(cqueue).req, x))
      BY DEF Drain
    <2> QED BY <2>1, <2>2, <2>3, <2>4, <2>5 DEF Response
  <1> QED BY <1>0, <1>1, <1>2, <1>3, TypesKept DEF TypeOK

LEMMA WholeInit == Init => Whole
  <1> SUFFICES ASSUME Init PROVE Whole
    OBVIOUS
  <1> USE DEF Init
  <1>1. TypeOK
    BY PyServeAssumption DEF TypeOK, Range
  <1>2. Active = {}
    BY DEF Active
  <1>3. Members
    BY <1>2, FS_EmptySet, PyServeAssumption DEF Members
  <1>4. Threads
    BY <1>3 DEF Threads, Doing, Waiters, Steering
  <1>5. \A r \in Ids : ~Mine(r) /\ ~InTh(r) /\ ~InQ(r) /\ ~InC(r) /\ ~InR(r) /\ r > nreq
    BY PyServeAssumption DEF Mine, InTh, InQ, InC, InR, Ids
  <1>6. Lists
    <2>1. queue \in Seq(Ids) /\ Len(queue) = 0 /\ cqueue \in Seq([req : Ids, body : Bodies])
      OBVIOUS
    <2> QED BY <1>5, <2>1, PyServeAssumption DEF Lists
  <1>7. ThOnce /\ QOnce /\ COnce
    BY DEF ThOnce, QOnce, COnce
  <1>8. Apart
    BY <1>5 DEF Apart
  <1>9. Closing
    <2>1. \A r \in Ids : closed[r] = 0 /\ ~(r <= nreq)
      BY PyServeAssumption DEF Ids
    <2> QED BY <2>1 DEF Closing
  <1> QED BY <1>1, <1>4, <1>6, <1>7, <1>8, <1>9 DEF Whole, Requests

LEMMA WholeStutters == Whole /\ UNCHANGED vars => Whole'
  <1> SUFFICES ASSUME Whole, UNCHANGED vars PROVE Whole'
    OBVIOUS
  <1>1. UNCHANGED <<cname, pc, nreq, th, serves, current, queue, waiting, waiters, cqueue, resp, closed, rt>>
    BY DEF vars, threads, pool, rplex
  <1>2. (\A r \in Ids : Mine(r)' <=> Mine(r)) /\ (Up' => Up)
    BY <1>1 DEF Mine, Up
  <1>3. Requests'
    BY <1>1, <1>2, NothingMoves DEF Whole
  <1>4. Steering'
    BY <1>1 DEF Whole, Threads, Steering
  <1>5. Threads'
    BY <1>1, <1>4, ThreadsStay DEF Whole
  <1>6. TypeOK'
    BY <1>1 DEF Whole, TypeOK
  <1> QED BY <1>3, <1>5, <1>6 DEF Whole

LEMMA WholeStep == Whole /\ Next => Whole'
  <1> SUFFICES ASSUME Whole, Next PROVE Whole'
    OBVIOUS
  <1>1. CASE Recv \/ Eof \/ Abort \/ Main
    <2>1. Recv \/ Eof \/ RunHere \/ Abort \/ Admit \/ Registered \/ Put \/ Spawn \/ Join
      BY <1>1 DEF Main
    <2>2. Requests'
      BY <2>1, RequestsRecv, RequestsRunHere, RequestsAdmit, RequestsPut, RequestsSpawn, RequestsAbort,
         RequestsWaiting
    <2>3. Threads'
      BY <2>1, ThreadsMain, ThreadsAdmit
    <2>4. TypeOK'
      BY <2>1, <2>2, <2>3, TypesMain
    <2> QED BY <2>2, <2>3, <2>4 DEF Whole
  <1>2. CASE Response
    <2>1. Requests'
      BY <1>2, RequestsReadPipe, RequestsDrain, RequestsFlush DEF Response
    <2>2. Threads'
      BY <1>2, ThreadsResponse
    <2>3. TypeOK'
      BY <1>2, <2>1, <2>2, TypesResponse
    <2> QED BY <2>1, <2>2, <2>3 DEF Whole
  <1>3. CASE \E t \in Ids : Thread(t) \/ (Up /\ Expires(t))
    <2>1. PICK t \in Ids : \/ Register(t) \/ Work(t) \/ PutIter(t) \/ Leave(t) \/ CloseOwn(t)
                           \/ Look(t) \/ Wakes(t) \/ Expires(t) \/ GivesUp(t)
      BY <1>3 DEF Thread
    <2>2. Requests'
      BY <2>1, RequestsWork, RequestsCloseOwn, RequestsPutIter, RequestsLook, RequestsOther
    <2>3. Threads'
      BY <2>1, ThreadsOwn
    <2>4. TypeOK'
      BY <2>1, <2>2, <2>3, TypesOwn
    <2> QED BY <2>2, <2>3, <2>4 DEF Whole
  <1> QED BY <1>1, <1>2, <1>3 DEF Next

\* Whole, the invariant on which the theorem rests, holds of all behaviours of serve.py.
THEOREM Invariant == Spec => []Whole
  BY WholeInit, WholeStep, WholeStutters, PTL DEF Spec

LEMMA WholeGives == Whole => Accounted
  <1> SUFFICES ASSUME Whole PROVE Accounted
    OBVIOUS
  <1>1. \A r \in Ids : Held(r) <=> Somewhere(r)
    BY DEF Held, Somewhere, Mine, InTh, InQ, InC, InR, Range
  <1>2. \A r \in 1 .. nreq : r \in Ids /\ r <= nreq
    BY PyServeAssumption DEF Whole, TypeOK, Ids
  <1>3. Up => \A r \in 1 .. nreq : closed[r] = IF Held(r) THEN 0 ELSE 1
    BY <1>1, <1>2 DEF Whole, Requests, Closing
  <1>4. Cardinality({t \in Ids : th[t] \notin {"none", "close", "gone"}}) <= MaxThreads
    BY DEF Whole, Threads, Members, Active
  <1> QED BY <1>3, <1>4 DEF Accounted, Whole, Requests, Lists

\* serve.py, every handler: for any number of requests and threads, and any limits of the pool and
\* its queues, no more threads than `max' run; and each request that came is held in one place, or
\* was closed once (handle(), run() and close() of all classes).
THEOREM AlwaysAccounted == Spec => []Accounted
  BY Invariant, WholeGives, PTL
=============================================================================
