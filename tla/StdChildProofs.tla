--------------------------- MODULE StdChildProofs ---------------------------
(***************************************************************************)
(* What the operations of StdChild do to the sockets: a call of            *)
(* stdhandle() trades at most one for a new one, and a reload hands each   *)
(* to one declaration or leaves it to be closed.                           *)
(***************************************************************************)
EXTENDS StdChild, TLAPS, FiniteSetTheorems, WellFoundedInduction

Kernel == [end : [Fd -> Proc \cup {Closed, Leaked}], up : SUBSET Proc,
           started : SUBSET Proc, queue : [Proc -> Seq(Nat)]]

\* The sockets whose other end a process has or had.
Sockets(K) == {f \in Fd : K.end[f] \in Proc}

\* No two declarations have the same socket.
Unshared(chs) == \A i, j \in DOMAIN chs : chs[i].fd = chs[j].fd /\ chs[i].fd # NoFd => i = j

\* The outcome o of a call replaces the socket fd, or nothing, by o.fd.
Replaces(K, fd, o) == /\ o.k \in Kernel
                      /\ o.fd \in Fd \cup {NoFd}
                      /\ o.fd \notin Sockets(K) \ {fd}
                      /\ Sockets(o.k) = (Sockets(K) \ {fd}) \cup ({o.fd} \ {NoFd})

\* The sockets are those of two lists of children, which share none.
Accounts(K, l, g) == /\ K \in Kernel
                     /\ l \in Seq(Decl) /\ Unshared(l)
                     /\ g \in Seq(Decl) /\ Unshared(g)
                     /\ Owned(l) \cap Owned(g) = {}
                     /\ Owned(l) \cup Owned(g) = Sockets(K)

\* Min() of a set of naturals is its least element: the kernel gives the lowest
\* free descriptor.
LEMMA MinIsLeast ==
  ASSUME NEW S \in SUBSET Nat, S # {}
  PROVE  Min(S) \in S /\ \A x \in S : Min(S) =< x
<1> DEFINE Less == OpToRel(<, Nat)
<1>1. PICK x \in S : \A y \in S : ~(<<y, x>> \in Less)
  BY NatLessThanWellFounded, WFMin, Zenon
<1>2. \A y \in Nat : <<y, x>> \in Less \/ ~(y < x)
  BY DEF OpToRel
<1> HIDE DEF Less
<1>3. \A y \in S : ~(y < x)
  BY <1>1, <1>2, Zenon
<1>4. \A y \in S : x =< y
  BY <1>3
<1> QED BY <1>4 DEF Min

\* The elements of a sequence are in the set it is over.
LEMMA ElementsOf == ASSUME NEW S, NEW s \in Seq(S) PROVE \A i \in 1 .. Len(s) : s[i] \in S
OBVIOUS

\* -1 is no descriptor, and no process is confused with a closed or forgotten one.
LEMMA NoFdIsNone == NoFd \notin Fd /\ Closed \notin Proc /\ Leaked \notin Proc
BY StdChildAssumption DEF NoFd

\* close() takes just that socket away, and nothing if the fd is -1.
LEMMA CloseDrops ==
  ASSUME NEW K \in Kernel, NEW fd \in Sockets(K) \cup {NoFd}
  PROVE  Close(K, fd) \in Kernel /\ Sockets(Close(K, fd)) = Sockets(K) \ {fd}
BY NoFdIsNone DEF Close, Kernel, Sockets

\* stdmkchild() returns a socket that was not open, or none.
LEMMA ForkedAdds ==
  ASSUME NEW K \in Kernel, NEW o \in Forked(K)
  PROVE  Replaces(K, NoFd, o)
<1> DEFINE a == Min(Free(K))
           b == Min(Free(K) \ {a})
           p == CHOOSE q \in Proc \ K.started : TRUE
           lost == [K EXCEPT !.end = [@ EXCEPT ![a] = Leaked, ![b] = Leaked]]
<1>1. CASE o = [k |-> K, fd |-> NoFd]
  BY <1>1, NoFdIsNone DEF Replaces, Sockets
<1>2. ASSUME Cardinality(Free(K)) >= 2
      PROVE  a \in Free(K) /\ b \in Free(K) /\ a # b
  <2>1. Free(K) \in SUBSET Nat /\ IsFiniteSet(Free(K))
    BY StdChildAssumption, FS_Subset DEF Free
  <2>2. Free(K) # {}
    BY <1>2, <2>1, FS_EmptySet
  <2>3. a \in Free(K)
    BY <2>1, <2>2, MinIsLeast
  <2>4. Free(K) \ {a} # {}
    <3>1. SUFFICES ASSUME Free(K) \ {a} = {} PROVE FALSE
      OBVIOUS
    <3>2. Free(K) = {a}
      BY <2>3, <3>1
    <3>3. Cardinality({a}) = 1
      BY FS_Singleton
    <3> HIDE DEF a
    <3> QED BY <3>2, <3>3, <1>2
  <2> HIDE DEF a
  <2>5. b \in Free(K) \ {a}
    BY <2>1, <2>4, MinIsLeast
  <2> QED BY <2>3, <2>5
<1> HIDE DEF a, b
<1>3. CASE /\ Cardinality(Free(K)) >= 2
           /\ o = [k |-> lost, fd |-> NoFd]
  BY <1>2, <1>3, NoFdIsNone DEF Replaces, Sockets, Kernel, Free
<1>4. CASE /\ Cardinality(Free(K)) >= 2
           /\ Proc \ K.started # {}
           /\ \E live \in {{}, {p}} : o = [k |-> Started(K, b, p, live), fd |-> b]
  <2>1. p \in Proc
    BY <1>4
  <2> HIDE DEF p
  <2>2. b \in Fd /\ K.end[b] = Closed
    BY <1>2, <1>4 DEF Free
  <2>3. PICK live \in {{}, {p}} : o = [k |-> Started(K, b, p, live), fd |-> b]
    BY <1>4
  <2>4. o.k \in Kernel /\ o.k.end = [K.end EXCEPT ![b] = p]
    BY <2>1, <2>2, <2>3 DEF Kernel, Started
  <2> QED BY <2>1, <2>2, <2>3, <2>4, NoFdIsNone DEF Replaces, Sockets, Kernel
<1>5. Cardinality(Free(K)) < 2 \/ Cardinality(Free(K)) >= 2
  <2>1. IsFiniteSet(Free(K))
    BY StdChildAssumption, FS_Subset DEF Free
  <2> QED BY <2>1, FS_CardinalityType
<1> QED BY <1>1, <1>3, <1>4, <1>5 DEF Forked, a, b

\* stdhandle() returns 0 exactly if it has sent the request, and leaves the
\* declaration with its socket, with another that was not open, or with none.
LEMMA HandleTells ==
  ASSUME NEW K, NEW ch, NEW r, NEW o \in StdHandle(K, ch, r)
  PROVE  o.sent = o.ok /\ o.ok \in BOOLEAN
<1>1. \A x : Done(x, r).sent = Done(x, r).ok /\ Done(x, r).ok \in BOOLEAN
  BY DEF Done
<1> QED BY <1>1 DEF StdHandle, HandleSocket

\* Sending a request changes no descriptor.
LEMMA SentKeeps ==
  ASSUME NEW K \in Kernel, NEW fd, K.end[fd] \in Proc, NEW r \in Nat
  PROVE  Sent(K, fd, r) \in Kernel /\ Sent(K, fd, r).end = K.end
<1> DEFINE p == K.end[fd]
           q == Append(K.queue[p], r)
<1>1. q \in Seq(Nat)
  BY DEF Kernel
<1> HIDE DEF p, q
<1>2. [K EXCEPT !.queue[p] = q] \in Kernel /\ [K EXCEPT !.queue[p] = q].end = K.end
  BY <1>1 DEF Kernel
<1> QED BY <1>2 DEF Sent, p, q

\* Passing the request on, or failing to, exchanges no further socket.
LEMMA DoneReplaces ==
  ASSUME NEW K \in Kernel, NEW fd \in Sockets(K) \cup {NoFd}, NEW r \in Nat,
         NEW x, Replaces(K, fd, x)
  PROVE  Replaces(K, fd, Done(x, r))
<1>1. x.k \in Kernel /\ x.fd \in Sockets(x.k) \cup {NoFd}
  BY DEF Replaces
<1>2. CASE SendResult(x.k, x.fd, r) = "ok"
  <2>1. x.k.end[x.fd] \in Proc
    BY <1>1, <1>2 DEF SendResult, Sockets
  <2>2. Sent(x.k, x.fd, r) \in Kernel /\ Sent(x.k, x.fd, r).end = x.k.end
    BY <1>1, <2>1, SentKeeps
  <2> QED BY <1>2, <2>2 DEF Done, Replaces, Sockets
<1>3. CASE SendResult(x.k, x.fd, r) = "EAGAIN"
  BY <1>3 DEF Done, Replaces
<1>4. CASE SendResult(x.k, x.fd, r) \notin {"ok", "EAGAIN"}
  <2>1. Done(x, r).k = Close(x.k, x.fd) /\ Done(x, r).fd = NoFd
    BY <1>4 DEF Done
  <2>2. Close(x.k, x.fd) \in Kernel /\ Sockets(Close(x.k, x.fd)) = Sockets(x.k) \ {x.fd}
    BY <1>1, CloseDrops
  <2> QED BY <2>1, <2>2, NoFdIsNone DEF Replaces, Sockets
<1> QED BY <1>2, <1>3, <1>4

\* stdhandle() exchanges at most the declaration's socket for one that was not
\* open, or for none, whatever fails on the way.
LEMMA HandleReplaces ==
  ASSUME NEW K \in Kernel, NEW ch, ch.fd \in Sockets(K) \cup {NoFd}, NEW r \in Nat,
         NEW o \in StdHandle(K, ch, r)
  PROVE  Replaces(K, ch.fd, o)
<1> DEFINE first == IF ch.fd = NoFd THEN Forked(K) ELSE {[k |-> K, fd |-> ch.fd]}
<1>1. Replaces(K, ch.fd, [k |-> K, fd |-> ch.fd, sent |-> TRUE, ok |-> TRUE])
  BY NoFdIsNone DEF Replaces, Sockets
<1>2. ASSUME NEW x \in first PROVE Replaces(K, ch.fd, x)
  BY <1>1, <1>2, ForkedAdds, NoFdIsNone DEF Replaces, Sockets
<1>3. ASSUME NEW x \in first, NEW y \in Forked(Close(x.k, x.fd))
      PROVE  Replaces(K, ch.fd, y)
  <2>1. Replaces(K, ch.fd, x)
    BY <1>2
  <2>2. /\ Close(x.k, x.fd) \in Kernel
        /\ Sockets(Close(x.k, x.fd)) = Sockets(x.k) \ {x.fd}
    BY <2>1, CloseDrops DEF Replaces
  <2>3. Replaces(Close(x.k, x.fd), NoFd, y)
    BY <2>2, ForkedAdds
  <2> QED BY <2>1, <2>2, <2>3, NoFdIsNone DEF Replaces, Sockets
<1> HIDE DEF first
<1>4. CASE \E x \in first : o = Done(x, r)
  BY <1>2, <1>4, DoneReplaces
<1>5. CASE \E x \in first : \E y \in Forked(Close(x.k, x.fd)) : o = Done(y, r)
  BY <1>3, <1>5, DoneReplaces
<1>6. CASE \E b \in BOOLEAN : o = [k |-> K, fd |-> ch.fd, sent |-> b, ok |-> b]
  BY <1>1, <1>6 DEF Replaces
<1> QED BY <1>4, <1>5, <1>6 DEF StdHandle, HandleSocket, first

\* A declaration with another socket is a declaration.
LEMMA WithFdIs ==
  ASSUME NEW c \in Decl, NEW fd \in Fd \cup {NoFd}
  PROVE  WithFd(c, fd) \in Decl /\ WithFd(c, fd).fd = fd
BY DEF WithFd, Decl

\* One declaration gets another socket.
LEMMA OneRewired ==
  ASSUME NEW chs \in Seq(Decl), Unshared(chs), NEW i \in DOMAIN chs,
         NEW fd \in Fd \cup {NoFd}, fd \notin Owned(chs) \ {chs[i].fd}
  PROVE  /\ Rewired(chs, i, fd) \in Seq(Decl)
         /\ Unshared(Rewired(chs, i, fd))
         /\ Owned(Rewired(chs, i, fd)) = (Owned(chs) \ {chs[i].fd}) \cup ({fd} \ {NoFd})
<1> DEFINE c == WithFd(chs[i], fd)
           chs2 == Rewired(chs, i, fd)
<1>1. c \in Decl /\ c.fd = fd
  BY WithFdIs
<1>2. chs2 = [chs EXCEPT ![i] = c]
  BY DEF Rewired
<1> HIDE DEF c, chs2
<1>3. chs2 \in Seq(Decl)
  BY <1>1, <1>2
<1>4. DOMAIN chs2 = DOMAIN chs /\ \A j \in DOMAIN chs : chs2[j].fd = IF j = i THEN fd ELSE chs[j].fd
  BY <1>1, <1>2
<1>5. Unshared(chs2)
  BY <1>4 DEF Unshared, Owned
<1>6. Owned(chs2) = (Owned(chs) \ {chs[i].fd}) \cup ({fd} \ {NoFd})
  BY <1>4 DEF Unshared, Owned
<1> QED BY <1>3, <1>5, <1>6 DEF chs2

\* A call of stdhandle() for one of two lists of children.
LEMMA RewiredAccounts ==
  ASSUME NEW K, NEW l, NEW g, Accounts(K, l, g),
         NEW i \in DOMAIN l, NEW o, Replaces(K, l[i].fd, o)
  PROVE  Accounts(o.k, Rewired(l, i, o.fd), g)
<1> DEFINE fd == l[i].fd
           l2 == Rewired(l, i, o.fd)
<1>1. l \in Seq(Decl) /\ Unshared(l)
  BY DEF Accounts
<1>2. o.fd \in Fd \cup {NoFd} /\ o.fd \notin Owned(l) \ {fd} /\ o.fd \notin Owned(g) \ {fd}
  BY DEF Accounts, Replaces
<1>3. l2 \in Seq(Decl) /\ Unshared(l2) /\ Owned(l2) = (Owned(l) \ {fd}) \cup ({o.fd} \ {NoFd})
  BY <1>1, <1>2, OneRewired
<1>4. fd \in Owned(l) \cup {NoFd} /\ NoFd \notin Owned(g)
  BY DEF Owned
<1>5. o.k \in Kernel /\ Sockets(o.k) = (Sockets(K) \ {fd}) \cup ({o.fd} \ {NoFd})
  BY DEF Replaces
<1> HIDE DEF fd, l2
<1>6. Accounts(o.k, l2, g)
  BY <1>2, <1>3, <1>4, <1>5 DEF Accounts
<1> QED BY <1>6 DEF l2

\* getchild() finds a declaration of that name, or none.
LEMMA GetChildFinds ==
  ASSUME NEW chs \in Seq(Decl), NEW name, GetChild(chs, name) # 0
  PROVE  GetChild(chs, name) \in DOMAIN chs /\ chs[GetChild(chs, name)].name = name
<1> DEFINE I == {i \in 1 .. Len(chs) : chs[i].name = name}
<1>1. GetChild(chs, name) = IF I # {} THEN Min(I) ELSE 0
  BY DEF GetChild, SelectInSeq
<1>2. I # {} /\ I \in SUBSET Nat
  BY <1>1
<1>3. Min(I) \in I
  BY <1>2, MinIsLeast
<1> QED BY <1>1, <1>2, <1>3

\* It is the first one of that name.
LEMMA GetChildFirst ==
  ASSUME NEW chs \in Seq(Decl), NEW name, GetChild(chs, name) # 0
  PROVE  /\ GetChild(chs, name) \in DOMAIN chs /\ chs[GetChild(chs, name)].name = name
         /\ \A h \in 1 .. GetChild(chs, name) - 1 : chs[h].name # name
<1> DEFINE I == {i \in 1 .. Len(chs) : chs[i].name = name}
<1>1. GetChild(chs, name) = Min(I)
  BY DEF GetChild, SelectInSeq
<1>2. GetChild(chs, name) \in DOMAIN chs /\ chs[GetChild(chs, name)].name = name
  BY GetChildFinds
<1>3. I \in SUBSET Nat /\ I # {}
  BY <1>2
<1>4. Min(I) \in I /\ \A x \in I : Min(I) <= x
  <2> HIDE DEF I
  <2> QED BY <1>3, MinIsLeast
<1>5. \A h \in 1 .. Min(I) - 1 : h \in 1 .. Len(chs) /\ ~(Min(I) <= h)
  BY <1>4
<1> QED BY <1>1, <1>2, <1>4, <1>5

\* A reload gives each socket to one new declaration or leaves it with its old
\* one, which is about to be freed.
LEMMA MergeHandsOver ==
  ASSUME NEW new \in Seq(Decl), NEW old \in Seq(Decl), Unshared(old)
  PROVE  LET m == MergeChildren(new, old) IN
           /\ m.new \in Seq(Decl)
           /\ Unshared(m.new)
           /\ Owned(m.new) = Owned(old) \ Owned(m.old)
           /\ Owned(m.old) \subseteq Owned(old)
<1> DEFINE from(i) == GetChild(old, new[i].name)
           takes(i) == /\ from(i) # 0
                       /\ \A h \in 1 .. i - 1 : new[h].name # new[i].name
           m == MergeChildren(new, old)
<1>1. /\ m.new = [i \in DOMAIN new |-> WithFd(new[i], IF takes(i) THEN old[from(i)].fd ELSE NoFd)]
      /\ m.old = [j \in DOMAIN old |->
                    IF \E i \in DOMAIN new : takes(i) /\ from(i) = j
                    THEN WithFd(old[j], NoFd) ELSE old[j]]
  BY DEF MergeChildren
<1>2. \A i \in DOMAIN new : takes(i) => from(i) \in DOMAIN old /\ old[from(i)].name = new[i].name
  BY GetChildFinds
<1>3. \A i, h \in DOMAIN new : takes(i) /\ takes(h) /\ from(i) = from(h) => i = h
  <2> SUFFICES ASSUME NEW i \in DOMAIN new, NEW h \in DOMAIN new,
                      takes(i), takes(h), from(i) = from(h)
               PROVE  i = h
    OBVIOUS
  <2>1. new[i].name = new[h].name
    BY <1>2
  <2>2. i \in Nat \ {0} /\ h \in Nat \ {0}
    OBVIOUS
  <2> QED BY <2>1, <2>2
<1> HIDE DEF from, takes, m
<1> DEFINE fds(i) == IF takes(i) THEN old[from(i)].fd ELSE NoFd
<1>4. m.new = [i \in DOMAIN new |-> WithFd(new[i], fds(i))]
  BY <1>1
<1>5. \A i \in DOMAIN new : fds(i) \in Fd \cup {NoFd}
  <2>1. \A j \in DOMAIN old : old[j] \in Decl
    OBVIOUS
  <2>2. \A c \in Decl : c.fd \in Fd \cup {NoFd}
    BY DEF Decl
  <2> QED BY <1>2, <2>1, <2>2
<1> HIDE DEF fds
<1>6. \A i \in DOMAIN new : WithFd(new[i], fds(i)) \in Decl /\ WithFd(new[i], fds(i)).fd = fds(i)
  BY <1>5, WithFdIs
<1>7. /\ DOMAIN m.new = DOMAIN new
      /\ \A i \in DOMAIN new : m.new[i].fd = IF takes(i) THEN old[from(i)].fd ELSE NoFd
  BY <1>4, <1>6 DEF fds
<1>8. /\ DOMAIN m.old = DOMAIN old
      /\ \A j \in DOMAIN old : m.old[j].fd = IF \E i \in DOMAIN new : takes(i) /\ from(i) = j
                                            THEN NoFd ELSE old[j].fd
  BY <1>1, WithFdIs
<1>9. m.new \in Seq(Decl)
  <2>1. m.new \in [1 .. Len(new) -> Decl]
    BY <1>4, <1>6
  <2> QED BY <2>1
<1>10. Unshared(m.new)
  BY <1>2, <1>3, <1>7 DEF Unshared
<1>11. Owned(m.new) \subseteq Owned(old) \ Owned(m.old)
  <2> SUFFICES ASSUME NEW i \in DOMAIN new, m.new[i].fd # NoFd
               PROVE  m.new[i].fd \in Owned(old) /\ m.new[i].fd \notin Owned(m.old)
    BY <1>7 DEF Owned
  <2>1. takes(i) /\ from(i) \in DOMAIN old /\ m.new[i].fd = old[from(i)].fd
    BY <1>2, <1>7
  <2>2. \A j \in DOMAIN old : m.old[j].fd # m.new[i].fd
    BY <2>1, <1>8 DEF Unshared
  <2> QED BY <2>1, <2>2, <1>8 DEF Owned
<1>12. Owned(old) \ Owned(m.old) \subseteq Owned(m.new)
  <2> SUFFICES ASSUME NEW j \in DOMAIN old, old[j].fd # NoFd, old[j].fd \notin Owned(m.old)
               PROVE  old[j].fd \in Owned(m.new)
    BY DEF Owned
  <2>1. PICK i \in DOMAIN new : takes(i) /\ from(i) = j
    BY <1>8 DEF Owned
  <2>2. m.new[i].fd = old[j].fd
    BY <2>1, <1>7
  <2> QED BY <2>2, <1>7 DEF Owned
<1>13. Owned(m.old) \subseteq Owned(old)
  BY <1>8 DEF Owned
<1> QED BY <1>9, <1>10, <1>11, <1>12, <1>13 DEF m

\* The first declaration of a name is not closed if it has a successor, which
\* gets its socket.
LEMMA MergeKeeps ==
  ASSUME NEW K \in Kernel, NEW new \in Seq(Decl), NEW old \in Seq(Decl), Unshared(old),
         NEW j \in DOMAIN old, old[j].fd # NoFd, GetChild(old, old[j].name) = j
  PROVE  LET m == MergeChildren(new, old)
             i == GetChild(m.new, old[j].name)
         IN  i # 0 => /\ m.new[i].fd = old[j].fd
                      /\ FreeChildren(K, m.old).end[old[j].fd] = K.end[old[j].fd]
<1> DEFINE name == old[j].name
           from(i) == GetChild(old, new[i].name)
           takes(i) == from(i) # 0 /\ \A h \in 1 .. i - 1 : new[h].name # new[i].name
           m == MergeChildren(new, old)
           i == GetChild(m.new, name)
<1> SUFFICES ASSUME i # 0
             PROVE  /\ m.new[i].fd = old[j].fd
                    /\ FreeChildren(K, m.old).end[old[j].fd] = K.end[old[j].fd]
  OBVIOUS
<1>1. /\ m.new = [h \in DOMAIN new |-> WithFd(new[h], IF takes(h) THEN old[from(h)].fd ELSE NoFd)]
      /\ m.old = [h \in DOMAIN old |->
                    IF \E g \in DOMAIN new : takes(g) /\ from(g) = h THEN WithFd(old[h], NoFd) ELSE old[h]]
  BY DEF MergeChildren
<1>2. \A h \in DOMAIN new : takes(h) => from(h) \in DOMAIN old
  BY GetChildFinds
<1>3. m.new \in Seq(Decl)
  BY MergeHandsOver
<1>4. /\ DOMAIN m.new = DOMAIN new
      /\ \A h \in DOMAIN new : /\ m.new[h].name = new[h].name
                               /\ m.new[h].fd = IF takes(h) THEN old[from(h)].fd ELSE NoFd
  <2> HIDE DEF takes, from
  <2>1. \A h \in DOMAIN new : new[h] \in Decl
    BY ElementsOf
  <2>2. \A c \in Decl : \A fd : WithFd(c, fd).name = c.name /\ WithFd(c, fd).fd = fd
    BY DEF WithFd, Decl
  <2> HIDE DEF m
  <2> QED BY <1>1, <2>1, <2>2
<1>5. i \in DOMAIN new /\ new[i].name = name /\ \A h \in 1 .. i - 1 : new[h].name # name
  <2> HIDE DEF m, name
  <2>1. i \in DOMAIN m.new /\ m.new[i].name = name /\ \A h \in 1 .. i - 1 : m.new[h].name # name
    BY <1>3, GetChildFirst
  <2>2. \A h \in 1 .. i - 1 : h \in DOMAIN new
    BY <1>3, <1>4, <2>1
  <2> QED BY <1>4, <2>1, <2>2
<1>6. takes(i) /\ from(i) = j
  <2>1. j # 0
    OBVIOUS
  <2> HIDE DEF i, m
  <2> QED BY <1>5, <2>1
<1>7. m.new[i].fd = old[j].fd
  BY <1>4, <1>5, <1>6
<1>8. old[j].fd \in Fd
  <2>1. old[j] \in Decl
    BY ElementsOf
  <2> QED BY <2>1 DEF Decl
<1>9. \A h \in DOMAIN m.old : m.old[h].fd # old[j].fd
  <2>1. \A h \in DOMAIN old : \A fd : WithFd(old[h], fd).fd = fd
    BY ElementsOf DEF WithFd, Decl
  <2>2. m.old[j].fd = NoFd
    <3>1. \E g \in DOMAIN new : takes(g) /\ from(g) = j
      BY <1>5, <1>6
    <3> HIDE DEF takes, from
    <3>2. m.old[j] = WithFd(old[j], NoFd)
      BY <1>1, <3>1
    <3> HIDE DEF m
    <3> QED BY <2>1, <3>2
  <2>3. \A h \in DOMAIN old : m.old[h].fd \in {NoFd, old[h].fd}
    BY <1>1, <2>1
  <2>4. DOMAIN m.old = DOMAIN old
    BY <1>1
  <2> HIDE DEF m
  <2> QED BY <2>2, <2>3, <2>4 DEF Unshared
<1> HIDE DEF m, i
<1>10. FreeChildren(K, m.old).end[old[j].fd] = K.end[old[j].fd]
  <2> DEFINE ends == [f \in Fd |-> IF \E h \in DOMAIN m.old : m.old[h].fd = f THEN Closed ELSE K.end[f]]
  <2>1. FreeChildren(K, m.old).end = ends
    BY DEF FreeChildren, Kernel
  <2> QED BY <1>8, <1>9, <2>1
<1> QED BY <1>7, <1>10

\* freeconfig() closes the sockets of the children it frees, and no other.
LEMMA FreeCloses ==
  ASSUME NEW K \in Kernel, NEW chs
  PROVE  /\ FreeChildren(K, chs) \in Kernel
         /\ Sockets(FreeChildren(K, chs)) = Sockets(K) \ Owned(chs)
<1> DEFINE ends == [f \in Fd |-> IF \E i \in DOMAIN chs : chs[i].fd = f THEN Closed ELSE K.end[f]]
<1>1. ends \in [Fd -> Proc \cup {Closed, Leaked}]
  BY DEF Kernel
<1>2. \A f \in Fd : ends[f] \in Proc <=> K.end[f] \in Proc /\ f \notin Owned(chs)
  BY NoFdIsNone DEF Owned
<1> HIDE DEF ends
<1>3. [K EXCEPT !.end = ends] \in Kernel /\ [K EXCEPT !.end = ends].end = ends
  BY <1>1 DEF Kernel
<1> QED BY <1>2, <1>3 DEF FreeChildren, Sockets, ends

\* The processes run on their own: no descriptor changes.
LEMMA TakesKeeps ==
  ASSUME NEW K \in Kernel, NEW p \in Proc, K.queue[p] # <<>>
  PROVE  Takes(K, p) \in Kernel /\ Takes(K, p).end = K.end
<1> DEFINE q == Tail(K.queue[p])
<1>1. K.queue[p] \in Seq(Nat)
  BY DEF Kernel
<1>2. q \in Seq(Nat)
  BY <1>1
<1> HIDE DEF q
<1>3. [K EXCEPT !.queue[p] = q] \in Kernel /\ [K EXCEPT !.queue[p] = q].end = K.end
  BY <1>2 DEF Kernel
<1> QED BY <1>3 DEF Takes, q

\* A child that ends leaves the program's end of the socket open.
LEMMA EndsKeeps ==
  ASSUME NEW K \in Kernel, NEW p \in Proc
  PROVE  Ends(K, p) \in Kernel /\ Ends(K, p).end = K.end
BY DEF Ends, Kernel

\* The processes that run have been started, and what waits for them is in R.
Waiting(K, R) == /\ K.up \subseteq K.started
                 /\ \A p \in Proc : K.queue[p] \in Seq(R)

\* stdmkchild() leaves what waits alone.
LEMMA ForkedWaits ==
  ASSUME NEW K \in Kernel, NEW R, Waiting(K, R), NEW o \in Forked(K)
  PROVE  Waiting(o.k, R)
<1> DEFINE a == Min(Free(K))
           b == Min(Free(K) \ {a})
           p == CHOOSE q \in Proc \ K.started : TRUE
           lost == [K EXCEPT !.end = [@ EXCEPT ![a] = Leaked, ![b] = Leaked]]
<1>1. \/ o = [k |-> K, fd |-> NoFd]
      \/ o = [k |-> lost, fd |-> NoFd]
      \/ \E live \in {{}, {p}} : o = [k |-> Started(K, b, p, live), fd |-> b]
  <2> HIDE DEF a, b, p
  <2> QED BY DEF Forked, a, b, p
<1> HIDE DEF a, b, p
<1>2. lost.queue = K.queue /\ lost.up = K.up /\ lost.started = K.started
  BY DEF Kernel
<1>3. CASE \E live \in {{}, {p}} : o = [k |-> Started(K, b, p, live), fd |-> b]
  BY <1>3 DEF Started, Waiting
<1> HIDE DEF lost
<1> QED BY <1>1, <1>2, <1>3 DEF Waiting

\* So does close().
LEMMA CloseWaits ==
  ASSUME NEW K, NEW R, Waiting(K, R), NEW fd
  PROVE  Waiting(Close(K, fd), R)
BY DEF Close, Waiting

\* A request that is passed on is the only one that is added.
LEMMA DoneWaits ==
  ASSUME NEW R, NEW r \in R, NEW x, x.k \in Kernel, x.fd \in Sockets(x.k) \cup {NoFd},
         Waiting(x.k, R)
  PROVE  Waiting(Done(x, r).k, R)
<1> DEFINE K == x.k
           p == K.end[x.fd]
<1>1. CASE SendResult(K, x.fd, r) = "ok"
  <2>1. p \in Proc
    BY <1>1 DEF SendResult, Sockets
  <2>2. Done(x, r).k = [K EXCEPT !.queue[p] = Append(@, r)]
    BY <1>1 DEF Done, Sent
  <2>3. Append(K.queue[p], r) \in Seq(R)
    BY <2>1 DEF Waiting
  <2> HIDE DEF p, K
  <2>4. K \in Kernel /\ Waiting(K, R)
    BY DEF K
  <2> QED BY <2>1, <2>2, <2>3, <2>4 DEF Waiting, Kernel
<1>2. CASE SendResult(K, x.fd, r) # "ok"
  <2>1. Done(x, r).k \in {K, Close(K, x.fd)}
    BY <1>2 DEF Done
  <2> QED BY <2>1, CloseWaits
<1> QED BY <1>1, <1>2

\* What stdhandle() adds to what waits for the processes is the request.
LEMMA HandleWaits ==
  ASSUME NEW K \in Kernel, NEW ch, ch.fd \in Sockets(K) \cup {NoFd},
         NEW R, NEW r \in R, Waiting(K, R), NEW o \in StdHandle(K, ch, r)
  PROVE  Waiting(o.k, R)
<1> DEFINE first == IF ch.fd = NoFd THEN Forked(K) ELSE {[k |-> K, fd |-> ch.fd]}
           Fine(x) == x.k \in Kernel /\ x.fd \in Sockets(x.k) \cup {NoFd} /\ Waiting(x.k, R)
<1>1. ASSUME NEW L \in Kernel, Waiting(L, R), NEW x \in Forked(L) PROVE Fine(x)
  BY <1>1, ForkedAdds, ForkedWaits DEF Replaces
<1>2. ASSUME NEW x \in first PROVE Fine(x)
  <2>1. CASE ch.fd = NoFd
    BY <1>1, <1>2, <2>1
  <2>2. CASE ch.fd # NoFd
    BY <1>2, <2>2
  <2> QED BY <2>1, <2>2
<1>3. ASSUME NEW x \in first, NEW y \in Forked(Close(x.k, x.fd)) PROVE Fine(y)
  <2>1. Fine(x)
    BY <1>2
  <2>2. Close(x.k, x.fd) \in Kernel /\ Waiting(Close(x.k, x.fd), R)
    BY <2>1, CloseDrops, CloseWaits
  <2> HIDE DEF Fine
  <2> QED BY <1>1, <2>2
<1>4. ASSUME NEW x, Fine(x) PROVE Waiting(Done(x, r).k, R)
  BY <1>4, DoneWaits
<1> HIDE DEF first, Fine
<1>5. CASE \E x \in first : o = Done(x, r)
  BY <1>2, <1>4, <1>5
<1>6. CASE \E x \in first : \E y \in Forked(Close(x.k, x.fd)) : o = Done(y, r)
  BY <1>3, <1>4, <1>6
<1>7. CASE \E b \in BOOLEAN : o = [k |-> K, fd |-> ch.fd, sent |-> b, ok |-> b]
  BY <1>7
<1> QED BY <1>5, <1>6, <1>7 DEF StdHandle, HandleSocket, first

\* A process takes what waits for it, and nothing waits for one that has ended.
LEMMA ProcessWaits ==
  ASSUME NEW K \in Kernel, NEW R, Waiting(K, R), NEW p \in Proc
  PROVE  /\ K.queue[p] # <<>> => Waiting(Takes(K, p), R)
         /\ Waiting(Ends(K, p), R)
<1>1. ASSUME K.queue[p] # <<>> PROVE Waiting(Takes(K, p), R)
  <2> DEFINE q == Tail(K.queue[p])
  <2>1. q \in Seq(R)
    BY <1>1 DEF Waiting
  <2>2. Takes(K, p) = [K EXCEPT !.queue[p] = q]
    BY DEF Takes
  <2> HIDE DEF q
  <2> QED BY <2>1, <2>2 DEF Waiting, Kernel
<1>2. Waiting(Ends(K, p), R)
  BY DEF Ends, Waiting, Kernel
<1> QED BY <1>1, <1>2
=============================================================================
