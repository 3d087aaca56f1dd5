---------------------------- MODULE DirplexProofs ----------------------------
(***************************************************************************)
(* That dirplex gives every request one outcome, keeps account of the      *)
(* sockets of all configurations in memory, and holds on to the one that a *)
(* request is handled by, for any tree of directories, any contents of the *)
(* .htrc files and whatever is done to them.                               *)
(***************************************************************************)
EXTENDS Dirplex, StdChildProofs

-----------------------------------------------------------------------------
(* The configurations in memory.                                           *)

Ver == DOMAIN Htrc \cup {"none"}
ConfigType == [mtime : Nat, lastck : 0 .. now, ver : Ver, chs : Seq(Decl)]
Typed(c) == /\ c = [cf |-> c.cf, kern |-> c.kern]
            /\ c.cf \in [DOMAIN c.cf -> ConfigType]
            /\ DOMAIN Fixed \subseteq DOMAIN c.cf

\* The sockets are those of the declarations in all of the configurations.
Accounted(c) ==
  /\ c.kern \in Kernel
  /\ \A p \in DOMAIN c.cf : Unshared(c.cf[p].chs)
  /\ \A p, q \in DOMAIN c.cf : p # q => Owned(c.cf[p].chs) \cap Owned(c.cf[q].chs) = {}
  /\ UNION {Owned(c.cf[p].chs) : p \in DOMAIN c.cf} = Sockets(c.kern)

\* A configuration is that of the file at its last check, unless a change after
\* it did not show in the mtime.
Checked(c) ==
  \A p \in DOMAIN c.cf \ DOMAIN Fixed :
    \/ File(p).ver = c.cf[p].ver
    \/ File(p).mtime = c.cf[p].mtime
    \/ File(p).since >= c.cf[p].lastck

Good(c) == Typed(c) /\ Accounted(c) /\ Checked(c)

Clocks == now \in Nat /\ CheckAge \in Nat
FilesOK == files \in [HtDir -> [ver : Ver, mtime : Nat, since : Nat]]

\* b is what becomes of c when getconfig() is called for the places S.
Visited(c, b, S) ==
  /\ DOMAIN b.cf = DOMAIN c.cf \cup S
  /\ \A p \in DOMAIN c.cf : p \notin S \/ ~Due(c, p) => b.cf[p] = c.cf[p]
  /\ \A p \in S : ~Due(b, p)

\* What is read declares children that have no socket.
LEMMA ReadHasNone ==
  ASSUME NEW v \in Ver
  PROVE  Children(v) \in Seq(Decl) /\ Owned(Children(v)) = {} /\ Unshared(Children(v))
<1> DEFINE chs == Version(v).children
           new(i) == [name |-> chs[i].name, type |-> chs[i].type, fd |-> NoFd]
<1>1. chs \in Seq([name : STRING, type : {"child", "fchild"}])
  BY DirplexAssumption DEF Version, EmptyConfig, Ver
<1>2. Children(v) = [i \in 1 .. Len(chs) |-> new(i)]
  BY <1>1 DEF Children
<1>3. \A i \in 1 .. Len(chs) : new(i) \in Decl /\ new(i).fd = NoFd
  <2>1. \A i \in 1 .. Len(chs) : chs[i] \in [name : STRING, type : {"child", "fchild"}]
    BY <1>1, ElementsOf
  <2> QED BY <2>1 DEF Decl
<1> HIDE DEF chs, new
<1>4. Children(v) \in Seq(Decl)
  BY <1>1, <1>2, <1>3
<1> QED BY <1>2, <1>3, <1>4 DEF Owned, Unshared

\* One configuration is put in the place of another: the sockets are accounted
\* for as long as the new one has some of the old one's, or some that were free.
LEMMA Exchanged ==
  ASSUME NEW c, Accounted(c), NEW b, b.kern \in Kernel, NEW p,
         DOMAIN b.cf = DOMAIN c.cf \cup {p},
         \A q \in DOMAIN c.cf \ {p} : b.cf[q].chs = c.cf[q].chs,
         NEW A, A = IF p \in DOMAIN c.cf THEN Owned(c.cf[p].chs) ELSE {},
         Unshared(b.cf[p].chs),
         Owned(b.cf[p].chs) \cap (Sockets(c.kern) \ A) = {},
         Sockets(b.kern) = (Sockets(c.kern) \ A) \cup Owned(b.cf[p].chs)
  PROVE  Accounted(b)
<1> DEFINE Was(q) == Owned(c.cf[q].chs)
           Is(q) == Owned(b.cf[q].chs)
<1>1. \A q \in DOMAIN c.cf \ {p} : Is(q) = Was(q)
  OBVIOUS
<1>2. \A q, r \in DOMAIN c.cf : q # r => Was(q) \cap Was(r) = {}
  BY DEF Accounted
<1>3. UNION {Was(q) : q \in DOMAIN c.cf} = Sockets(c.kern)
  BY DEF Accounted
<1>4. A = IF p \in DOMAIN c.cf THEN Was(p) ELSE {}
  OBVIOUS
<1>5. \A q \in DOMAIN b.cf : Unshared(b.cf[q].chs)
  BY DEF Accounted
<1>6. Is(p) \cap (Sockets(c.kern) \ A) = {} /\ Sockets(b.kern) = (Sockets(c.kern) \ A) \cup Is(p)
  OBVIOUS
<1> HIDE DEF Was, Is
<1>7. \A q \in DOMAIN c.cf \ {p} : Is(q) \subseteq Sockets(c.kern) \ A
  BY <1>1, <1>2, <1>3, <1>4
<1>8. \A q, r \in DOMAIN b.cf : q # r => Is(q) \cap Is(r) = {}
  BY <1>1, <1>2, <1>6, <1>7
<1>9. UNION {Is(q) : q \in DOMAIN b.cf} = Sockets(b.kern)
  <2>1. UNION {Is(q) : q \in DOMAIN b.cf} = (UNION {Was(q) : q \in DOMAIN c.cf \ {p}}) \cup Is(p)
    BY <1>1
  <2>2. UNION {Was(q) : q \in DOMAIN c.cf \ {p}} = Sockets(c.kern) \ A
    BY <1>2, <1>3, <1>4
  <2> QED BY <1>6, <2>1, <2>2
<1> QED BY <1>5, <1>8, <1>9 DEF Accounted, Is

\* The file that getconfig() looks at, or none.
LEMMA FileTyped == ASSUME FilesOK, NEW p PROVE File(p) \in [ver : Ver, mtime : Nat, since : Nat]
BY DEF FilesOK, File, Absent, Ver

\* A file that is read takes the place of the configuration, with its sockets.
LEMMA RereadGood ==
  ASSUME Clocks, FilesOK, NEW c, Good(c), NEW p, p \notin DOMAIN Fixed
  PROVE  /\ Good(Reread(c, p))
         /\ DOMAIN Reread(c, p).cf = DOMAIN c.cf \cup {p}
         /\ \A q \in DOMAIN c.cf \ {p} : Reread(c, p).cf[q] = c.cf[q]
         /\ Reread(c, p).cf[p].lastck = now
<1> DEFINE b == Reread(c, p)
           old == IF p \in DOMAIN c.cf THEN c.cf[p].chs ELSE <<>>
           new == Children(File(p).ver)
           m == MergeChildren(new, old)
           config == [mtime |-> File(p).mtime, lastck |-> now, ver |-> File(p).ver, chs |-> m.new]
<1>1. File(p) \in [ver : Ver, mtime : Nat, since : Nat]
  BY FileTyped
<1>2. old \in Seq(Decl) /\ Unshared(old)
  BY DEF Good, Typed, Accounted, ConfigType, Unshared
<1>3. new \in Seq(Decl)
  BY <1>1, ReadHasNone
<1>4. /\ m.new \in Seq(Decl) /\ Unshared(m.new)
      /\ Owned(m.new) = Owned(old) \ Owned(m.old) /\ Owned(m.old) \subseteq Owned(old)
  BY <1>2, <1>3, MergeHandsOver
<1>5. /\ b.cf = [q \in DOMAIN c.cf \cup {p} |-> IF q = p THEN config ELSE c.cf[q]]
      /\ b = [cf |-> b.cf, kern |-> FreeChildren(c.kern, m.old)]
  BY DEF Reread, Put
<1> HIDE DEF b, m, new
<1>6. config \in ConfigType
  BY <1>1, <1>4 DEF ConfigType, Clocks
<1>7. /\ DOMAIN b.cf = DOMAIN c.cf \cup {p}
      /\ \A q \in DOMAIN c.cf \ {p} : b.cf[q] = c.cf[q]
      /\ b.cf[p] = config
      /\ b.cf \in [DOMAIN b.cf -> ConfigType]
  <2> HIDE DEF config
  <2> QED BY <1>5, <1>6 DEF Good, Typed
<1>8. b.kern \in Kernel /\ Sockets(b.kern) = Sockets(c.kern) \ Owned(m.old)
  BY <1>5, FreeCloses DEF Good, Accounted
<1>9. Accounted(b)
  <2> DEFINE A == IF p \in DOMAIN c.cf THEN Owned(c.cf[p].chs) ELSE {}
  <2>1. Owned(old) = A
    BY DEF Owned
  <2>2. b.cf[p].chs = m.new
    BY <1>7
  <2>3. A \subseteq Sockets(c.kern)
    BY DEF Good, Accounted
  <2> HIDE DEF A, old, config
  <2>4. Owned(m.new) \cap (Sockets(c.kern) \ A) = {}
    BY <1>4, <2>1
  <2>5. Sockets(b.kern) = (Sockets(c.kern) \ A) \cup Owned(m.new)
    BY <1>4, <1>8, <2>1, <2>3
  <2>6. A = IF p \in DOMAIN c.cf THEN Owned(c.cf[p].chs) ELSE {}
    BY DEF A
  <2>7. \A q \in DOMAIN c.cf \ {p} : b.cf[q].chs = c.cf[q].chs
    BY <1>7
  <2>8. Accounted(c) /\ b.kern \in Kernel /\ DOMAIN b.cf = DOMAIN c.cf \cup {p}
    BY <1>7, <1>8 DEF Good
  <2>9. /\ Unshared(b.cf[p].chs)
        /\ Owned(b.cf[p].chs) \cap (Sockets(c.kern) \ A) = {}
        /\ Sockets(b.kern) = (Sockets(c.kern) \ A) \cup Owned(b.cf[p].chs)
    BY <1>4, <2>2, <2>4, <2>5
  <2> QED BY <2>6, <2>7, <2>8, <2>9, Exchanged
<1>10. Typed(b)
  BY <1>5, <1>7 DEF Good, Typed
<1>11. Checked(b)
  BY <1>7 DEF Good, Checked
<1> HIDE DEF config
<1> QED BY <1>7, <1>9, <1>10, <1>11 DEF b, Good, config

\* getconfig() of a further place.
LEMMA VisitsOne ==
  ASSUME Clocks, FilesOK, NEW c, NEW c0, NEW S, Good(c), Visited(c0, c, S),
         NEW p, p \notin DOMAIN Fixed
  PROVE  Good(GetConfig(c, p)) /\ Visited(c0, GetConfig(c, p), S \cup {p})
<1> DEFINE b == GetConfig(c, p)
<1>1. CASE Reads(c, p)
  <2>1. b = Reread(c, p)
    BY <1>1 DEF GetConfig
  <2>2. p \notin DOMAIN c0.cf \/ (p \notin S /\ Due(c0, p))
    <3>1. CASE p \notin DOMAIN c.cf
      BY <3>1 DEF Visited
    <3>2. CASE Due(c, p)
      BY <3>2 DEF Visited, Due
    <3> QED BY <1>1, <3>1, <3>2 DEF Reads
  <2>3. /\ Good(b)
        /\ DOMAIN b.cf = DOMAIN c.cf \cup {p}
        /\ \A q \in DOMAIN c.cf \ {p} : b.cf[q] = c.cf[q]
        /\ b.cf[p].lastck = now
    BY <2>1, RereadGood
  <2> HIDE DEF b
  <2>4. Visited(c0, b, S \cup {p})
    BY <2>2, <2>3 DEF Visited, Due, Clocks
  <2> QED BY <2>3, <2>4 DEF b
<1>2. CASE ~Reads(c, p) /\ Due(c, p)
  <2> DEFINE d == [c.cf[p] EXCEPT !.lastck = now]
  <2>1. b = [cf |-> [c.cf EXCEPT ![p] = d], kern |-> c.kern]
    BY <1>2 DEF GetConfig, Good, Typed
  <2>2. p \in DOMAIN c.cf /\ ~Changed(c, p)
    BY <1>2 DEF Reads
  <2>3. /\ d \in ConfigType /\ d.lastck = now /\ d.chs = c.cf[p].chs
        /\ d.mtime = c.cf[p].mtime /\ d.ver = c.cf[p].ver
    <3>1. c.cf[p] \in ConfigType
      BY <2>2 DEF Good, Typed
    <3> HIDE DEF b
    <3> QED BY <3>1 DEF ConfigType, Clocks
  <2> HIDE DEF b, d
  <2>4. /\ DOMAIN b.cf = DOMAIN c.cf
        /\ \A q \in DOMAIN c.cf \ {p} : b.cf[q] = c.cf[q]
        /\ b.cf[p] = d /\ b.kern = c.kern /\ b = [cf |-> b.cf, kern |-> b.kern]
        /\ b.cf \in [DOMAIN b.cf -> ConfigType]
    BY <2>1, <2>2, <2>3 DEF Good, Typed
  <2>5. Typed(b)
    BY <2>4 DEF Good, Typed
  <2>6. Accounted(b)
    <3>1. \A q \in DOMAIN c.cf : b.cf[q].chs = c.cf[q].chs
      BY <2>3, <2>4
    <3> QED BY <2>4, <3>1 DEF Good, Accounted
  <2>7. Checked(b)
    BY <2>2, <2>3, <2>4 DEF Good, Checked, Changed
  <2>8. Visited(c0, b, S \cup {p})
    BY <1>2, <2>2, <2>3, <2>4 DEF Visited, Due, Clocks
  <2> QED BY <2>5, <2>6, <2>7, <2>8 DEF Good, b
<1>3. CASE ~Reads(c, p) /\ ~Due(c, p)
  BY <1>3 DEF GetConfig, Visited, Reads
<1> QED BY <1>1, <1>2, <1>3

\* g is what becomes of c in n turns of the loop of getconfigs().
Loop(c, d, n, g) == g = [i \in 0 .. n |-> IF i = 0 THEN c ELSE GetConfig(g[i - 1], Chain(d)[i])]

\* The loop comes to an end, as it goes up one directory at a time.
LEMMA LoopEnds == ASSUME NEW c, NEW d, NEW n \in Nat PROVE \E g : Loop(c, d, n, g)
<1> DEFINE Bad == {k \in 0 .. n : ~\E g : Loop(c, d, k, g)}
<1> SUFFICES ASSUME Bad # {} PROVE FALSE
  OBVIOUS
<1>1. Bad \in SUBSET Nat
  OBVIOUS
<1>2. PICK k \in Bad : \A j \in Bad : k <= j
  <2> HIDE DEF Bad
  <2> QED BY <1>1, MinIsLeast
<1>3. k \in 0 .. n /\ ~\E g : Loop(c, d, k, g)
  BY <1>2
<1>4. k # 0
  <2>1. Loop(c, d, 0, [i \in 0 .. 0 |-> c])
    BY DEF Loop
  <2> QED BY <1>3, <2>1
<1>5. PICK g : Loop(c, d, k - 1, g)
  BY <1>2, <1>3, <1>4
<1> DEFINE f(i) == IF i = 0 THEN c ELSE GetConfig(g[i - 1], Chain(d)[i])
           h == [i \in 0 .. k |-> f(i)]
<1>6. \A i \in 0 .. k - 1 : g[i] = f(i)
  BY <1>5 DEF Loop
<1>7. \A i \in 0 .. k : i # 0 => h[i - 1] = g[i - 1]
  <2> HIDE DEF f
  <2> QED BY <1>3, <1>6
<1>8. Loop(c, d, k, h)
  <2>1. \A i \in 0 .. k : h[i] = IF i = 0 THEN c ELSE GetConfig(h[i - 1], Chain(d)[i])
    BY <1>7
  <2>2. h = [i \in 0 .. k |-> h[i]]
    OBVIOUS
  <2> HIDE DEF h
  <2> QED BY <2>1, <2>2 DEF Loop
<1> QED BY <1>3, <1>8

Paths == {d \in Seq(STRING) : \A n \in 0 .. Len(d) : SubSeq(d, 1, n) \notin DOMAIN Fixed}
Up(d) == {Chain(d)[i] : i \in 1 .. Len(d) + 1}

\* getconfigs() looks at every directory upwards and leaves all others alone.
LEMMA VisitsAll ==
  ASSUME Clocks, FilesOK, NEW c, Good(c), NEW d \in Paths
  PROVE  Good(GetConfigs(c, d)) /\ Visited(c, GetConfigs(c, d), Up(d))
<1> DEFINE n == Len(d) + 1
           after == CHOOSE g : Loop(c, d, n, g)
           Seen(i) == {Chain(d)[j] : j \in 1 .. i}
           Fine(i) == Good(after[i]) /\ Visited(c, after[i], Seen(i))
           Bad == {i \in 0 .. n : ~Fine(i)}
<1>1. n \in Nat
  BY DEF Paths
<1>2. GetConfigs(c, d) = after[n]
  BY DEF GetConfigs, Loop
<1>3. Loop(c, d, n, after)
  <2> HIDE DEF n
  <2> QED BY <1>1, LoopEnds
<1>4. \A i \in 1 .. n : Chain(d)[i] \notin DOMAIN Fixed
  BY DEF Chain, Paths
<1>5. Up(d) = Seen(n)
  BY DEF Up
<1> HIDE DEF n, after
<1>6. \A i \in 0 .. n : after[i] = IF i = 0 THEN c ELSE GetConfig(after[i - 1], Chain(d)[i])
  BY <1>3 DEF Loop
<1>7. Bad = {}
  <2> SUFFICES ASSUME Bad # {} PROVE FALSE
    OBVIOUS
  <2>1. Bad \in SUBSET Nat
    BY <1>1
  <2>2. PICK k \in Bad : \A j \in Bad : k <= j
    <3> HIDE DEF Bad
    <3> QED BY <2>1, MinIsLeast
  <2>3. k \in 0 .. n /\ ~Fine(k)
    BY <2>2
  <2>4. k # 0
    <3>1. after[0] = c
      <4>1. 0 \in 0 .. n
        BY <1>1
      <4> QED BY <1>6, <4>1
    <3>2. Seen(0) = {}
      OBVIOUS
    <3> HIDE DEF Seen
    <3>3. Fine(0)
      BY <3>1, <3>2 DEF Visited
    <3> QED BY <2>3, <3>3
  <2>5. Fine(k - 1)
    <3>1. k - 1 \in 0 .. n /\ ~(k <= k - 1)
      BY <1>1, <2>3, <2>4
    <3> HIDE DEF Fine
    <3> QED BY <2>2, <3>1
  <2>6. Seen(k) = Seen(k - 1) \cup {Chain(d)[k]}
    BY <1>1, <2>3, <2>4
  <2>7. after[k] = GetConfig(after[k - 1], Chain(d)[k])
    BY <1>6, <2>3, <2>4
  <2>8. Chain(d)[k] \notin DOMAIN Fixed
    BY <1>1, <1>4, <2>3, <2>4
  <2> HIDE DEF Seen, Bad
  <2>9. Good(after[k - 1]) /\ Visited(c, after[k - 1], Seen(k - 1))
    BY <2>5
  <2> HIDE DEF Fine
  <2>10. Good(after[k]) /\ Visited(c, after[k], Seen(k))
    BY <2>6, <2>7, <2>8, <2>9, VisitsOne
  <2> QED BY <2>3, <2>10 DEF Fine
<1>8. Fine(n)
  <2> HIDE DEF Fine
  <2> QED BY <1>1, <1>7
<1> HIDE DEF Seen
<1> QED BY <1>2, <1>5, <1>8

-----------------------------------------------------------------------------
(* The invariant.                                                          *)

Times == now \in Nat /\ clock \in 0 .. MaxTime /\ now <= clock

\* The calls of checkpath() and what they have found.  The outermost one is
\* final, and each has an element left to look at.
Frame == [path : DOMAIN Node, rest : Seq(STRING), final : BOOLEAN]
Waiting404(fs) == \A i \in DOMAIN fs : fs[i].rest # <<>> /\ (fs[i].final \/ i > 1)
Calls == /\ walk \in Frame /\ frames \in Seq(Frame)
         /\ pc \in {"dir", "entry"} => walk.rest # <<>>
         /\ walk.final \/ frames # <<>>
         /\ Waiting404(frames)
         /\ sub.dir \in DOMAIN Node /\ sub.type \in {"file", "directory", "notfound"}
         /\ hand # <<>> => pc = "handle"

\* The requests that are over are all but the one that is served.
Over == IF pc = "top" THEN nreq ELSE nreq - 1
Outcomes == /\ pc \in {"top", "dir", "capture", "entry", "match", "handle", "notfound", "ended"}
            /\ nreq \in Nat
            /\ pc \notin {"top", "ended"} => nreq > 0
            /\ pc # "ended" => outcome = [i \in 1 .. Over |-> i]

Control == Calls /\ Outcomes

\* The configuration that is held will not be read again until the request is
\* over: it was checked, or is not a directory's.
Holds == /\ pc = "handle" => hand[1] \in DOMAIN cf /\ hand[2] \in DOMAIN Version(cf[hand[1]].ver).pats
         /\ \A p \in Held : p \in DOMAIN cf /\ (p \in DOMAIN Fixed \/ ~Due(Conf, p))

IInv == Times /\ FilesOK /\ Good(Conf) /\ Control /\ Holds

-----------------------------------------------------------------------------
(* The ways on.                                                            *)

\* Every path that exists is one whose directories exist.
LEMMA NodesArePaths ==
  /\ <<>> \in DOMAIN Node
  /\ \A d \in DOMAIN Node : d \in Paths /\ (Kind(d) = "file" => Front(d) \in DOMAIN Node)
  /\ \A d : Kind(d) # "none" => d \in DOMAIN Node
<1>1. Kind(<<>>) # "file" /\ <<>> \in DOMAIN Node
  BY DirplexAssumption DEF Kind
<1>2. \A d \in DOMAIN Node : d \in Paths
  BY DirplexAssumption DEF Paths
<1>3. \A d \in DOMAIN Node : d # <<>> => Front(d) \in DOMAIN Node
  BY DirplexAssumption
<1>4. \A d : Kind(d) # "none" => d \in DOMAIN Node
  BY DEF Kind
<1> QED BY <1>1, <1>2, <1>3, <1>4

\* An outcome is the end of the request, in whatever call it comes.
LEMMA ServedControl ==
  ASSUME Control, pc \notin {"top", "ended"}, NEW what, Served(what), nreq' = nreq
  PROVE  Control' /\ Held' = {} /\ pc' = "top"
<1>1. pc' = "top" /\ walk' = NoWalk /\ frames' = <<>> /\ sub' = NoSub /\ hand' = <<>>
  BY DEF Served
<1>2. outcome = [i \in 1 .. nreq - 1 |-> i] /\ nreq \in Nat /\ nreq > 0
  BY DEF Control, Outcomes, Over
<1>3. outcome' = [i \in 1 .. nreq |-> i]
  <2>1. outcome \in Seq(Nat) /\ Len(outcome) = nreq - 1
    BY <1>2
  <2>2. outcome' = Append(outcome, nreq)
    BY DEF Served
  <2>3. outcome' \in Seq(Nat) /\ Len(outcome') = nreq
    BY <1>2, <2>1, <2>2
  <2>4. \A i \in 1 .. nreq : outcome'[i] = i
    BY <1>2, <2>1, <2>2
  <2> QED BY <2>3, <2>4
<1>4. Outcomes'
  BY <1>1, <1>2, <1>3 DEF Outcomes, Over
<1>5. NoWalk \in Frame /\ <<>> \in Seq(Frame)
  BY NodesArePaths DEF NoWalk, Frame
<1>6. Calls'
  <2>1. NoWalk.final /\ NoSub.dir \in DOMAIN Node /\ NoSub.type \in {"file", "directory", "notfound"}
    BY NodesArePaths DEF NoWalk, NoSub
  <2>2. Waiting404(<<>>)
    BY DEF Waiting404
  <2> QED BY <1>1, <1>5, <2>1, <2>2 DEF Calls, Waiting404
<1> QED BY <1>1, <1>4, <1>6 DEF Control, Held

\* A subject was found, or nothing.
LEMMA HandlesControl ==
  ASSUME Control, pc \notin {"top", "ended", "handle"}, NEW d \in DOMAIN Node, NEW name,
         NEW type \in {"file", "directory", "notfound"}, Handles(d, name, type), nreq' = nreq
  PROVE  Control' /\ Held' = {} /\ pc' = "match"
<1>1. /\ pc' = "match" /\ walk' = walk /\ frames' = frames /\ hand' = hand /\ outcome' = outcome
      /\ sub'.dir = d /\ sub'.type = type
  BY DEF Handles
<1>2. Calls'
  BY <1>1 DEF Control, Calls
<1>3. Outcomes'
  BY <1>1 DEF Control, Outcomes, Over
<1> QED BY <1>1, <1>2, <1>3 DEF Control, Held

\* checkpath() goes on with another directory.
LEMMA DescendsControl ==
  ASSUME Control, pc \in {"dir", "entry"}, NEW p \in DOMAIN Node,
         NEW rest \in Seq(STRING) \ {<<>>}, NEW final \in BOOLEAN,
         NEW waiting \in Seq(Frame), Waiting404(waiting), final \/ waiting # <<>>,
         Descends(p, rest, final, waiting), nreq' = nreq
  PROVE  Control' /\ Held' = {} /\ pc' = "dir"
<1>1. /\ pc' = "dir" /\ walk' = [path |-> p, rest |-> rest, final |-> final] /\ frames' = waiting
      /\ sub' = sub /\ hand' = hand /\ outcome' = outcome
  BY DEF Descends
<1>2. walk' \in Frame /\ walk'.rest # <<>> /\ walk'.final = final
  BY <1>1 DEF Frame
<1>3. Calls'
  BY <1>1, <1>2 DEF Control, Calls
<1>4. Outcomes'
  BY <1>1 DEF Control, Outcomes, Over
<1> QED BY <1>1, <1>3, <1>4 DEF Control, Held

\* What is left of a sequence without its last element.
LEMMA WithoutLast ==
  ASSUME NEW S, NEW s \in Seq(S), Len(s) > 0
  PROVE  LET t == SubSeq(s, 1, Len(s) - 1) IN
           /\ t \in Seq(S) /\ Len(t) = Len(s) - 1
           /\ \A i \in DOMAIN t : i \in DOMAIN s /\ t[i] = s[i]
<1> DEFINE n == Len(s) - 1
           t == SubSeq(s, 1, n)
<1>1. n \in Nat /\ DOMAIN s = 1 .. Len(s) /\ Len(s) \in Nat
  OBVIOUS
<1>2. t = [i \in 1 .. n |-> s[i]]
  OBVIOUS
<1>3. \A i \in 1 .. n : i \in DOMAIN s /\ s[i] \in S
  BY <1>1, ElementsOf
<1>4. t \in Seq(S) /\ Len(t) = n /\ DOMAIN t = 1 .. n
  <2> HIDE DEF n
  <2> QED BY <1>1, <1>2, <1>3
<1>5. \A i \in 1 .. n : t[i] = s[i]
  BY <1>2
<1> QED BY <1>3, <1>4, <1>5

\* Nothing was found: the call that waits goes on, or the answer is 404.
LEMMA NotHereControl ==
  ASSUME Control, pc = "entry", NotHere, nreq' = nreq
  PROVE  Control' /\ Held' = {} /\ pc' \in {"match", "entry"}
<1>1. CASE walk.final /\ Handles(walk.path, "", "notfound")
  <2>1. walk.path \in DOMAIN Node
    BY DEF Control, Calls, Frame
  <2> QED BY <1>1, <2>1, HandlesControl
<1>2. CASE /\ ~walk.final
           /\ walk' = Last(frames) /\ frames' = Front(frames)
           /\ UNCHANGED <<pc, sub, hand, outcome>>
  <2>1. frames \in Seq(Frame) /\ frames # <<>> /\ Waiting404(frames)
    BY <1>2 DEF Control, Calls
  <2>2. Len(frames) \in DOMAIN frames /\ Len(frames) \in Nat \ {0}
    BY <2>1
  <2>3. walk' = frames[Len(frames)]
    BY <1>2 DEF Last
  <2>4. walk' \in Frame /\ walk'.rest # <<>> /\ (walk'.final \/ Len(frames) > 1)
    BY <2>1, <2>2, <2>3 DEF Waiting404
  <2>5. frames' = SubSeq(frames, 1, Len(frames) - 1)
    BY <1>2 DEF Front
  <2>6. /\ frames' \in Seq(Frame) /\ Len(frames') = Len(frames) - 1
        /\ \A i \in DOMAIN frames' : i \in DOMAIN frames /\ frames'[i] = frames[i]
    BY <2>1, <2>2, <2>5, WithoutLast
  <2>7. Waiting404(frames')
    BY <2>1, <2>6 DEF Waiting404
  <2>8. walk'.final \/ frames' # <<>>
    BY <2>2, <2>4, <2>6
  <2>9. Calls'
    BY <1>2, <2>4, <2>6, <2>7, <2>8 DEF Control, Calls
  <2>10. Outcomes'
    BY <1>2 DEF Control, Outcomes, Over
  <2> QED BY <1>2, <2>9, <2>10 DEF Control, Held
<1> QED BY <1>1, <1>2 DEF NotHere

-----------------------------------------------------------------------------
(* What is found in the configurations.                                    *)

\* getconfigs() returns the directories upwards and the fixed configurations.
LEMMA PlacesAre ==
  ASSUME NEW d \in Paths
  PROVE  /\ DOMAIN Places(d) \subseteq Nat
         /\ \A i \in DOMAIN Places(d) : Places(d)[i] \in Up(d) \cup DOMAIN Fixed
<1> DEFINE S == Up(d) \cup DOMAIN Fixed
           n == Len(d) + 1
           up(i) == SubSeq(d, 1, n - i)
<1>1. n \in Nat
  BY DEF Paths
<1>2. Chain(d) \in Seq(S)
  <2>1. Chain(d) = [i \in 1 .. n |-> up(i)]
    BY DEF Chain
  <2>2. \A i \in 1 .. n : up(i) \in S
    BY <2>1 DEF Up
  <2> HIDE DEF up, S, n
  <2> QED BY <1>1, <2>1, <2>2
<1>3. Given(<<"-c">>) \in Seq(S) /\ Given(<<"-g">>) \in Seq(S)
  <2>1. \A place : Given(place) \in Seq(S)
    <3> TAKE place
    <3>1. CASE place \in S
      <4> HIDE DEF S
      <4> QED BY <3>1 DEF Given
    <3>2. CASE place \notin S
      BY <3>2 DEF Given
    <3> QED BY <3>1, <3>2
  <2> QED BY <2>1
<1> HIDE DEF S
<1>4. Places(d) \in Seq(S)
  BY <1>2, <1>3 DEF Places
<1>5. \A i \in 1 .. Len(Places(d)) : Places(d)[i] \in S
  BY <1>4, ElementsOf
<1>6. DOMAIN Places(d) = 1 .. Len(Places(d)) /\ Len(Places(d)) \in Nat
  BY <1>4
<1> QED BY <1>5, <1>6 DEF S

\* After getconfigs() they are all in memory, and none will be read again.
LEMMA PlacesVisited ==
  ASSUME Clocks, FilesOK, NEW c, Good(c), NEW d \in Paths
  PROVE  LET b == GetConfigs(c, d) IN
           /\ Good(b)
           /\ \A i \in DOMAIN Places(d) :
                /\ Places(d)[i] \in DOMAIN b.cf
                /\ Places(d)[i] \in DOMAIN Fixed \/ ~Due(b, Places(d)[i])
           /\ \A p \in DOMAIN c.cf : p \in DOMAIN Fixed \/ ~Due(c, p) =>
                p \in DOMAIN b.cf /\ b.cf[p] = c.cf[p]
<1> DEFINE b == GetConfigs(c, d)
<1>1. Good(b) /\ Visited(c, b, Up(d))
  BY VisitsAll
<1>2. \A p \in Up(d) : p \notin DOMAIN Fixed
  <2>1. \A i \in 1 .. Len(d) + 1 : Chain(d)[i] \notin DOMAIN Fixed
    BY DEF Chain, Paths
  <2> QED BY <2>1 DEF Up
<1> HIDE DEF b
<1>3. \A p \in Up(d) \cup DOMAIN Fixed : p \in DOMAIN b.cf
  BY <1>1 DEF Visited, Good, Typed
<1>4. \A p \in Up(d) : ~Due(b, p)
  BY <1>1 DEF Visited
<1>5. \A p \in DOMAIN c.cf : p \in DOMAIN Fixed \/ ~Due(c, p) => p \in DOMAIN b.cf /\ b.cf[p] = c.cf[p]
  BY <1>1, <1>2 DEF Visited
<1> QED BY <1>1, <1>3, <1>4, <1>5, PlacesAre DEF b

\* findmatch() returns a pattern of one of the configurations.
LEMMA FindMatchFinds ==
  ASSUME NEW c, Good(c), NEW s, s.dir \in Paths,
         \A i \in DOMAIN Places(s.dir) : Places(s.dir)[i] \in DOMAIN c.cf,
         NEW x, x = FindMatch(c, s), x # <<>>
  PROVE  /\ \E i \in DOMAIN Places(s.dir) : x[1] = Places(s.dir)[i]
         /\ x[2] \in DOMAIN Version(c.cf[x[1]].ver).pats
<1> DEFINE ps == Places(s.dir)
           pats(i) == Version(c.cf[ps[i]].ver).pats
           in(i, t) == {n \in DOMAIN pats(i) : PatternMatches(c, <<ps[i], n>>, s, t)}
           has(t) == {i \in DOMAIN ps : in(i, t) # {}}
           first(t) == <<ps[Min(has(t))], Min(in(Min(has(t)), t))>>
<1>1. \A v \in Ver : DOMAIN Version(v).pats \subseteq Nat
  BY DirplexAssumption DEF Version, EmptyConfig, Ver
<1>2. \A i \in DOMAIN ps : DOMAIN pats(i) \subseteq Nat
  <2>1. \A i \in DOMAIN ps : c.cf[ps[i]] \in ConfigType
    BY DEF Good, Typed
  <2> QED BY <1>1, <2>1 DEF ConfigType
<1>3. \A t : has(t) # {} => Min(has(t)) \in has(t)
  <2> TAKE t
  <2>1. has(t) \in SUBSET Nat
    BY PlacesAre
  <2> HIDE DEF has
  <2> QED BY <2>1, MinIsLeast
<1>4. \A t : has(t) # {} => Min(in(Min(has(t)), t)) \in in(Min(has(t)), t)
  <2> TAKE t
  <2> HAVE has(t) # {}
  <2>1. Min(has(t)) \in DOMAIN ps /\ in(Min(has(t)), t) # {}
    BY <1>3
  <2> DEFINE i == Min(has(t))
  <2>2. in(i, t) \in SUBSET Nat
    BY <1>2, <2>1
  <2> HIDE DEF in, i, has
  <2> QED BY <2>1, <2>2, MinIsLeast DEF i
<1>5. x = IF has(FALSE) # {} THEN first(FALSE) ELSE IF has(TRUE) # {} THEN first(TRUE) ELSE <<>>
  BY DEF FindMatch
<1>6. PICK t \in BOOLEAN : has(t) # {} /\ x = first(t)
  <2> HIDE DEF first, has
  <2> QED BY <1>5
<1>7. Min(has(t)) \in DOMAIN ps
  BY <1>3, <1>6
<1>8. x[1] = ps[Min(has(t))] /\ x[2] \in DOMAIN pats(Min(has(t)))
  <2>1. x[1] = ps[Min(has(t))] /\ x[2] = Min(in(Min(has(t)), t))
    <3> HIDE DEF has, in
    <3> QED BY <1>6
  <2> HIDE DEF has
  <2> QED BY <1>4, <1>6, <2>1
<1> HIDE DEF has
<1> QED BY <1>7, <1>8

\* findchild() returns a declaration in one of the configurations.
LEMMA FindChildFinds ==
  ASSUME NEW c, Good(c), NEW d \in Paths,
         \A i \in DOMAIN Places(d) : Places(d)[i] \in DOMAIN c.cf,
         NEW name, NEW x, x = FindChild(c, d, name), x # <<>>
  PROVE  x[1] \in DOMAIN c.cf /\ x[2] \in DOMAIN c.cf[x[1]].chs
<1> DEFINE ps == Places(d)
           has == {i \in DOMAIN ps : GetChild(c.cf[ps[i]].chs, name) # 0}
<1>1. has # {} /\ x = <<ps[Min(has)], GetChild(c.cf[ps[Min(has)]].chs, name)>>
  BY DEF FindChild
<1>2. Min(has) \in has
  <2>1. has \in SUBSET Nat
    BY PlacesAre
  <2> HIDE DEF has
  <2> QED BY <1>1, <2>1, MinIsLeast
<1>3. ps[Min(has)] \in DOMAIN c.cf /\ GetChild(c.cf[ps[Min(has)]].chs, name) # 0
  BY <1>2
<1>4. c.cf[ps[Min(has)]].chs \in Seq(Decl)
  BY <1>3 DEF Good, Typed, ConfigType
<1> HIDE DEF has
<1> QED BY <1>1, <1>3, <1>4, GetChildFinds

\* What is left in memory is that of the operators above.
LEMMA KeptGood ==
  ASSUME NEW c, Good(c), Keep(c), now' = now, files' = files
  PROVE  Good(Conf)'
<1>1. c.cf = cf' /\ c.kern = kern' /\ c = Conf'
  BY DEF Keep, Good, Typed, Conf
<1>2. Typed(Conf)'
  BY <1>1 DEF Good, Typed, ConfigType
<1>3. Accounted(Conf)'
  BY <1>1 DEF Good, Accounted
<1>4. Checked(Conf)'
  BY <1>1 DEF Good, Checked, File
<1> QED BY <1>2, <1>3, <1>4 DEF Good

\* A configuration whose child was handled gets its new socket.
LEMMA RewiredGood ==
  ASSUME NEW c, Good(c), NEW p \in DOMAIN c.cf, NEW i \in DOMAIN c.cf[p].chs,
         NEW o, Replaces(c.kern, c.cf[p].chs[i].fd, o)
  PROVE  Good([cf |-> [c.cf EXCEPT ![p].chs = Rewired(@, i, o.fd)], kern |-> o.k])
<1> DEFINE chs == c.cf[p].chs
           fd == chs[i].fd
           A == Owned(chs)
           new == Rewired(chs, i, o.fd)
           config == [c.cf[p] EXCEPT !.chs = new]
           b == [cf |-> [c.cf EXCEPT ![p] = config], kern |-> o.k]
<1>1. c.cf[p] \in ConfigType /\ chs \in Seq(Decl) /\ Unshared(chs)
  BY DEF Good, Typed, Accounted, ConfigType
<1>2. A \subseteq Sockets(c.kern) /\ fd \in A \cup {NoFd}
  BY DEF Good, Accounted, Owned
<1>3. NoFd \notin Sockets(c.kern)
  BY NoFdIsNone DEF Sockets
<1>4. /\ o.k \in Kernel /\ o.fd \in Fd \cup {NoFd} /\ o.fd \notin Sockets(c.kern) \ {fd}
      /\ Sockets(o.k) = (Sockets(c.kern) \ {fd}) \cup ({o.fd} \ {NoFd})
  BY DEF Replaces
<1>5. /\ new \in Seq(Decl) /\ Unshared(new) /\ Owned(new) = (A \ {fd}) \cup ({o.fd} \ {NoFd})
  BY <1>1, <1>2, <1>4, OneRewired
<1>6. b = [cf |-> [c.cf EXCEPT ![p].chs = Rewired(@, i, o.fd)], kern |-> o.k]
  OBVIOUS
<1> HIDE DEF fd, A, new
<1>7. /\ config \in ConfigType /\ config.chs = new
      /\ config.ver = c.cf[p].ver /\ config.mtime = c.cf[p].mtime /\ config.lastck = c.cf[p].lastck
  BY <1>1, <1>5 DEF ConfigType
<1> HIDE DEF config
<1>8. /\ DOMAIN b.cf = DOMAIN c.cf /\ b.cf[p] = config /\ \A q \in DOMAIN c.cf \ {p} : b.cf[q] = c.cf[q]
      /\ b.kern = o.k /\ b = [cf |-> b.cf, kern |-> b.kern] /\ b.cf \in [DOMAIN b.cf -> ConfigType]
  BY <1>7 DEF Good, Typed
<1> HIDE DEF b, chs
<1>9. Typed(b)
  BY <1>8 DEF Good, Typed
<1>10. Checked(b)
  BY <1>7, <1>8 DEF Good, Checked
<1>11. Accounted(b)
  <2>1. A = IF p \in DOMAIN c.cf THEN Owned(c.cf[p].chs) ELSE {}
    BY DEF A, chs
  <2>2. Owned(new) \cap (Sockets(c.kern) \ A) = {}
    BY <1>2, <1>3, <1>4, <1>5
  <2>3. Sockets(o.k) = (Sockets(c.kern) \ A) \cup Owned(new)
    BY <1>2, <1>3, <1>4, <1>5
  <2>4. /\ Accounted(c) /\ b.kern \in Kernel /\ DOMAIN b.cf = DOMAIN c.cf \cup {p}
        /\ \A q \in DOMAIN c.cf \ {p} : b.cf[q].chs = c.cf[q].chs
    BY <1>4, <1>8 DEF Good
  <2>5. b.cf[p].chs = new /\ b.kern = o.k
    BY <1>7, <1>8
  <2> QED BY <1>5, <2>1, <2>2, <2>3, <2>4, <2>5, Exchanged
<1> QED BY <1>6, <1>9, <1>10, <1>11 DEF Good

\* A request that is passed on, or cannot be: the sockets stay accounted for,
\* and a configuration that will not be read again is the same afterwards.
LEMMA PassesOn ==
  ASSUME Clocks, FilesOK, Good(Conf), Control, pc \notin {"top", "ended"},
         NEW d \in DOMAIN Node, NEW name, Passes(d, name),
         nreq' = nreq, now' = now, files' = files
  PROVE  /\ Good(Conf)' /\ Control' /\ Held' = {} /\ pc' = "top"
         /\ \A p \in DOMAIN cf : p \in DOMAIN Fixed \/ ~Due(Conf, p) =>
              cf'[p].ver = cf[p].ver /\ cf'[p].mtime = cf[p].mtime
<1> DEFINE c == GetConfigs(Conf, d)
           x == FindChild(c, d, name)
<1>1. d \in Paths /\ Conf.cf = cf
  BY NodesArePaths DEF Conf
<1>2. /\ Good(c)
      /\ \A i \in DOMAIN Places(d) : Places(d)[i] \in DOMAIN c.cf
      /\ \A p \in DOMAIN cf : p \in DOMAIN Fixed \/ ~Due(Conf, p) => p \in DOMAIN c.cf /\ c.cf[p] = cf[p]
  BY <1>1, PlacesVisited
<1>3. CASE x = <<>> /\ Keep(c) /\ Served("answered")
  <2> HIDE DEF c, x
  <2>1. Good(Conf)' /\ cf' = c.cf
    BY <1>2, <1>3, KeptGood DEF Keep
  <2>2. Control' /\ Held' = {} /\ pc' = "top"
    BY <1>3, ServedControl
  <2> QED BY <1>2, <2>1, <2>2
<1>4. ASSUME x # <<>>, NEW o \in StdHandle(c.kern, c.cf[x[1]].chs[x[2]], nreq),
             kern' = o.k, cf' = [c.cf EXCEPT ![x[1]].chs = Rewired(@, x[2], o.fd)],
             Served(IF o.ok THEN "passed" ELSE "answered")
      PROVE  /\ Good(Conf)' /\ Control' /\ Held' = {} /\ pc' = "top"
             /\ \A p \in DOMAIN cf : p \in DOMAIN Fixed \/ ~Due(Conf, p) =>
                  cf'[p].ver = cf[p].ver /\ cf'[p].mtime = cf[p].mtime
  <2>1. x[1] \in DOMAIN c.cf /\ x[2] \in DOMAIN c.cf[x[1]].chs
    <3> HIDE DEF c
    <3> QED BY <1>1, <1>2, <1>4, FindChildFinds
  <2> HIDE DEF c, x
  <2> DEFINE ch == c.cf[x[1]].chs[x[2]]
             b == [cf |-> [c.cf EXCEPT ![x[1]].chs = Rewired(@, x[2], o.fd)], kern |-> o.k]
  <2>2. c.kern \in Kernel /\ ch.fd \in Sockets(c.kern) \cup {NoFd}
    BY <1>2, <2>1 DEF Good, Accounted, Owned
  <2>3. nreq \in Nat
    BY DEF Control, Outcomes
  <2>4. Replaces(c.kern, ch.fd, o)
    BY <1>4, <2>2, <2>3, HandleReplaces
  <2>5. Good(b)
    BY <1>2, <2>1, <2>4, RewiredGood
  <2>6. Keep(b)
    BY <1>4 DEF Keep
  <2>7. Good(Conf)'
    <3> HIDE DEF b
    <3> QED BY <2>5, <2>6, KeptGood
  <2>8. Control' /\ Held' = {} /\ pc' = "top"
    BY <1>4, ServedControl
  <2>9. \A p \in DOMAIN c.cf : cf'[p].ver = c.cf[p].ver /\ cf'[p].mtime = c.cf[p].mtime
    <3>1. c.cf[x[1]] \in ConfigType
      BY <1>2, <2>1 DEF Good, Typed
    <3>2. cf' = [c.cf EXCEPT ![x[1]] = [c.cf[x[1]] EXCEPT !.chs = Rewired(c.cf[x[1]].chs, x[2], o.fd)]]
      BY <1>4
    <3> QED BY <3>1, <3>2 DEF ConfigType
  <2> QED BY <1>2, <2>7, <2>8, <2>9
<1>5. \/ x = <<>> /\ Keep(c) /\ Served("answered")
      \/ /\ x # <<>>
         /\ \E o \in StdHandle(c.kern, c.cf[x[1]].chs[x[2]], nreq) :
              /\ kern' = o.k /\ cf' = [c.cf EXCEPT ![x[1]].chs = Rewired(@, x[2], o.fd)]
              /\ Served(IF o.ok THEN "passed" ELSE "answered")
  BY DEF Passes
<1> HIDE DEF c, x
<1> QED BY <1>3, <1>4, <1>5

-----------------------------------------------------------------------------
(* The steps.                                                              *)

\* The configurations that are held are neither read again nor freed.
Lasts == \A p \in Held : cf'[p].ver = cf[p].ver /\ cf'[p].mtime = cf[p].mtime

\* The program starts with the fixed configurations and no child.
LEMMA InitIInv == Init => IInv
<1> SUFFICES ASSUME Init PROVE IInv
  OBVIOUS
<1>1. Times
  BY DirplexAssumption DEF Init, Times
<1>2. FilesOK
  BY DirplexAssumption DEF Init, FilesOK, Absent, Ver
<1>3. Control
  <2>1. /\ pc = "top" /\ walk = NoWalk /\ frames = <<>> /\ sub = NoSub /\ hand = <<>>
        /\ nreq = 0 /\ outcome = <<>>
    BY DEF Init
  <2>2. NoWalk \in Frame /\ NoWalk.final /\ <<>> \in Seq(Frame) /\ Waiting404(<<>>)
    BY NodesArePaths DEF NoWalk, Frame, Waiting404
  <2>3. NoSub.dir \in DOMAIN Node /\ NoSub.type \in {"file", "directory", "notfound"}
    BY NodesArePaths DEF NoSub
  <2>4. Calls
    BY <2>1, <2>2, <2>3 DEF Calls
  <2>5. Outcomes
    BY <2>1 DEF Outcomes, Over
  <2> QED BY <2>4, <2>5 DEF Control
<1>4. Holds
  BY DEF Init, Holds, Held
<1>5. /\ DOMAIN cf = DOMAIN Fixed /\ now = 0 /\ kern = NewKernel
      /\ \A p \in DOMAIN Fixed : cf[p] = [mtime |-> 0, lastck |-> 0, ver |-> Fixed[p], chs |-> Children(Fixed[p])]
      /\ cf = [p \in DOMAIN cf |-> cf[p]]
  BY DEF Init
<1>6. \A p \in DOMAIN Fixed : Fixed[p] \in Ver
  BY DirplexAssumption DEF Ver
<1>7. \A p \in DOMAIN cf : cf[p].chs \in Seq(Decl) /\ Owned(cf[p].chs) = {} /\ Unshared(cf[p].chs)
  BY <1>5, <1>6, ReadHasNone
<1>8. Typed(Conf)
  <2>1. \A p \in DOMAIN cf : cf[p] \in ConfigType
    BY <1>5, <1>6, <1>7 DEF ConfigType
  <2> QED BY <1>5, <2>1 DEF Typed, Conf
<1>9. Accounted(Conf)
  <2>1. NewKernel \in Kernel /\ Sockets(NewKernel) = {}
    BY NoFdIsNone DEF NewKernel, Kernel, Sockets
  <2> QED BY <1>5, <1>7, <2>1 DEF Accounted, Conf
<1>10. Checked(Conf)
  BY <1>5 DEF Checked, Conf
<1> QED BY <1>1, <1>2, <1>3, <1>4, <1>8, <1>9, <1>10 DEF IInv, Good

\* The clock and the bounds.
LEMMA ClocksTyped == ASSUME Times PROVE Clocks
BY DirplexAssumption DEF Times, Clocks

\* A request comes: the clock is read, nothing is held.
LEMMA RecvStep == ASSUME IInv, Recv PROVE IInv' /\ Lasts
<1>1. PICK r \in Requests : Descends(<<>>, r, TRUE, <<>>)
  BY DEF Recv
<1>2. /\ pc = "top" /\ pc' = "dir" /\ nreq' = nreq + 1 /\ now' = clock
      /\ UNCHANGED <<cf, kern, clock, files, sub, hand, outcome>>
      /\ walk' = [path |-> <<>>, rest |-> r, final |-> TRUE] /\ frames' = <<>>
  BY <1>1 DEF Recv, Descends, tree
<1>3. Times' /\ FilesOK'
  BY <1>2 DEF IInv, Times, FilesOK
<1>4. Calls'
  <2>1. r \in Seq(STRING) /\ r # <<>>
    BY DirplexAssumption
  <2>2. walk' \in Frame /\ walk'.rest # <<>> /\ walk'.final
    BY <1>2, <2>1, NodesArePaths DEF Frame
  <2>3. <<>> \in Seq(Frame) /\ Waiting404(<<>>)
    BY DEF Waiting404
  <2>4. hand = <<>>
    BY <1>2 DEF IInv, Control, Calls
  <2> QED BY <1>2, <2>2, <2>3, <2>4 DEF IInv, Control, Calls, Waiting404
<1>5. Outcomes'
  BY <1>2 DEF IInv, Control, Outcomes, Over
<1>6. Held = {} /\ Held' = {} /\ Holds'
  BY <1>2 DEF Held, Holds
<1>7. Good(Conf)'
  <2>1. now <= now' /\ now \in Nat /\ now' \in Nat
    BY <1>2, <1>3 DEF IInv, Times
  <2>2. 0 .. now \subseteq 0 .. now'
    BY <2>1
  <2>3. Typed(Conf)'
    BY <1>2, <2>2 DEF IInv, Good, Typed, ConfigType, Conf
  <2>4. Accounted(Conf)'
    BY <1>2 DEF IInv, Good, Accounted, Conf
  <2>5. Checked(Conf)'
    BY <1>2 DEF IInv, Good, Checked, Conf, File
  <2> QED BY <2>3, <2>4, <2>5 DEF Good
<1> QED BY <1>3, <1>4, <1>5, <1>6, <1>7 DEF IInv, Control, Lasts

\* What no step but those of the clock and of an editor touches.
LEMMA Still == ASSUME IInv, UNCHANGED <<now, tree>> PROVE Times' /\ FilesOK' /\ Clocks
BY ClocksTyped DEF IInv, Times, FilesOK, tree

\* getconfig() of the directory that checkdir() is called for.
LEMMA OneVisited ==
  ASSUME IInv
  PROVE  LET c == GetConfig(Conf, walk.path) IN
           Good(c) /\ walk.path \in DOMAIN Node /\ walk.path \in DOMAIN c.cf /\ ~Due(c, walk.path)
<1> DEFINE p == walk.path
           c == GetConfig(Conf, p)
<1>1. p \in DOMAIN Node /\ p \notin DOMAIN Fixed
  <2>1. p \in DOMAIN Node
    BY DEF IInv, Control, Calls, Frame
  <2>2. p \in Seq(STRING) /\ \A n \in 0 .. Len(p) : SubSeq(p, 1, n) \notin DOMAIN Fixed
    BY <2>1, DirplexAssumption
  <2>3. SubSeq(p, 1, Len(p)) = p /\ Len(p) \in 0 .. Len(p)
    BY <2>2
  <2> QED BY <2>1, <2>2, <2>3
<1>2. Visited(Conf, Conf, {})
  BY DEF Visited
<1>3. Clocks /\ FilesOK /\ Good(Conf)
  BY ClocksTyped DEF IInv
<1> HIDE DEF p
<1>4. Good(c) /\ Visited(Conf, c, {p})
  <2>1. {} \cup {p} = {p}
    OBVIOUS
  <2> HIDE DEF c
  <2> QED BY <1>1, <1>2, <1>3, <2>1, VisitsOne DEF c
<1> HIDE DEF c
<1>5. p \in DOMAIN c.cf /\ ~Due(c, p)
  BY <1>4 DEF Visited
<1> QED BY <1>1, <1>4, <1>5 DEF p, c

\* The step ends in a state of the invariant if nothing is held any more.
LEMMA Lets ==
  ASSUME IInv, UNCHANGED <<now, tree>>, Good(Conf)', Control', Held' = {}, pc' # "handle", Lasts
  PROVE  IInv' /\ Lasts
BY Still DEF IInv, Holds

\* checkdir(): a captured directory is held, all else is as before.
LEMMA CheckDirStep == ASSUME IInv, CheckDir PROVE IInv' /\ Lasts
<1> DEFINE p == walk.path
           c == GetConfig(Conf, p)
           v == Version(c.cf[p].ver)
           target == IF v.reparse # <<>> /\ Head(v.reparse) = "/" THEN v.reparse ELSE p \o v.reparse
<1>1. pc = "dir" /\ Keep(c) /\ UNCHANGED <<now, tree, nreq>>
  BY DEF CheckDir
<1>2. Good(c) /\ p \in DOMAIN Node /\ p \in DOMAIN c.cf /\ ~Due(c, p)
  BY OneVisited
<1>3. Good(Conf)' /\ Lasts
  <2>1. Held = {}
    BY <1>1 DEF Held
  <2> HIDE DEF c, p
  <2> QED BY <1>1, <1>2, <2>1, KeptGood DEF tree, Lasts
<1>4. /\ walk \in Frame /\ walk.rest \in Seq(STRING) \ {<<>>} /\ frames \in Seq(Frame)
      /\ Waiting404(frames) /\ (walk.final \/ frames # <<>>)
  BY <1>1 DEF IInv, Control, Calls, Frame
<1>5. CASE pc' \in {"capture", "entry", "ended"} /\ UNCHANGED <<serving, outcome>>
  <2>1. Control'
    BY <1>1, <1>5 DEF IInv, Control, Calls, Outcomes, Over, serving
  <2>2. Holds'
    <3> HIDE DEF c
    <3>1. now' = now /\ cf' = c.cf
      BY <1>1 DEF Keep
    <3>2. p \in DOMAIN cf' /\ ~(now' - cf'[p].lastck > CheckAge)
      BY <1>2, <3>1 DEF Due
    <3>3. \A q \in Held' : q = p
      BY <1>5 DEF Held, serving
    <3>4. pc' # "handle"
      BY <1>5
    <3> HIDE DEF p
    <3>5. \A q \in Held' : q \in DOMAIN cf' /\ ~(now' - cf'[q].lastck > CheckAge)
      BY <3>2, <3>3
    <3> QED BY <3>4, <3>5 DEF Holds, Due, Conf
  <2> QED BY <1>1, <1>3, <2>1, <2>2, Still DEF IInv
<1>6. CASE /\ Kind(target) = "dir"
           /\ Descends(target, walk.rest, ~v.comb, IF v.comb THEN Append(frames, walk) ELSE frames)
  <2> DEFINE waiting == IF v.comb THEN Append(frames, walk) ELSE frames
  <2>1. target \in DOMAIN Node
    BY <1>6, NodesArePaths
  <2>2. waiting \in Seq(Frame) /\ Waiting404(waiting) /\ (~v.comb \/ waiting # <<>>)
    <3>1. CASE v.comb
      <4>1. waiting = Append(frames, walk)
        BY <3>1
      <4> HIDE DEF waiting
      <4>2. /\ waiting \in Seq(Frame) /\ Len(waiting) = Len(frames) + 1 /\ Len(frames) \in Nat
            /\ DOMAIN waiting = 1 .. Len(frames) + 1
            /\ waiting[Len(frames) + 1] = walk /\ \A i \in DOMAIN frames : waiting[i] = frames[i]
            /\ DOMAIN frames = 1 .. Len(frames)
        BY <1>4, <4>1
      <4>3. walk.final \/ Len(frames) + 1 > 1
        BY <1>4, <4>2
      <4>4. Waiting404(waiting)
        BY <1>4, <4>2, <4>3 DEF Waiting404
      <4> QED BY <4>2, <4>4
    <3>2. CASE ~v.comb
      BY <1>4, <3>2
    <3> QED BY <3>1, <3>2
  <2>3. (~v.comb) \in BOOLEAN
    OBVIOUS
  <2> HIDE DEF waiting, target, v
  <2>4. Control' /\ Held' = {} /\ pc' = "dir"
    BY <1>1, <1>4, <1>6, <2>1, <2>2, <2>3, DescendsControl DEF IInv, waiting
  <2> QED BY <1>1, <1>3, <2>4, Lets
<1>7. CASE Kind(target) = "file" /\ Handles(Front(target), Last(target), "file")
  <2>1. Front(target) \in DOMAIN Node
    BY <1>7, NodesArePaths
  <2> HIDE DEF target
  <2>2. Control' /\ Held' = {} /\ pc' = "match"
    BY <1>1, <1>7, <2>1, HandlesControl DEF IInv
  <2> QED BY <1>1, <1>3, <2>2, Lets
<1>8. CASE Served("dropped")
  <2>1. Control' /\ Held' = {} /\ pc' = "top"
    BY <1>1, <1>8, ServedControl DEF IInv
  <2> QED BY <1>1, <1>3, <2>1, Lets
<1> QED BY <1>5, <1>6, <1>7, <1>8 DEF CheckDir

\* Nothing was found: NotHere keeps the invariant.
LEMMA NotHereStep ==
  ASSUME IInv, pc = "entry", NotHere, UNCHANGED <<now, tree, nreq>>, Good(Conf)', Lasts
  PROVE  IInv'
<1>1. Control' /\ Held' = {} /\ pc' \in {"match", "entry"}
  BY NotHereControl DEF IInv
<1> QED BY <1>1, Lets

\* So do a file or directory that is found ...
LEMMA HandlesStep ==
  ASSUME IInv, pc \in {"dir", "entry", "match"}, NEW d \in DOMAIN Node, NEW name,
         NEW type \in {"file", "directory", "notfound"},
         Handles(d, name, type), UNCHANGED <<now, tree, nreq>>, Good(Conf)', Lasts
  PROVE  IInv'
<1>1. Control' /\ Held' = {} /\ pc' = "match"
  BY HandlesControl DEF IInv
<1> QED BY <1>1, Lets

\* ... and an outcome.
LEMMA ServedStep ==
  ASSUME IInv, pc \notin {"top", "ended"}, NEW what, Served(what),
         UNCHANGED <<now, tree, nreq>>, Good(Conf)', Lasts
  PROVE  IInv'
<1>1. Control' /\ Held' = {} /\ pc' = "top"
  BY ServedControl DEF IInv
<1> QED BY <1>1, Lets

\* checkpath() looks for the next element, in whatever the directory allows.
LEMMA CheckEntryStep == ASSUME IInv, CheckEntry PROVE IInv' /\ Lasts
<1> DEFINE el == Head(walk.rest)
           rest == Tail(walk.rest)
           there == Kind(Append(walk.path, el)) # "none"
           plain == el \notin {"", "%", "%2f"}
           c == IF el = "" \/ (plain /\ there /\ el \in Dotted) THEN GetConfigs(Conf, walk.path) ELSE Conf
           found == IF Stem[el] = el THEN FindFile(walk.path, el) ELSE {}
           b == Append(walk.path, el)
<1>1. pc = "entry" /\ Keep(c) /\ UNCHANGED <<now, tree, nreq>>
  BY DEF CheckEntry
<1>2. /\ walk.path \in DOMAIN Node /\ walk.rest \in Seq(STRING) /\ walk.rest # <<>>
      /\ frames \in Seq(Frame) /\ Waiting404(frames) /\ (walk.final \/ frames # <<>>)
      /\ walk.final \in BOOLEAN
  BY <1>1 DEF IInv, Control, Calls, Frame
<1>3. rest \in Seq(STRING)
  <2>1. \A s \in Seq(STRING) : s # <<>> => Tail(s) \in Seq(STRING)
    OBVIOUS
  <2> QED BY <1>2, <2>1
<1>4. Clocks /\ FilesOK /\ Good(Conf) /\ walk.path \in Paths
  BY <1>2, ClocksTyped, NodesArePaths DEF IInv
<1>5. Good(c)
  <2>1. Good(GetConfigs(Conf, walk.path))
    BY <1>4, VisitsAll
  <2> QED BY <1>4, <2>1
<1>6. Good(Conf)' /\ Lasts
  <2>1. Held = {}
    BY <1>1 DEF Held
  <2> HIDE DEF c
  <2> QED BY <1>1, <1>5, <2>1, KeptGood DEF tree, Lasts
<1>7. CASE Served("answered")
  BY <1>1, <1>6, <1>7, ServedStep
<1>8. CASE NotHere
  BY <1>1, <1>6, <1>8, NotHereStep
<1>9. ASSUME NEW name, NEW type \in {"file", "directory", "notfound"}, Handles(walk.path, name, type)
      PROVE  IInv' /\ Lasts
  BY <1>1, <1>2, <1>6, <1>9, HandlesStep
<1>10. CASE Kind(b) = "dir" /\ rest # <<>> /\ Descends(b, rest, walk.final, frames)
  <2>1. b \in DOMAIN Node
    BY <1>10, NodesArePaths
  <2> HIDE DEF b, rest
  <2>2. Control' /\ Held' = {} /\ pc' = "dir"
    BY <1>1, <1>2, <1>3, <1>10, <2>1, DescendsControl DEF IInv
  <2> QED BY <1>1, <1>6, <2>2, Lets
<1>11. \/ Served("answered")
       \/ NotHere
       \/ HandleDir(c)
       \/ there /\ Exists(el, rest)
       \/ \E n \in found : Handles(walk.path, n, "file")
  BY DEF CheckEntry
<1>12. HandleDir(c) => \E name : \E type \in {"file", "directory"} : Handles(walk.path, name, type)
  BY DEF HandleDir
<1>13. there /\ Exists(el, rest) =>
          \/ Served("answered")
          \/ Kind(b) = "dir" /\ rest # <<>> /\ Descends(b, rest, walk.final, frames)
          \/ \E name : \E type \in {"file", "notfound"} : Handles(walk.path, name, type)
  <2>1. Kind(b) \in {"dir", "file", "other", "none"}
    BY DirplexAssumption DEF Kind
  <2> QED BY <2>1 DEF Exists
<1> HIDE DEF b, c, rest, found, there
<1> QED BY <1>7, <1>8, <1>9, <1>10, <1>11, <1>12, <1>13

\* findmatch(): the configuration of the pattern is held from now on.
LEMMA MatchStep == ASSUME IInv, Match PROVE IInv' /\ Lasts
<1> DEFINE c == GetConfigs(Conf, sub.dir)
           x == FindMatch(c, sub)
<1>1. pc = "match" /\ Keep(c) /\ UNCHANGED <<now, tree, nreq>>
  BY DEF Match
<1>2. sub.dir \in DOMAIN Node /\ sub.dir \in Paths
  BY NodesArePaths DEF IInv, Control, Calls
<1>3. Clocks /\ FilesOK /\ Good(Conf)
  BY ClocksTyped DEF IInv
<1>4. /\ Good(c)
      /\ \A i \in DOMAIN Places(sub.dir) :
           /\ Places(sub.dir)[i] \in DOMAIN c.cf
           /\ Places(sub.dir)[i] \in DOMAIN Fixed \/ ~Due(c, Places(sub.dir)[i])
  BY <1>2, <1>3, PlacesVisited
<1>5. Good(Conf)' /\ Lasts
  <2>1. Held = {}
    BY <1>1 DEF Held
  <2> HIDE DEF c
  <2> QED BY <1>1, <1>4, <2>1, KeptGood DEF tree, Lasts
<1>6. CASE x # <<>> /\ hand' = x /\ pc' = "handle" /\ UNCHANGED <<walk, frames, sub, outcome>>
  <2> HIDE DEF c
  <2>1. /\ \E i \in DOMAIN Places(sub.dir) : x[1] = Places(sub.dir)[i]
        /\ x[2] \in DOMAIN Version(c.cf[x[1]].ver).pats
    BY <1>2, <1>4, <1>6, FindMatchFinds
  <2> HIDE DEF x
  <2>2. x[1] \in DOMAIN c.cf /\ (x[1] \in DOMAIN Fixed \/ ~Due(c, x[1]))
    BY <1>4, <2>1
  <2>3. cf' = c.cf /\ now' = now
    BY <1>1 DEF Keep
  <2>4. x[1] \in DOMAIN cf' /\ (x[1] \in DOMAIN Fixed \/ ~(now' - cf'[x[1]].lastck > CheckAge))
    BY <2>2, <2>3 DEF Due
  <2>5. Held' = {x[1]}
    BY <1>6 DEF Held
  <2>6. Holds'
    BY <1>6, <2>1, <2>3, <2>4, <2>5 DEF Holds, Due, Conf
  <2>7. Control'
    BY <1>1, <1>6 DEF IInv, Control, Calls, Outcomes, Over
  <2> QED BY <1>1, <1>5, <2>6, <2>7, Still DEF IInv
<1>7. CASE Handles(sub.dir, sub.name, "notfound")
  BY <1>1, <1>2, <1>5, <1>7, HandlesStep
<1>8. CASE Served("answered")
  BY <1>1, <1>5, <1>8, ServedStep
<1>9. CASE pc' = "notfound" /\ UNCHANGED <<serving, outcome>>
  <2>1. Control'
    BY <1>1, <1>9 DEF IInv, Control, Calls, Outcomes, Over, serving
  <2>2. Held' = {}
    BY <1>9 DEF Held
  <2> QED BY <1>1, <1>5, <1>9, <2>1, <2>2, Lets
<1> QED BY <1>6, <1>7, <1>8, <1>9 DEF Match

\* childhandle(): what was held is as it was when the request has its outcome.
LEMMA PassesStep ==
  ASSUME IInv, pc \notin {"top", "ended"}, NEW d \in DOMAIN Node, NEW name, Passes(d, name),
         UNCHANGED <<now, tree, nreq>>
  PROVE  IInv' /\ Lasts
<1>1. Clocks /\ FilesOK /\ Good(Conf) /\ Control /\ Holds /\ UNCHANGED <<nreq, now, files>>
  BY ClocksTyped DEF IInv, tree
<1>2. /\ Good(Conf)' /\ Control' /\ Held' = {} /\ pc' = "top"
      /\ \A p \in DOMAIN cf : p \in DOMAIN Fixed \/ ~Due(Conf, p) =>
           cf'[p].ver = cf[p].ver /\ cf'[p].mtime = cf[p].mtime
  BY <1>1, PassesOn
<1>3. Lasts
  BY <1>1, <1>2 DEF Lasts, Holds
<1> QED BY <1>2, <1>3, Lets

\* handle(), handle404() and the rest of checkdir().
LEMMA HandleStep == ASSUME IInv, Capture \/ Handle \/ NotFound PROVE IInv' /\ Lasts
<1>1. sub.dir \in DOMAIN Node /\ walk.path \in DOMAIN Node
  BY DEF IInv, Control, Calls, Frame
<1>2. CASE Capture
  BY <1>1, <1>2, PassesStep DEF Capture
<1>3. CASE NotFound
  BY <1>1, <1>3, PassesStep DEF NotFound
<1>4. CASE Handle
  <2>1. pc = "handle" /\ UNCHANGED <<now, tree, nreq>>
    BY <1>4 DEF Handle
  <2>2. CASE Passes(sub.dir, Pattern(Conf, hand).handler)
    BY <1>1, <2>1, <2>2, PassesStep
  <2>3. CASE UNCHANGED <<cf, kern>> /\ \E what \in {"passed", "dropped"} : Served(what)
    <3>1. Lasts
      BY <2>3 DEF Lasts
    <3>2. Conf = [cf |-> Conf.cf, kern |-> Conf.kern] /\ Keep(Conf)
      BY <2>3 DEF Conf, Keep
    <3>3. Good(Conf)'
      BY <2>1, <3>2, KeptGood DEF IInv, tree
    <3> QED BY <2>1, <2>3, <3>1, <3>3, ServedStep
  <2> QED BY <1>4, <2>2, <2>3 DEF Handle
<1> QED BY <1>2, <1>3, <1>4

\* Time goes on, and others change the files.
LEMMA OutsideStep ==
  ASSUME IInv, Stop \/ Tick \/ (\E p \in HtDir : Edit(p))
  PROVE  IInv' /\ Lasts
<1>1. UNCHANGED <<cf, kern, now, serving, nreq, outcome>>
  BY DEF Stop, Tick, Edit
<1>2. Lasts /\ Conf' = Conf
  BY <1>1 DEF Lasts, Conf
<1>3. Control' /\ Holds'
  <2>1. CASE Stop
    <3>1. pc' = "ended" /\ pc = "top"
      BY <2>1 DEF Stop
    <3>2. Calls'
      BY <1>1, <3>1 DEF IInv, Control, Calls, serving
    <3>3. Outcomes'
      BY <1>1, <3>1 DEF IInv, Control, Outcomes
    <3> QED BY <3>1, <3>2, <3>3 DEF Control, Holds, Held
  <2>2. CASE pc' = pc
    <3>1. Control'
      BY <1>1, <2>2 DEF IInv, Control, Calls, Outcomes, Over, serving
    <3> QED BY <1>1, <2>2, <3>1 DEF IInv, Holds, Held, Due, Conf, serving
  <2> QED BY <2>1, <2>2 DEF Tick, Edit
<1>4. Times'
  BY DirplexAssumption, <1>1 DEF IInv, Times, Stop, Tick, Edit, tree
<1>5. CASE files' = files
  <2>1. FilesOK'
    BY <1>5 DEF IInv, FilesOK
  <2>2. Conf = [cf |-> Conf.cf, kern |-> Conf.kern] /\ Keep(Conf)
    BY <1>1 DEF Conf, Keep
  <2>3. Good(Conf)'
    BY <1>1, <1>5, <2>2, KeptGood DEF IInv
  <2> QED BY <1>2, <1>3, <1>4, <2>1, <2>3 DEF IInv
<1>6. ASSUME NEW p \in HtDir, Edit(p) PROVE IInv' /\ Lasts
  <2>1. PICK f : /\ files' = [files EXCEPT ![p] = f] /\ f.since = clock
                 /\ f \in [ver : Ver, mtime : Nat, since : Nat]
    <3>1. clock \in Nat
      BY DEF IInv, Times
    <3> DEFINE Entry(f) == /\ files' = [files EXCEPT ![p] = f] /\ f.since = clock
                           /\ f \in [ver : Ver, mtime : Nat, since : Nat]
    <3>2. ASSUME NEW v \in Written, NEW m \in {0, clock},
                 files' = [files EXCEPT ![p] = [ver |-> v, mtime |-> m, since |-> clock]]
          PROVE  Entry([ver |-> v, mtime |-> m, since |-> clock])
      BY <3>1, <3>2 DEF Written, Ver
    <3>3. ASSUME files' = [files EXCEPT ![p] = [Absent EXCEPT !.since = clock]]
          PROVE  Entry([Absent EXCEPT !.since = clock])
      BY <3>1, <3>3 DEF Absent, Ver
    <3> HIDE DEF Entry
    <3>4. \E f : Entry(f)
      BY <1>6, <3>2, <3>3 DEF Edit
    <3> QED BY <3>4 DEF Entry
  <2>2. FilesOK'
    BY <2>1 DEF IInv, FilesOK
  <2>3. /\ \A q : q # p => File(q)' = File(q)
        /\ File(p)'.since = clock
    BY <1>6, <2>1 DEF IInv, FilesOK, File
  <2>4. Checked(Conf)'
    <3>1. \A q \in DOMAIN cf : cf[q].lastck \in 0 .. now
      BY DEF IInv, Good, Typed, ConfigType, Conf
    <3>2. \A q \in DOMAIN cf : clock >= cf[q].lastck
      BY <3>1 DEF IInv, Times
    <3> HIDE DEF File
    <3>3. \A q \in DOMAIN cf \ DOMAIN Fixed :
            \/ File(q)'.ver = cf[q].ver \/ File(q)'.mtime = cf[q].mtime \/ File(q)'.since >= cf[q].lastck
      BY <2>3, <3>2 DEF IInv, Good, Checked, Conf
    <3> QED BY <1>1, <3>3 DEF Checked, Conf
  <2>5. Typed(Conf)'
    BY <1>1 DEF IInv, Good, Typed, ConfigType, Conf
  <2>6. Accounted(Conf)'
    BY <1>1 DEF IInv, Good, Accounted, Conf
  <2> QED BY <1>2, <1>3, <1>4, <2>2, <2>4, <2>5, <2>6 DEF IInv, Good
<1> QED BY <1>5, <1>6 DEF Stop, Tick, tree

\* The children take requests and end.
LEMMA ChildStep ==
  ASSUME IInv, NEW p \in Proc, ChildTakes(p) \/ ChildEnds(p)
  PROVE  IInv' /\ Lasts
<1>1. UNCHANGED <<cf, now, tree, pc, serving, nreq, outcome>>
  BY DEF ChildTakes, ChildEnds
<1>2. kern \in Kernel
  BY DEF IInv, Good, Accounted, Conf
<1>3. kern' \in Kernel /\ kern'.end = kern.end
  BY <1>2, TakesKeeps, EndsKeeps DEF ChildTakes, ChildEnds
<1>4. Control' /\ Holds' /\ Lasts
  BY <1>1 DEF IInv, Control, Calls, Outcomes, Over, serving, Holds, Held, Due, Conf, Lasts
<1>5. Typed(Conf)'
  BY <1>1 DEF IInv, Good, Typed, ConfigType, Conf
<1>6. Checked(Conf)'
  BY <1>1 DEF IInv, Good, Checked, File, Conf, tree
<1>7. Accounted(Conf)'
  <2>1. Sockets(kern') = Sockets(kern)
    BY <1>3 DEF Sockets
  <2> QED BY <1>1, <1>3, <2>1 DEF IInv, Good, Accounted, Conf
<1> QED BY <1>1, <1>4, <1>5, <1>6, <1>7, Still DEF IInv, Good

\* Every step keeps the invariant and the configurations that are held.
LEMMA NextIInv == IInv /\ [Next]_vars => IInv' /\ Lasts
<1> SUFFICES ASSUME IInv, [Next]_vars PROVE IInv' /\ Lasts
  OBVIOUS
<1>1. CASE UNCHANGED vars
  <2>1. UNCHANGED <<cf, kern, now, tree, pc, serving, nreq, outcome>>
    BY <1>1 DEF vars
  <2>2. Conf = [cf |-> Conf.cf, kern |-> Conf.kern] /\ Keep(Conf)
    BY <2>1 DEF Conf, Keep
  <2>3. Good(Conf)'
    BY <2>1, <2>2, KeptGood DEF IInv, tree
  <2>4. Control' /\ Holds' /\ Lasts
    BY <2>1 DEF IInv, Control, Calls, Outcomes, Over, serving, Holds, Held, Due, Conf, Lasts
  <2> QED BY <2>1, <2>3, <2>4, Still DEF IInv
<1> QED
  BY <1>1, RecvStep, CheckDirStep, CheckEntryStep, MatchStep, HandleStep, OutsideStep, ChildStep DEF Next

-----------------------------------------------------------------------------
(* The theorems.                                                           *)

\* The inductive invariant of dirplex: the calls of checkpath(), the
\* configurations in memory with their sockets, and the one that is held.
THEOREM Invariant == Spec => []IInv
BY InitIInv, NextIInv, PTL DEF Spec

\* Every socket to a child belongs to one declaration, whatever getconfig()
\* reads, merges and frees, and whatever children crash.
THEOREM SocketsAlwaysOwned == Spec => []SocketsOwned
<1>1. IInv => SocketsOwned
  <2> SUFFICES ASSUME IInv PROVE SocketsOwned
    OBVIOUS
  <2>1. /\ \A p \in DOMAIN cf : Unshared(cf[p].chs)
        /\ \A p, q \in DOMAIN cf : p # q => Owned(cf[p].chs) \cap Owned(cf[q].chs) = {}
        /\ UNION {Owned(cf[p].chs) : p \in DOMAIN cf} = Sockets(kern)
    BY DEF IInv, Good, Accounted, Conf
  <2>2. \A p \in DOMAIN cf : \A i \in DOMAIN cf[p].chs :
          cf[p].chs[i].fd # NoFd => cf[p].chs[i].fd \in Owned(cf[p].chs)
    BY DEF Owned
  <2> DEFINE has(p) == {i \in DOMAIN cf[p].chs : cf[p].chs[i].fd # NoFd}
  <2>3. \A p, q \in DOMAIN cf : \A i \in has(p), j \in has(q) :
          cf[p].chs[i].fd = cf[q].chs[j].fd => p = q /\ i = j
    BY <2>1, <2>2 DEF Unshared
  <2> QED BY <2>1, <2>3 DEF SocketsOwned, Sockets
<1> QED BY <1>1, Invariant, PTL

\* The type invariant of dirplex.
LEMMA IInvTyped == IInv => TypeOK
<1> SUFFICES ASSUME IInv PROVE TypeOK
  OBVIOUS
<1>1. \A p \in DOMAIN cf : cf[p].ver \in DOMAIN Htrc \cup {"none"} /\ cf[p].lastck <= now /\ cf[p].chs \in Seq(Decl)
  BY DEF IInv, Good, Typed, ConfigType, Conf, Ver, Times
<1>2. DOMAIN Fixed \subseteq DOMAIN cf
  BY DEF IInv, Good, Typed, Conf
<1>3. \A f \in Fd : kern.end[f] \in Proc \cup {Closed, Leaked}
  BY DEF IInv, Good, Accounted, Conf, Kernel
<1>4. hand # <<>> => hand[2] \in DOMAIN Version(cf[hand[1]].ver).pats
  BY DEF IInv, Control, Calls, Holds
<1>5. now <= clock /\ clock \in 0 .. MaxTime
  BY DEF IInv, Times
<1>6. /\ pc \in {"top", "dir", "capture", "entry", "match", "handle", "notfound", "ended"}
      /\ walk.final \/ frames # <<>> \/ pc = "ended"
      /\ sub.type \in {"file", "directory", "notfound"}
  BY DEF IInv, Control, Calls, Outcomes
<1> QED BY <1>1, <1>2, <1>3, <1>4, <1>5, <1>6 DEF TypeOK

\* Each request has one outcome, in whichever of the nested calls of checkpath()
\* it comes, and none of those goes on afterwards.
THEOREM AlwaysOneOutcome == Spec => []OneOutcome
<1>1. IInv => OneOutcome
  BY IInvTyped DEF IInv, Control, Outcomes, Over, OneOutcome
<1> QED BY <1>1, Invariant, PTL

\* What a request is handled by was in its file at the last check, CheckAge ago
\* at most, unless the mtime did not tell.
THEOREM AlwaysFresh == Spec => []Fresh
<1>1. IInv => Fresh
  <2> SUFFICES ASSUME IInv, NEW p \in Held \ DOMAIN Fixed
               PROVE  /\ now - cf[p].lastck <= CheckAge
                      /\ \/ File(p).ver = cf[p].ver
                         \/ File(p).mtime = cf[p].mtime
                         \/ File(p).since >= cf[p].lastck
    BY DEF Fresh
  <2>1. p \in DOMAIN cf /\ ~Due(Conf, p)
    BY DEF IInv, Holds
  <2>2. cf[p].lastck \in 0 .. now /\ now \in Nat /\ CheckAge \in Nat
    BY <2>1, ClocksTyped DEF IInv, Good, Typed, ConfigType, Conf, Clocks
  <2>3. now - cf[p].lastck <= CheckAge
    BY <2>1, <2>2 DEF Due, Conf
  <2> QED BY <2>1, <2>3 DEF IInv, Good, Checked, Conf
<1> QED BY <1>1, Invariant, PTL

\* The configuration of a pattern or a capture that is in use is never freed or
\* read again by the calls of getconfigs() that come between.
THEOREM AlwaysHeldAlive == Spec => HeldAlive
<1>1. IInv /\ [Next]_vars => [Lasts]_vars
  BY NextIInv
<1> QED BY <1>1, Invariant, PTL DEF Spec, HeldAlive, Lasts
=============================================================================
