---------------------------- MODULE PatplexProofs ----------------------------
(***************************************************************************)
(* That patplex gives every request one outcome and keeps account of the   *)
(* sockets of its children, whatever children crash, however often it is   *)
(* reloaded and however many rounds of matching a request goes through.    *)
(***************************************************************************)
EXTENDS Patplex, StdChildProofs

-----------------------------------------------------------------------------
(* findmatch()                                                             *)

\* The patterns of a configuration in memory are those of a file.
Parsed == /\ \E f \in Confs : lconfig.patterns = f.patterns
          /\ gconfig.patterns = Global.patterns

Whole(x, q) == \A i \in DOMAIN Pattern(x).rules : Matches(Pattern(x).rules[i], q)

\* What the loop has found after the patterns D.
Best(a, D, q) ==
  /\ "match" \in DOMAIN a
  /\ IF a.match = None THEN \A x \in D \ disabled : ~Whole(x, q)
     ELSE /\ a.match.pat \in D \ disabled
          /\ Whole(a.match.pat, q)
          /\ \A x \in D \ disabled : Whole(x, q) =>
               /\ Pattern(x).prio <= Pattern(a.match.pat).prio
               /\ Pattern(x).prio = Pattern(a.match.pat).prio /\ x[1] = "l" => a.match.pat[1] = "l"

\* The patterns that are in memory have a priority and a list of rules.
LEMMA PatternsParsed ==
  ASSUME Parsed
  PROVE  /\ lconfig.patterns \in Seq(Range(lconfig.patterns))
         /\ gconfig.patterns \in Seq(Range(gconfig.patterns))
         /\ \A x \in Patterns : /\ Pattern(x).prio \in Int
                                /\ Pattern(x).rules \in Seq(Range(Pattern(x).rules))
<1>1. PICK f \in Confs : lconfig.patterns = f.patterns
  BY DEF Parsed
<1>2. \A x \in Patterns : Pattern(x) \in Range(f.patterns) \cup Range(Global.patterns)
  BY <1>1 DEF Parsed, Patterns, Pattern, Config, Range
<1>3. /\ f.patterns \in Seq(Range(f.patterns)) /\ Global.patterns \in Seq(Range(Global.patterns))
      /\ \A pat \in Range(f.patterns) \cup Range(Global.patterns) :
           pat.prio \in Int /\ pat.rules \in Seq(Range(pat.rules))
  BY PatplexAssumption
<1> QED BY <1>1, <1>2, <1>3 DEF Parsed

\* A turn finds the pattern exactly if it matches as a whole.
LEMMA TriedAll ==
  ASSUME NEW x, NEW q, Pattern(x).rules \in Seq(Range(Pattern(x).rules))
  PROVE  Tried(Pattern(x), q) = Len(Pattern(x).rules) <=> Whole(x, q)
<1> DEFINE rules == Pattern(x).rules
           fails == {i \in DOMAIN rules : ~Matches(rules[i], q)}
<1>1. Tried(Pattern(x), q) = IF fails = {} THEN Len(rules) ELSE Min(fails) - 1
  BY DEF Tried
<1>2. CASE fails = {}
  BY <1>1, <1>2 DEF Whole
<1>3. CASE fails # {}
  <2>1. Min(fails) \in fails
    <3>1. fails \in SUBSET Nat
      OBVIOUS
    <3> HIDE DEF fails
    <3> QED BY <1>3, <3>1, MinIsLeast
  <2>2. Min(fails) \in 1 .. Len(rules)
    BY <2>1
  <2> HIDE DEF fails
  <2>3. Tried(Pattern(x), q) # Len(rules)
    BY <1>1, <1>3, <2>2
  <2>4. ~Whole(x, q)
    BY <2>1 DEF fails, Whole
  <2> QED BY <2>3, <2>4
<1> QED BY <1>2, <1>3

\* A pattern is a pair, and no match is one without a pattern.
LEMMA PatternNotNone == \A x \in Patterns : \A m, r : [pat |-> x, mstr |-> m, rmo |-> r] # None
<1>1. \A x \in Patterns : x # <<>>
  BY DEF Patterns
<1> QED BY <1>1 DEF None

\* One turn of the loop keeps the best of what it has seen: later patterns win
\* only by a higher priority, and those of the given file come first.
LEMMA TryBest ==
  ASSUME Parsed, NEW q, NEW x \in Patterns, NEW D \in SUBSET Patterns,
         x[1] = "l" => \A y \in D : y[1] = "l",
         NEW a, Best(a, D, q)
  PROVE  Best(Try(a, x, q), D \cup {x}, q)
<1> DEFINE prio(y) == Pattern(y).prio
<1>1. \A y \in Patterns : prio(y) \in Int
  BY PatternsParsed
<1>2. Pattern(x).rules \in Seq(Range(Pattern(x).rules))
  BY PatternsParsed
<1>3. Turn(a, x, q).match = IF Whole(x, q)
        THEN [pat |-> x, mstr |-> Turn(a, x, q).mstr,
              rmo |-> \E i \in 1 .. Tried(Pattern(x), q) : Pattern(x).rules[i].type = "point"]
        ELSE a.match
  BY <1>2, TriedAll DEF Turn
<1> HIDE DEF prio
<1>4. CASE Skipped(a, x)
  <2>1. Try(a, x, q) = a
    BY <1>4 DEF Try
  <2>2. x \in disabled \/ (a.match # None /\ prio(x) <= prio(a.match.pat))
    BY <1>4 DEF Skipped, prio
  <2> QED BY <1>1, <2>1, <2>2 DEF Best, prio
<1>5. CASE ~Skipped(a, x)
  <2>1. Try(a, x, q) = Turn(a, x, q)
    BY <1>5 DEF Try
  <2>2. x \notin disabled /\ (a.match # None => ~(prio(x) <= prio(a.match.pat)))
    BY <1>5 DEF Skipped, prio
  <2> DEFINE b == Turn(a, x, q)
  <2>0. "match" \in DOMAIN b
    BY DEF Turn
  <2>3. CASE Whole(x, q)
    <3>1. b.match.pat = x /\ b.match # None /\ "match" \in DOMAIN b
      BY <1>3, <2>3, <2>0, PatternNotNone
    <3> HIDE DEF b
    <3>2. \A y \in D \ disabled : Whole(y, q) => prio(y) < prio(x)
      BY <1>1, <2>2 DEF Best, prio
    <3>3. Best(b, D \cup {x}, q)
      BY <1>1, <2>2, <2>3, <3>1, <3>2 DEF Best, prio
    <3> QED BY <2>1, <3>3 DEF b
  <2>4. CASE ~Whole(x, q)
    <3>1. b.match = a.match /\ "match" \in DOMAIN b
      BY <1>3, <2>4, <2>0
    <3> HIDE DEF b
    <3>2. Best(b, D \cup {x}, q)
      BY <2>4, <3>1 DEF Best
    <3> QED BY <2>1, <3>2 DEF b
  <2> QED BY <2>3, <2>4
<1> QED BY <1>4, <1>5

\* g is what the loop of findmatch() has found after each of n patterns.
Loop(c, q, a, n, g) ==
  g = [i \in 0 .. n |-> IF i = 0 THEN [a EXCEPT !.mstr = None] ELSE Try(g[i - 1], <<c, i>>, q)]

\* The loop comes to an end, as it goes over a finite list.
LEMMA LoopEnds == ASSUME NEW c, NEW q, NEW a, NEW n \in Nat PROVE \E g : Loop(c, q, a, n, g)
<1> DEFINE Bad == {k \in 0 .. n : ~\E g : Loop(c, q, a, k, g)}
<1> SUFFICES ASSUME Bad # {} PROVE FALSE
  OBVIOUS
<1>1. Bad \in SUBSET Nat
  OBVIOUS
<1>2. PICK k \in Bad : \A j \in Bad : k <= j
  <2> HIDE DEF Bad
  <2> QED BY <1>1, MinIsLeast
<1>3. k \in 0 .. n /\ ~\E g : Loop(c, q, a, k, g)
  BY <1>2
<1>4. k # 0
  <2>1. Loop(c, q, a, 0, [i \in 0 .. 0 |-> [a EXCEPT !.mstr = None]])
    BY DEF Loop
  <2> QED BY <1>3, <2>1
<1>5. PICK g : Loop(c, q, a, k - 1, g)
  BY <1>2, <1>3, <1>4
<1> DEFINE f(i) == IF i = 0 THEN [a EXCEPT !.mstr = None] ELSE Try(g[i - 1], <<c, i>>, q)
           h == [i \in 0 .. k |-> f(i)]
<1>6. \A i \in 0 .. k - 1 : g[i] = f(i)
  BY <1>5 DEF Loop
<1>7. \A i \in 0 .. k : i # 0 => h[i - 1] = g[i - 1]
  <2> HIDE DEF f
  <2> QED BY <1>3, <1>6
<1>8. Loop(c, q, a, k, h)
  <2>1. \A i \in 0 .. k : h[i] = IF i = 0 THEN [a EXCEPT !.mstr = None] ELSE Try(h[i - 1], <<c, i>>, q)
    BY <1>7
  <2>2. h = [i \in 0 .. k |-> h[i]]
    OBVIOUS
  <2> HIDE DEF h
  <2> QED BY <2>1, <2>2 DEF Loop
<1> QED BY <1>3, <1>8

\* A call of findmatch() adds the patterns of a configuration to those that the
\* best one is of.
LEMMA FindBest ==
  ASSUME Parsed, NEW q, NEW c \in {"l", "g"}, NEW D \in SUBSET Patterns, c = "l" => D = {},
         NEW a, Best(a, D, q)
  PROVE  Best(FindMatch(c, q, a), D \cup {<<c, i>> : i \in DOMAIN Config(c).patterns}, q)
<1> DEFINE n == Len(Config(c).patterns)
           after == CHOOSE g : Loop(c, q, a, n, g)
           Seen(i) == D \cup {<<c, j>> : j \in 1 .. i}
           Bad == {i \in 0 .. n : ~Best(after[i], Seen(i), q)}
<1>1. n \in Nat /\ DOMAIN Config(c).patterns = 1 .. n
  BY PatternsParsed DEF Config
<1>2. FindMatch(c, q, a) = after[n]
  BY DEF FindMatch, Loop
<1>3. Loop(c, q, a, n, after)
  <2> HIDE DEF n
  <2> QED BY <1>1, LoopEnds
<1> HIDE DEF n, after
<1>4. \A i \in 0 .. n : after[i] = IF i = 0 THEN [a EXCEPT !.mstr = None] ELSE Try(after[i - 1], <<c, i>>, q)
  BY <1>3 DEF Loop
<1>5. Bad = {}
  <2> SUFFICES ASSUME Bad # {} PROVE FALSE
    OBVIOUS
  <2>1. Bad \in SUBSET Nat
    BY <1>1
  <2>2. PICK k \in Bad : \A j \in Bad : k <= j
    <3> HIDE DEF Bad
    <3> QED BY <2>1, MinIsLeast
  <2>3. k \in 0 .. n /\ ~Best(after[k], Seen(k), q)
    BY <2>2
  <2>4. k # 0
    <3>1. after[0] = [a EXCEPT !.mstr = None]
      <4>1. 0 \in 0 .. n
        BY <1>1
      <4> QED BY <1>4, <4>1
    <3>2. Seen(0) = D
      OBVIOUS
    <3> HIDE DEF Seen
    <3>3. /\ "match" \in DOMAIN [a EXCEPT !.mstr = None]
          /\ [a EXCEPT !.mstr = None].match = a.match
      BY DEF Best
    <3>4. Best([a EXCEPT !.mstr = None], D, q)
      BY <3>3 DEF Best
    <3> QED BY <2>3, <3>1, <3>2, <3>4
  <2>5. Best(after[k - 1], Seen(k - 1), q)
    <3>1. k - 1 \in 0 .. n /\ ~(k <= k - 1)
      BY <1>1, <2>3, <2>4
    <3> HIDE DEF Seen
    <3> QED BY <2>2, <3>1
  <2>6. <<c, k>> \in Patterns
    BY <1>1, <2>3, <2>4 DEF Patterns, Config
  <2>7. Seen(k - 1) \in SUBSET Patterns
    BY <1>1, <2>3, <2>4 DEF Patterns, Config
  <2>8. <<c, k>>[1] = "l" => \A y \in Seen(k - 1) : y[1] = "l"
    OBVIOUS
  <2>9. Seen(k) = Seen(k - 1) \cup {<<c, k>>}
    BY <1>1, <2>3, <2>4
  <2>10. after[k] = Try(after[k - 1], <<c, k>>, q)
    BY <1>4, <2>3, <2>4
  <2> HIDE DEF Seen, Bad
  <2>11. Best(Try(after[k - 1], <<c, k>>, q), Seen(k - 1) \cup {<<c, k>>}, q)
    BY <2>5, <2>6, <2>7, <2>8, TryBest
  <2> QED BY <2>3, <2>9, <2>10, <2>11
<1>6. Best(after[n], Seen(n), q)
  <2> HIDE DEF Seen
  <2> QED BY <1>1, <1>5
<1> QED BY <1>1, <1>2, <1>6

\* The two calls of serve() find the best of all patterns that are not disabled.
LEMMA FoundIsBest == ASSUME Parsed, NEW q PROVE Best(Found(q), Patterns, q)
<1> DEFINE a == [match |-> None, mstr |-> None, freed |-> {}, twice |-> FALSE]
           l == {<<"l", i>> : i \in DOMAIN lconfig.patterns}
           g == {<<"g", i>> : i \in DOMAIN gconfig.patterns}
           b == FindMatch("l", q, a)
<1>1. Best(b, l, q)
  <2>1. Best(a, {}, q)
    BY DEF Best
  <2> HIDE DEF a
  <2>2. Best(b, {} \cup {<<"l", i>> : i \in DOMAIN Config("l").patterns}, q)
    BY <2>1, FindBest
  <2>3. {} \cup {<<"l", i>> : i \in DOMAIN Config("l").patterns} = l
    BY DEF Config
  <2> QED BY <2>2, <2>3
<1>2. Best(Found(q), l \cup g, q)
  <2>1. l \in SUBSET Patterns
    BY DEF Patterns
  <2> HIDE DEF b, l
  <2>2. Best(FindMatch("g", q, b), l \cup {<<"g", i>> : i \in DOMAIN Config("g").patterns}, q)
    BY <1>1, <2>1, FindBest
  <2>3. {<<"g", i>> : i \in DOMAIN Config("g").patterns} = g
    BY DEF Config
  <2> QED BY <2>2, <2>3 DEF Found, b
<1> QED BY <1>2 DEF Patterns

-----------------------------------------------------------------------------
(* The invariant.                                                          *)

\* The request that is being served is the last one that came.
Serving == /\ nreq \in 0 .. MaxReq
           /\ reload \in BOOLEAN
           /\ pc \in {"top", "clear", "recv", "match", "exec", "ended"}
           /\ req.id \in {0, nreq}
           /\ pc \in {"match", "exec"} => req.id = nreq /\ nreq > 0
           /\ pc \in {"top", "clear", "recv"} => req.id = 0

\* A pattern is disabled exactly while a call of serve() is under way that has
\* found it, and all of these patterns are in memory.
Nested == /\ stack \in Seq(Range(stack))
          /\ \A i \in DOMAIN stack : stack[i].pat \in Patterns
          /\ disabled = Reparsing
          /\ match.pat \in Patterns \cup {<<>>}
          /\ pc \in {"top", "clear", "recv"} => match = None /\ stack = <<>>

\* The match that is executed is the best for the request.
Chosen == pc = "exec" => match # None /\ Best([match |-> match], Patterns, req)

Sound == /\ Accounts(kern, lconfig.children, gconfig.children)
         /\ Waiting(kern, Ids)

IInv == Serving /\ OneAnswer /\ Sound /\ Parsed /\ Nested /\ Chosen

-----------------------------------------------------------------------------
\* A configuration that was just read has no socket.
LEMMA ReadHasNone ==
  ASSUME NEW f \in Confs \cup {Global}
  PROVE  Read(f).children \in Seq(Decl) /\ Owned(Read(f).children) = {}
<1> DEFINE chs == Read(f).children
           new(i) == [name |-> f.children[i].name, type |-> f.children[i].type, fd |-> NoFd]
<1>1. f.children \in Seq([name : STRING, type : {"child", "fchild"}])
  BY PatplexAssumption
<1>2. chs = [i \in 1 .. Len(f.children) |-> new(i)]
  BY <1>1 DEF Read
<1>3. \A i \in 1 .. Len(f.children) : new(i) \in Decl /\ new(i).fd = NoFd
  <2>1. \A i \in 1 .. Len(f.children) : f.children[i] \in [name : STRING, type : {"child", "fchild"}]
    BY <1>1, ElementsOf
  <2> QED BY <2>1 DEF Decl
<1> HIDE DEF chs, new
<1>4. chs \in Seq(Decl)
  BY <1>1, <1>2, <1>3
<1> QED BY <1>2, <1>3, <1>4 DEF Owned, chs

\* The program starts with the accounts right: no child has a socket.
LEMMA InitIInv == Init /\ file \in Confs => IInv
<1> SUFFICES ASSUME Init PROVE IInv
  OBVIOUS
<1>0. MaxReq \in Nat
  BY PatplexAssumption
<1>1. Serving /\ OneAnswer
  <2>1. req.id = 0
    BY DEF Init, NoReq
  <2>2. nreq = 0 /\ pc = "top"
    BY DEF Init
  <2>3. reload \in BOOLEAN
    BY Zenon DEF Init
  <2>4. Serving
    BY <1>0, <2>1, <2>2, <2>3 DEF Serving
  <2> QED BY <2>1, <2>4 DEF Init, OneAnswer
<1>2. kern \in Kernel /\ Sockets(kern) = {} /\ Waiting(kern, Ids)
  BY NoFdIsNone DEF Init, NewKernel, Kernel, Sockets, Waiting
<1>3. /\ lconfig.children \in Seq(Decl) /\ Owned(lconfig.children) = {}
      /\ gconfig.children \in Seq(Decl) /\ Owned(gconfig.children) = {}
  BY ReadHasNone DEF Init
<1>4. Unshared(lconfig.children) /\ Unshared(gconfig.children)
  BY <1>3 DEF Owned, Unshared
<1>5. Parsed /\ Nested /\ Chosen
  <2>1. Parsed
    BY DEF Init, Parsed, Read
  <2>2. Reparsing = {} /\ stack \in Seq(Range(stack))
    BY DEF Init, Reparsing
  <2> QED BY <2>1, <2>2 DEF Init, Nested, Chosen, None
<1>6. Sound
  BY <1>2, <1>3, <1>4 DEF Sound, Accounts
<1> QED BY <1>1, <1>5, <1>6 DEF IInv

-----------------------------------------------------------------------------
\* reloadconf() keeps account of the sockets.
LEMMA ReloadAccounts ==
  ASSUME file \in Confs, Accounts(kern, lconfig.children, gconfig.children), Reload
  PROVE  Accounts(kern', lconfig'.children, gconfig'.children)
<1> DEFINE new == Read(file)
           old == lconfig.children
           m == MergeChildren(new.children, old)
<1>1. gconfig' = gconfig
  BY DEF Reload
<1>2. CASE UNCHANGED <<lconfig, kern>>
  BY <1>1, <1>2
<1>3. CASE lconfig' = [children |-> m.new, patterns |-> new.patterns] /\ kern' = FreeChildren(kern, m.old)
  <2>1. new.children \in Seq(Decl)
    BY ReadHasNone
  <2>2. m.new \in Seq(Decl) /\ Unshared(m.new) /\ Owned(m.new) = Owned(old) \ Owned(m.old)
    BY <2>1, MergeHandsOver DEF Accounts
  <2>3. Owned(m.old) \subseteq Owned(old)
    BY <2>1, MergeHandsOver DEF Accounts
  <2>4. kern' \in Kernel /\ Sockets(kern') = Sockets(kern) \ Owned(m.old)
    BY <1>3, FreeCloses DEF Accounts
  <2>5. lconfig'.children = m.new
    BY <1>3
  <2> HIDE DEF m, old
  <2> QED BY <1>1, <2>2, <2>3, <2>4, <2>5 DEF Accounts, old
<1> QED BY <1>2, <1>3 DEF Reload

\* childhandle() keeps account of them.
LEMMA HandleAccounts ==
  ASSUME Accounts(kern, lconfig.children, gconfig.children), req.id \in Nat, Handle
  PROVE  Accounts(kern', lconfig'.children, gconfig'.children)
<1> DEFINE name == Pattern(match.pat).handler
           x == Handler(name)
           l == lconfig.children
           g == gconfig.children
<1>1. CASE UNCHANGED <<kern, gconfig, lconfig>>
  BY <1>1
<1>2. ASSUME x[2] # 0, NEW o \in StdHandle(kern, Child(x), req.id), kern' = o.k, SetFd(x, o.fd)
      PROVE  Accounts(kern', lconfig'.children, gconfig'.children)
  <2>1. \/ x[1] = "l" /\ x[2] \in DOMAIN l /\ Child(x) = l[x[2]]
        \/ x[1] = "g" /\ x[2] \in DOMAIN g /\ Child(x) = g[x[2]]
    BY <1>2, GetChildFinds DEF Handler, Child, Config, Accounts
  <2> DEFINE i == x[2]
             ch == Child(x)
  <2>2. ch.fd \in Sockets(kern) \cup {NoFd}
    BY <2>1 DEF Accounts, Owned
  <2>3. Replaces(kern, ch.fd, o)
    BY <1>2, <2>2, HandleReplaces DEF Accounts
  <2>4. CASE x[1] = "l" /\ i \in DOMAIN l /\ ch = l[i]
    <3>1. lconfig'.children = Rewired(l, i, o.fd) /\ gconfig'.children = g
      BY <1>2, <2>4 DEF SetFd, WithChild
    <3> QED BY <1>2, <2>3, <2>4, <3>1, RewiredAccounts
  <2>5. CASE x[1] = "g" /\ i \in DOMAIN g /\ ch = g[i]
    <3>1. gconfig'.children = Rewired(g, i, o.fd) /\ lconfig'.children = l
      BY <1>2, <2>5 DEF SetFd, WithChild
    <3>2. Accounts(kern, g, l)
      BY DEF Accounts
    <3>3. Accounts(o.k, Rewired(g, i, o.fd), l)
      BY <2>3, <2>5, <3>2, RewiredAccounts
    <3> QED BY <1>2, <3>1, <3>3 DEF Accounts
  <2> QED BY <2>1, <2>4, <2>5
<1> QED BY <1>1, <1>2 DEF Handle

\* The children run on their own: no socket of the program changes.
LEMMA ChildAccounts ==
  ASSUME Accounts(kern, lconfig.children, gconfig.children), NEW p \in Proc,
         ChildTakes(p) \/ ChildEnds(p)
  PROVE  Accounts(kern', lconfig'.children, gconfig'.children)
<1>1. kern' \in Kernel /\ kern'.end = kern.end
  <2>1. CASE ChildTakes(p)
    BY <2>1, TakesKeeps DEF ChildTakes, Accounts
  <2>2. CASE ChildEnds(p)
    BY <2>2, EndsKeeps DEF ChildEnds, Accounts
  <2> QED BY <2>1, <2>2
<1>2. UNCHANGED <<lconfig, gconfig>>
  BY DEF ChildTakes, ChildEnds, conf
<1> QED BY <1>1, <1>2 DEF Accounts, Sockets

\* What waits for the processes are requests that have come.
LEMMA KernelWaits ==
  ASSUME Sound
  PROVE  /\ Reload => Waiting(kern', Ids)
         /\ Handle /\ req.id \in Ids => Waiting(kern', Ids)
         /\ \A p \in Proc : ChildTakes(p) \/ ChildEnds(p) => Waiting(kern', Ids)
<1>1. kern \in Kernel /\ Waiting(kern, Ids)
  BY DEF Sound, Accounts
<1>2. ASSUME Reload PROVE Waiting(kern', Ids)
  <2>1. \A chs : FreeChildren(kern, chs).up = kern.up
                 /\ FreeChildren(kern, chs).started = kern.started
                 /\ FreeChildren(kern, chs).queue = kern.queue
    BY <1>1 DEF FreeChildren, Kernel
  <2>2. kern' = kern \/ \E chs : kern' = FreeChildren(kern, chs)
    BY <1>2 DEF Reload
  <2> QED BY <1>1, <2>1, <2>2 DEF Waiting
<1>3. ASSUME Handle, req.id \in Ids PROVE Waiting(kern', Ids)
  <2> DEFINE x == Handler(Pattern(match.pat).handler)
  <2>1. CASE kern' = kern
    BY <1>1, <2>1
  <2>2. ASSUME x[2] # 0, NEW o \in StdHandle(kern, Child(x), req.id), kern' = o.k
        PROVE  Waiting(kern', Ids)
    <3>1. \/ x[2] \in DOMAIN lconfig.children /\ Child(x) = lconfig.children[x[2]]
          \/ x[2] \in DOMAIN gconfig.children /\ Child(x) = gconfig.children[x[2]]
      BY <2>2, GetChildFinds DEF Handler, Child, Config, Accounts, Sound
    <3>2. Child(x).fd \in Sockets(kern) \cup {NoFd}
      BY <3>1 DEF Accounts, Owned, Sound
    <3> HIDE DEF x
    <3> QED BY <1>1, <1>3, <2>2, <3>2, HandleWaits
  <2> QED BY <1>3, <2>1, <2>2 DEF Handle
<1>4. ASSUME NEW p \in Proc, ChildTakes(p) \/ ChildEnds(p) PROVE Waiting(kern', Ids)
  BY <1>1, <1>4, ProcessWaits DEF ChildTakes, ChildEnds
<1> QED BY <1>2, <1>3, <1>4

-----------------------------------------------------------------------------
(* The steps.                                                              *)

\* As long as no file is read again the patterns stay as they are.
LEMMA Steady ==
  ASSUME lconfig'.patterns = lconfig.patterns, gconfig'.patterns = gconfig.patterns
  PROVE  /\ Patterns' = Patterns
         /\ Parsed => Parsed'
         /\ \A x \in Patterns : Pattern(x)' = Pattern(x)
BY DEF Patterns, Parsed, Pattern, Config

\* The end of serve() enables the patterns again that it has disabled.
LEMMA FinishNests ==
  ASSUME Nested, Finish, pc' \in {"top", "ended"}
  PROVE  Nested' /\ Chosen'
<1>1. Reparsing' = {} /\ stack' \in Seq(Range(stack'))
  BY DEF Finish, Reparsing
<1> QED BY <1>1 DEF Finish, Nested, Chosen, None

\* A reparse disables the pattern that it is for.
LEMMA ReparseNests ==
  ASSUME Nested, Chosen, Reparse
  PROVE  Nested' /\ Chosen'
<1>1. Patterns' = Patterns
  BY Steady DEF Reparse, conf
<1>2. match.pat \in Patterns
  BY DEF Chosen, Best, Reparse
<1>3. stack \in Seq(Range(stack) \cup {match})
  BY DEF Nested
<1>4. stack' = Append(stack, match)
  BY DEF Reparse
<1>5. /\ DOMAIN stack' = 1 .. Len(stack) + 1
      /\ \A i \in 1 .. Len(stack) : stack'[i] = stack[i]
      /\ stack'[Len(stack) + 1] = match
  BY <1>3, <1>4
<1>6. stack' \in Seq(Range(stack'))
  <2>1. stack' \in Seq(Range(stack) \cup {match})
    BY <1>3, <1>4
  <2>2. stack' = [i \in 1 .. Len(stack') |-> stack'[i]] /\ Len(stack') \in Nat
    BY <2>1
  <2>3. \A i \in 1 .. Len(stack') : stack'[i] \in Range(stack')
    BY <2>1 DEF Range
  <2> QED BY <2>2, <2>3
<1>7. \A i \in DOMAIN stack' : stack'[i].pat \in Patterns'
  BY <1>1, <1>2, <1>3, <1>5 DEF Nested
<1>8. disabled' = Reparsing'
  <2>1. disabled = {stack[i].pat : i \in 1 .. Len(stack)}
    BY <1>3 DEF Nested, Reparsing
  <2>2. {stack'[i].pat : i \in 1 .. Len(stack) + 1} = {stack[i].pat : i \in 1 .. Len(stack)} \cup {match.pat}
    BY <1>3, <1>5
  <2> QED BY <1>5, <2>1, <2>2 DEF Reparsing, Reparse
<1>9. match' = None /\ pc' = "match"
  BY DEF Reparse
<1> QED BY <1>6, <1>7, <1>8, <1>9 DEF Nested, Chosen, None

\* findmatch() chooses the best pattern.
LEMMA MatchChooses ==
  ASSUME Parsed, Nested, Match
  PROVE  Parsed' /\ Nested' /\ Chosen'
<1> DEFINE a == Found(req)
<1>1. /\ Patterns' = Patterns /\ Parsed'
      /\ \A x \in Patterns : Pattern(x)' = Pattern(x)
  BY Steady DEF Match, conf
<1>2. CASE /\ a.match # None
           /\ \E b : match' = [pat |-> a.match.pat, mstr |-> a.match.mstr, rmo |-> a.match.rmo, alive |-> b]
           /\ pc' = "exec"
           /\ UNCHANGED <<req, disabled, stack>>
  <2>1. Best(a, Patterns, req)
    BY FoundIsBest
  <2> HIDE DEF a
  <2>2. match'.pat = a.match.pat
    BY <1>2
  <2>3. match'.pat \in Patterns
    BY <1>2, <2>1, <2>2 DEF Best
  <2>4. match' # None
    <3>1. \A x \in Patterns : x # <<>>
      BY DEF Patterns
    <3> QED BY <2>3, <3>1 DEF None
  <2>5. /\ match'.pat \in Patterns \ disabled
        /\ Whole(match'.pat, req)
        /\ \A x \in Patterns \ disabled : Whole(x, req) =>
             /\ Pattern(x).prio <= Pattern(match'.pat).prio
             /\ Pattern(x).prio = Pattern(match'.pat).prio /\ x[1] = "l" => match'.pat[1] = "l"
    BY <1>2, <2>1, <2>2 DEF Best
  <2>6. \A x \in Patterns : Whole(x, req)' <=> Whole(x, req)
    BY <1>1, <1>2 DEF Whole
  <2>7. Best([match |-> match], Patterns, req)'
    BY <1>1, <1>2, <2>4, <2>5, <2>6 DEF Best
  <2>8. Reparsing' = Reparsing
    BY <1>2 DEF Reparsing
  <2>9. Nested'
    BY <1>1, <1>2, <2>3, <2>8 DEF Nested
  <2> QED BY <1>1, <2>4, <2>7, <2>9 DEF Chosen
<1>3. CASE Finish
  <2>1. pc' \in {"top", "ended"}
    BY <1>3 DEF Finish, FreeMatches
  <2> QED BY <1>1, <1>3, <2>1, FinishNests
<1>4. CASE pc' = "ended" /\ UNCHANGED serving
  <2>1. Reparsing' = Reparsing
    BY <1>4 DEF Reparsing, serving
  <2> QED BY <1>1, <1>4, <2>1 DEF Nested, Chosen, serving
<1> QED BY <1>2, <1>3, <1>4 DEF Match

\* What goes on elsewhere changes nothing of it.
LEMMA ElsewhereNests ==
  ASSUME Parsed, Nested, Chosen,
         lconfig'.patterns = lconfig.patterns, gconfig'.patterns = gconfig.patterns,
         UNCHANGED <<match, disabled, stack>>,
         pc' = "exec" => pc = "exec" /\ req' = req,
         pc \in {"top", "clear", "recv"} \/ pc' \notin {"top", "clear", "recv"}
  PROVE  Parsed' /\ Nested' /\ Chosen'
<1>1. /\ Patterns' = Patterns /\ Parsed'
      /\ \A x \in Patterns : Pattern(x)' = Pattern(x)
  BY Steady
<1>2. Reparsing' = Reparsing
  BY DEF Reparsing
<1>3. Nested'
  BY <1>1, <1>2 DEF Nested
<1>4. ASSUME pc' = "exec" PROVE match' # None /\ Best([match |-> match], Patterns, req)'
  <2>1. match # None /\ Best([match |-> match], Patterns, req) /\ req' = req
    BY <1>4 DEF Chosen
  <2>2. \A x \in Patterns : Whole(x, req)' <=> Whole(x, req)
    BY <1>1, <2>1 DEF Whole
  <2> QED BY <1>1, <2>1, <2>2 DEF Best
<1> QED BY <1>1, <1>3, <1>4 DEF Chosen

\* A file that is read again is read while nothing is served.
LEMMA ReloadNests ==
  ASSUME file \in Confs, Parsed, Nested, Reload
  PROVE  Parsed' /\ Nested' /\ Chosen'
<1>1. pc' = "clear" /\ match' = None /\ stack' = <<>> /\ disabled' = disabled /\ match.pat = <<>>
  BY DEF Reload, Nested, serving, None
<1>2. Parsed'
  BY DEF Reload, Parsed, Read
<1>3. Reparsing = {} /\ Reparsing' = {}
  BY <1>1 DEF Reparsing, Nested, Reload
<1> QED BY <1>1, <1>2, <1>3 DEF Nested, Chosen, None

\* A step of the program or of its surroundings keeps the invariant.
LEMMA Inductive == IInv /\ file \in Confs /\ [Next]_vars => IInv' /\ (file \in Confs)'
<1> SUFFICES ASSUME IInv, file \in Confs, [Next]_vars PROVE IInv' /\ (file \in Confs)'
  OBVIOUS
<1> DEFINE Matching == Parsed /\ Nested /\ Chosen
           Same == UNCHANGED <<kern, lconfig, gconfig>>
<1> USE DEF IInv
<1>0. /\ Same => Sound'
      /\ IInv /\ UNCHANGED <<lconfig, gconfig, serving, pc>> => Matching'
  <2>1. Same => Sound'
    BY DEF Sound, Accounts
  <2>2. UNCHANGED <<lconfig, gconfig, serving, pc>> => Matching'
    BY ElsewhereNests DEF serving
  <2> QED BY <2>1, <2>2
<1>1. CASE Recv
  <2>0. MaxReq \in Nat
    BY PatplexAssumption
  <2>1. (Serving /\ OneAnswer)' /\ file' = file
    BY <1>1, <2>0 DEF Recv, conf, Serving, OneAnswer
  <2>2. Matching'
    BY <1>1, ElsewhereNests DEF Recv, conf
  <2> QED BY <1>0, <1>1, <2>1, <2>2 DEF Recv, conf
<1>2. CASE Match
  <2>1. (Serving /\ OneAnswer)' /\ file' = file
    BY <1>2 DEF Match, Finish, FreeMatches, NoReq, serving, conf, Serving, OneAnswer
  <2>2. Matching'
    BY <1>2, MatchChooses
  <2> QED BY <1>0, <1>2, <2>1, <2>2 DEF Match, conf
<1>3. CASE Handle
  <2> DEFINE x == Handler(Pattern(match.pat).handler)
             Passed == passed' = passed \cup {req.id} /\ answered' = answered
             Answered == passed' = passed /\ answered' = answered \cup {req.id}
  <2>1. pc = "exec" /\ req' = NoReq /\ nreq' = nreq /\ file' = file /\ reload' = reload
        /\ pc' \in {"top", "ended"} /\ Finish
    BY <1>3 DEF Handle, Finish, FreeMatches
  <2>2. Passed \/ Answered
    <3>1. ASSUME NEW o \in StdHandle(kern, Child(x), req.id),
                 passed' = IF o.sent THEN passed \cup {req.id} ELSE passed,
                 answered' = IF o.ok THEN answered ELSE answered \cup {req.id}
          PROVE  Passed \/ Answered
      BY <3>1, HandleTells
    <3> QED BY <3>1, <1>3 DEF Handle
  <2>3. (Serving /\ OneAnswer)'
    BY <2>1, <2>2 DEF NoReq, Serving, OneAnswer
  <2>4. Sound'
    <3>1. req.id \in Ids /\ req.id \in Nat
      BY <2>1, PatplexAssumption DEF Serving, Ids
    <3> QED BY <1>3, <3>1, HandleAccounts, KernelWaits DEF Sound, Ids
  <2>5. lconfig'.patterns = lconfig.patterns /\ gconfig'.patterns = gconfig.patterns
    BY <1>3 DEF Handle, SetFd, WithChild
  <2>6. Matching'
    BY <2>1, <2>5, FinishNests, Steady
  <2> QED BY <2>1, <2>3, <2>4, <2>6
<1>4. CASE Reparse
  <2>1. PICK str \in Strings(match) : req' = Executed(req, match, str)
    BY <1>4 DEF Reparse
  <2>2. req'.id = req.id
    BY <2>1 DEF Executed
  <2>3. (Serving /\ OneAnswer)' /\ file' = file /\ Same
    BY <1>4, <2>2 DEF Reparse, hist, conf, Serving, OneAnswer
  <2>4. Matching'
    BY <1>4, <2>3, ReparseNests, Steady
  <2> QED BY <1>0, <2>3, <2>4
<1>5. CASE Reload
  <2>1. (Serving /\ OneAnswer)' /\ file' = file
    BY <1>5 DEF Reload, serving, hist, Serving, OneAnswer
  <2>2. Sound'
    BY <1>5, ReloadAccounts, KernelWaits DEF Sound, Ids
  <2>3. Matching'
    BY <1>5, ReloadNests
  <2> QED BY <2>1, <2>2, <2>3
<1>6. CASE Clear \/ Stop \/ Hup \/ Edit
  <2>1. (Serving /\ OneAnswer)' /\ (file \in Confs)' /\ Same
    BY <1>6 DEF Clear, Stop, Hup, Edit, serving, hist, conf, Serving, OneAnswer
  <2>2. Matching'
    BY <1>6, <2>1, ElsewhereNests DEF Clear, Stop, Hup, Edit, serving
  <2> QED BY <1>0, <2>1, <2>2
<1>7. ASSUME NEW p \in Proc, ChildTakes(p) \/ ChildEnds(p)
      PROVE  IInv' /\ (file \in Confs)'
  <2>1. (Serving /\ OneAnswer)' /\ file' = file /\ UNCHANGED <<lconfig, gconfig, serving, pc>>
    BY <1>7 DEF ChildTakes, ChildEnds, serving, hist, conf, Serving, OneAnswer
  <2>2. Sound'
    BY <1>7, ChildAccounts, KernelWaits DEF Sound, Ids
  <2> QED BY <1>0, <2>1, <2>2
<1>8. CASE UNCHANGED vars
  <2>1. (Serving /\ OneAnswer)' /\ file' = file
    BY <1>8 DEF vars, serving, hist, conf, Serving, OneAnswer
  <2> QED BY <1>0, <1>8, <2>1 DEF vars, conf
<1> QED BY <1>1, <1>2, <1>3, <1>4, <1>5, <1>6, <1>7, <1>8 DEF Next

\* The program never leaves the invariant.
LEMMA Invariant == Spec => [](IInv /\ file \in Confs)
<1>1. Init => IInv /\ file \in Confs
  BY InitIInv DEF Init
<1> QED BY <1>1, Inductive, PTL DEF Spec

\* Every request that patplex has served was passed to one child or answered
\* with an error (serve(), stdhandle()): for any configurations, any number of
\* children that crash, and any bound on the requests.
THEOREM EachAnsweredOnce == Spec => []OneAnswer
<1>1. IInv => OneAnswer
  BY DEF IInv
<1> QED BY Invariant, <1>1, PTL

\* No socket of a child is lost, shared or used after it was closed, through
\* crashes, restarts and reloads (stdhandle(), mergechildren(), freeconfig()).
THEOREM SocketsAccounted == Spec => []SocketsOwned
<1>1. IInv => SocketsOwned
  <2> SUFFICES ASSUME IInv, NEW x \in Children, NEW y \in Children,
                      Child(x).fd = Child(y).fd, Child(x).fd # NoFd
               PROVE  x = y
    BY DEF IInv, Sound, Accounts, Sockets, SocketsOwned
  <2> DEFINE In(z, c, chs) == z[1] = c /\ z = <<c, z[2]>> /\ z[2] \in DOMAIN chs /\ Child(z) = chs[z[2]]
  <2>1. \A z \in Children : In(z, "l", lconfig.children) \/ In(z, "g", gconfig.children)
    BY DEF Children, Child, Config
  <2>2. In(x, "l", lconfig.children) /\ In(y, "l", lconfig.children) => x = y
    BY DEF IInv, Sound, Accounts, Unshared
  <2>3. In(x, "g", gconfig.children) /\ In(y, "g", gconfig.children) => x = y
    BY DEF IInv, Sound, Accounts, Unshared
  <2>4. ~(\E z, w \in {x, y} : In(z, "l", lconfig.children) /\ In(w, "g", gconfig.children))
    BY DEF IInv, Sound, Accounts, Owned
  <2> QED BY <2>1, <2>2, <2>3, <2>4
<1> QED BY Invariant, <1>1, PTL

\* The pattern that serve() uses matches as a whole, and is the best of those
\* that do: by its priority, and among equals by its file.  Only the patterns of
\* the calls of serve() that are not over are left out.
THEOREM AlwaysBest == Spec => []BestMatch
<1>1. IInv /\ file \in Confs => BestMatch
  <2> SUFFICES ASSUME IInv, file \in Confs PROVE BestMatch
    OBVIOUS
  <2>1. kern \in Kernel /\ Waiting(kern, Ids)
    BY DEF IInv, Sound, Accounts
  <2>2. lconfig.children \in Seq(Decl) /\ gconfig.children \in Seq(Decl)
    BY DEF IInv, Sound, Accounts
  <2>3. reload \in BOOLEAN /\ pc \in {"top", "clear", "recv", "match", "exec", "ended"} /\ req.id \in 0 .. MaxReq
    <3>1. MaxReq \in Nat
      BY PatplexAssumption
    <3> QED BY <3>1 DEF IInv, Serving
  <2>4. /\ match.pat \in Patterns \cup {<<>>}
        /\ disabled \subseteq Patterns
        /\ \A i \in DOMAIN stack : stack[i].pat \in Patterns
    BY DEF IInv, Nested, Reparsing
  <2>5. passed \subseteq Ids /\ answered \subseteq Ids
    <3>1. MaxReq \in Nat
      BY PatplexAssumption
    <3> QED BY <3>1 DEF IInv, Serving, OneAnswer, Ids
  <2>6. TypeOK
    BY <2>1, <2>2, <2>3, <2>4, <2>5 DEF TypeOK, Waiting, Kernel
  <2>a. disabled = {stack[i].pat : i \in DOMAIN stack}
    BY DEF IInv, Nested, Reparsing
  <2>7. CASE pc = "exec"
    BY <2>6, <2>7, <2>a DEF IInv, Chosen, Best, Whole, BestMatch
  <2> QED BY <2>6, <2>7, <2>a DEF BestMatch
<1> QED BY Invariant, <1>1, PTL

\* A reload leaves the processes running whose names the new file declares
\* (mergechildren()), for any two files.
THEOREM AlwaysKept == Spec => ChildrenKept
<1> DEFINE Kept == pc = "top" /\ pc' = "clear" =>
             \A i \in DOMAIN lconfig.children :
               LET old == lconfig.children[i]
                   new == GetChild(lconfig'.children, old.name)
               IN  old.fd # NoFd /\ GetChild(lconfig.children, old.name) = i /\ new # 0
                     => lconfig'.children[new].fd = old.fd /\ kern'.end[old.fd] = kern.end[old.fd]
<1>1. IInv /\ file \in Confs /\ [Next]_vars => [Kept]_vars
  <2> SUFFICES ASSUME IInv, file \in Confs, Next, pc = "top", pc' = "clear",
                      NEW i \in DOMAIN lconfig.children, lconfig.children[i].fd # NoFd,
                      GetChild(lconfig.children, lconfig.children[i].name) = i,
                      GetChild(lconfig'.children, lconfig.children[i].name) # 0
               PROVE  LET old == lconfig.children[i]
                          new == GetChild(lconfig'.children, old.name)
                      IN  lconfig'.children[new].fd = old.fd /\ kern'.end[old.fd] = kern.end[old.fd]
    OBVIOUS
  <2>1. Reload
    BY DEF Next, Clear, Recv, Stop, Match, Handle, Reparse, Hup, Edit, ChildTakes, ChildEnds
  <2>2. CASE UNCHANGED <<lconfig, kern>>
    BY <2>2
  <2>3. CASE LET m == MergeChildren(Read(file).children, lconfig.children) IN
               lconfig'.children = m.new /\ kern' = FreeChildren(kern, m.old)
    <3>1. lconfig.children \in Seq(Decl) /\ Unshared(lconfig.children) /\ kern \in Kernel
      BY DEF IInv, Sound, Accounts
    <3>2. Read(file).children \in Seq(Decl)
      BY ReadHasNone
    <3> QED BY <2>3, <3>1, <3>2, MergeKeeps
  <2> QED BY <2>1, <2>2, <2>3 DEF Reload
<1>2. Spec => [][Kept]_vars
  BY Invariant, <1>1, PTL DEF Spec
<1> QED BY <1>2 DEF ChildrenKept

=============================================================================
