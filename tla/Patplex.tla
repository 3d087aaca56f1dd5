------------------------------- MODULE Patplex -------------------------------
(***************************************************************************)
(* src/patplex.c: requests are matched against the patterns of two         *)
(* configurations and passed to the child that the best one names, after   *)
(* changes to the request and as many rounds of matching as its reparse    *)
(* patterns ask for.                                                       *)
(*                                                                         *)
(* The strings that are matched are sequences of path elements; a regular  *)
(* expression matches one element at the head, which is also its $0.  The  *)
(* value of a header is one element; a `method' rule is as a `url' rule.   *)
(***************************************************************************)
EXTENDS StdChild

CONSTANTS Confs,     \* the files that can be read: [children, patterns]
          Global,    \* the global configuration file
          Requests,  \* the requests that may come: [url, rest, hdrs]
          Text,      \* the elements that strings are made of
          Literal,   \* header -> the text {HEADER}
          MaxReq,    \* bound on the requests
          MaxHups    \* bound on the SIGHUPs

ASSUME PatplexAssumption ==
  /\ MaxReq \in Nat
  /\ \A f \in Confs \cup {Global} :
       /\ f.children \in Seq([name : STRING, type : {"child", "fchild"}])
       /\ f.patterns \in Seq(Range(f.patterns))
       /\ \A pat \in Range(f.patterns) : pat.prio \in Int /\ pat.rules \in Seq(Range(pat.rules))

VARIABLES kern,      \* see StdChild
          gconfig, lconfig,
          file,      \* what the local configuration file holds
          reload,
          pc,        \* "top", "clear", "recv", "match", "exec", "ended"
          req,       \* the request that is served: [id, url, rest, hdrs]
          match,     \* what serve() has found for it
          disabled,  \* the patterns whose `disable' is set
          stack,     \* the matches, all reparses, of the nested calls of serve()
          nreq, hups,
          passed,    \* history: the requests that a sendreq2() took
          answered   \* history: those that were answered here

conf == <<gconfig, lconfig, file, reload, hups>>
serving == <<req, match, disabled, stack>>
hist == <<nreq, passed, answered>>
vars == <<kern, conf, pc, serving, hist>>

None == [pat |-> <<>>]
NoReq == [id |-> 0]
Ids == 1 .. MaxReq

\* readconfig(): no child runs.  The lists are in the order that the program
\* keeps them in, the reverse of the file's.
Read(f) ==
  [children |-> [i \in DOMAIN f.children |->
                   [name |-> f.children[i].name, type |-> f.children[i].type, fd |-> NoFd]],
   patterns |-> f.patterns]

\* A pattern is named by its configuration and its place in the list there.
Config(c) == IF c = "l" THEN lconfig ELSE gconfig
Pattern(x) == Config(x[1]).patterns[x[2]]
Patterns == {<<"l", i>> : i \in DOMAIN lconfig.patterns} \cup {<<"g", i>> : i \in DOMAIN gconfig.patterns}
Children == {<<"l", i>> : i \in DOMAIN lconfig.children} \cup {<<"g", i>> : i \in DOMAIN gconfig.children}
Child(x) == Config(x[1]).children[x[2]]

\* The type invariant.
TypeOK == /\ \A f \in Fd : kern.end[f] \in Proc \cup {Closed, Leaked}
          /\ kern.up \subseteq kern.started
          /\ \A p \in Proc : kern.queue[p] \in Seq(Ids)
          /\ lconfig.children \in Seq(Decl) /\ gconfig.children \in Seq(Decl)
          /\ file \in Confs
          /\ reload \in BOOLEAN
          /\ pc \in {"top", "clear", "recv", "match", "exec", "ended"}
          /\ req.id \in 0 .. MaxReq
          /\ match.pat \in Patterns \cup {<<>>}
          /\ disabled \subseteq Patterns
          /\ \A i \in DOMAIN stack : stack[i].pat \in Patterns
          /\ passed \subseteq Ids /\ answered \subseteq Ids

Init == /\ kern = NewKernel
        /\ gconfig = Read(Global)
        /\ file \in Confs
        /\ lconfig = Read(file)
        /\ reload = FALSE
        /\ pc = "top"
        /\ req = NoReq
        /\ match = None
        /\ disabled = {}
        /\ stack = <<>>
        /\ nreq = 0
        /\ hups = 0
        /\ passed = {}
        /\ answered = {}

-----------------------------------------------------------------------------
(* findmatch()                                                             *)

\* The string that a rule looks at.
Subject(rule, q) == CASE rule.type = "point" -> q.rest
                      [] rule.type = "url" -> q.url
                      [] rule.type = "header" -> IF rule.hdr \in DOMAIN q.hdrs
                                                 THEN <<q.hdrs[rule.hdr]>> ELSE <<>>
                      [] rule.type = "all" -> <<>>
Matches(rule, q) == \/ rule.type = "all"
                    \/ Subject(rule, q) # <<>> /\ Head(Subject(rule, q)) \in rule.on

\* How many rules of a pattern match before one fails.
Tried(pat, q) == LET fails == {i \in DOMAIN pat.rules : ~Matches(pat.rules[i], q)} IN
                   IF fails = {} THEN Len(pat.rules) ELSE Min(fails) - 1

\* One turn of the loop over the patterns, for x.  The pointer mstr goes to the
\* strings of the last rule with the flag `s' that has matched, of whatever
\* pattern, as no turn sets it to NULL; `freed' are the strings that are gone,
\* and `twice' says that some were freed again.
Turn(a, x, q) ==
  LET pat == Pattern(x)
      n == Tried(pat, q)
      s == {i \in 1 .. n : pat.rules[i].mss}
      strings(i) == [pat |-> x, rule |-> i, str |-> Head(Subject(pat.rules[i], q))]
      mstr == IF s = {} THEN a.mstr ELSE strings(Max(s))
      replaced == IF s = {} THEN {} ELSE {a.mstr} \cup {strings(i) : i \in s \ {Max(s)}}
      found == n = Len(pat.rules)
      old == IF found /\ a.match # None THEN {a.match.mstr} ELSE {}
  IN  [mstr |-> mstr,
       match |-> IF found THEN [pat |-> x, mstr |-> mstr,
                                rmo |-> \E i \in 1 .. n : pat.rules[i].type = "point"]
                 ELSE a.match,
       freed |-> (a.freed \cup replaced \cup old) \ {None},
       twice |-> \/ a.twice
                 \/ (((replaced \cup old) \cap a.freed) \cup (replaced \cap old)) \ {None} # {}]

\* Mutant: the last of equals wins.
Skipped_Less(a, x) == \/ x \in disabled
                      \/ a.match # None /\ Pattern(x).prio < Pattern(a.match.pat).prio

\* The patterns that the loop passes over.
Skipped(a, x) == \/ x \in disabled
                 \/ a.match # None /\ Pattern(x).prio <= Pattern(a.match.pat).prio

\* The loop, for the pattern x.
Try(a, x, q) == IF Skipped(a, x) THEN a ELSE Turn(a, x, q)

FindMatch(c, q, a) ==
  LET after[i \in 0 .. Len(Config(c).patterns)] ==
        IF i = 0 THEN [a EXCEPT !.mstr = None] ELSE Try(after[i - 1], <<c, i>>, q)
  IN  after[Len(Config(c).patterns)]

\* The two calls of serve().
Found(q) == FindMatch("g", q,
              FindMatch("l", q, [match |-> None, mstr |-> None, freed |-> {}, twice |-> FALSE]))

-----------------------------------------------------------------------------
(* execmatch()                                                             *)

\* What an item of a restpat becomes, with the string str for $0.  After the
\* value of ${HEADER} the text between the braces follows, and they as well.
Expand(t, q, str) ==
  CASE t[1] = "$0" -> str
    [] t[1] = "$_" -> q.rest
    [] t[1] = "${}" -> (IF t[2] \in DOMAIN q.hdrs THEN <<q.hdrs[t[2]]>> ELSE <<>>) \o <<Literal[t[2]]>>

\* The rest string and the headers afterwards.
Rest(q, m, str) ==
  LET t == Pattern(m.pat).restpat IN
    IF t # <<>> THEN FlattenSeq([i \in DOMAIN t |-> Expand(t[i], q, str)])
    ELSE IF m.rmo THEN Tail(q.rest) ELSE q.rest
Headers(q, m) == Pattern(m.pat).set @@ q.hdrs
Executed(q, m, str) == [id |-> q.id, url |-> q.url, rest |-> Rest(q, m, str), hdrs |-> Headers(q, m)]

\* The string that $0 is taken for: anything when it is gone.
Strings(m) == IF m.mstr = None THEN {<<>>}
              ELSE IF m.alive THEN {<<m.mstr.str>>}
              ELSE {<<e>> : e \in Text}

-----------------------------------------------------------------------------
(* The main loop.                                                          *)

\* Mutant: no socket is taken over.
Reload_NoMerge == /\ pc = "top"
                  /\ reload
                  /\ pc' = "clear"
                  /\ lconfig' = Read(file)
                  /\ kern' = FreeChildren(kern, lconfig.children)
                  /\ UNCHANGED <<gconfig, file, reload, hups, serving, hist>>

\* reloadconf(): the file is read, or cannot be.
Reload == /\ pc = "top"
          /\ reload
          /\ pc' = "clear"
          /\ \/ LET new == Read(file)
                    m == MergeChildren(new.children, lconfig.children)
                IN  /\ lconfig' = [children |-> m.new, patterns |-> new.patterns]
                    /\ kern' = FreeChildren(kern, m.old)
             \/ UNCHANGED <<lconfig, kern>>
          /\ UNCHANGED <<gconfig, file, reload, hups, serving, hist>>

\* reload = 0, if it was set; and on to recvreq().
Clear == /\ pc = "clear" \/ (pc = "top" /\ ~reload)
         /\ reload' = IF pc = "clear" THEN FALSE ELSE reload
         /\ pc' = "recv"
         /\ UNCHANGED <<kern, gconfig, lconfig, file, hups, serving, hist>>

Recv == /\ pc = "recv"
        /\ nreq < MaxReq
        /\ nreq' = nreq + 1
        /\ \E q \in Requests : req' = [id |-> nreq + 1, url |-> q.url, rest |-> q.rest, hdrs |-> q.hdrs]
        /\ pc' = "match"
        /\ UNCHANGED <<kern, conf, match, disabled, stack, passed, answered>>

\* End-of-file, or an error.  A signal is none: signal() has recvmsg() restarted.
Stop == /\ pc = "recv"
        /\ pc' = "ended"
        /\ UNCHANGED <<kern, conf, serving, hist>>

\* The patterns that nested calls of serve() have disabled.
Reparsing == {stack[i].pat : i \in DOMAIN stack}

\* The calls of freematch() at the end of serve(): strings that are gone are
\* freed again, which may end the program in abort().
FreeMatches == LET gone == \/ match # None /\ ~match.alive
                           \/ \E i \in DOMAIN stack : ~stack[i].alive
               IN  pc' \in IF gone THEN {"top", "ended"} ELSE {"top"}

\* serve() ends, and so do the calls of it that this one is nested in.
Finish == /\ FreeMatches
          /\ req' = NoReq
          /\ match' = None
          /\ disabled' = disabled \ Reparsing
          /\ stack' = <<>>

\* serve() as far as findmatch(), and 404 when nothing matches.  If strings were
\* freed twice, the match may hold memory that is free.
Match == /\ pc = "match"
         /\ LET a == Found(req) IN
              \/ /\ a.match # None
                 /\ \E b \in BOOLEAN : /\ b \/ a.twice \/ a.match.mstr \in a.freed
                                       /\ ~(b /\ a.match.mstr \in a.freed)
                                       /\ match' = [pat |-> a.match.pat, mstr |-> a.match.mstr,
                                                    rmo |-> a.match.rmo, alive |-> b]
                 /\ pc' = "exec"
                 /\ UNCHANGED <<req, disabled, stack, answered>>
              \/ /\ a.match = None
                 /\ Finish
                 /\ answered' = answered \cup {req.id}
              \/ /\ a.twice                   \* memory freed twice: abort()
                 /\ pc' = "ended"
                 /\ UNCHANGED <<serving, answered>>
         /\ UNCHANGED <<kern, conf, nreq, passed>>

\* Where the handler of a pattern is declared: the local one first.
Handler(name) == LET l == GetChild(lconfig.children, name) IN
                   IF l # 0 THEN <<"l", l>> ELSE <<"g", GetChild(gconfig.children, name)>>

\* sd->fd = fd for the child x.
WithChild(cf, i, fd) == [children |-> Rewired(cf.children, i, fd), patterns |-> cf.patterns]
SetFd(x, fd) == IF x[1] = "l" THEN lconfig' = WithChild(lconfig, x[2], fd) /\ UNCHANGED gconfig
                ELSE gconfig' = WithChild(gconfig, x[2], fd) /\ UNCHANGED lconfig

\* serve() from execmatch() on, for a handler: childhandle(), and childerror()
\* if it fails; or the error when it is not declared.
Handle ==
  LET x == Handler(Pattern(match.pat).handler) IN
    /\ pc = "exec"
    /\ ~Pattern(match.pat).reparse
    /\ \/ /\ x[2] = 0
          /\ answered' = answered \cup {req.id}
          /\ UNCHANGED <<kern, gconfig, lconfig, passed>>
       \/ /\ x[2] # 0
          /\ \E o \in StdHandle(kern, Child(x), req.id) :
               /\ kern' = o.k
               /\ SetFd(x, o.fd)
               /\ passed' = IF o.sent THEN passed \cup {req.id} ELSE passed
               /\ answered' = IF o.ok THEN answered ELSE answered \cup {req.id}
    /\ Finish
    /\ UNCHANGED <<file, reload, hups, nreq>>

\* The same for a reparse: serve() of the changed request with the pattern
\* disabled.
Reparse == /\ pc = "exec"
           /\ Pattern(match.pat).reparse
           /\ \E str \in Strings(match) : req' = Executed(req, match, str)
           /\ disabled' = disabled \cup {match.pat}
           /\ stack' = Append(stack, match)
           /\ match' = None
           /\ pc' = "match"
           /\ UNCHANGED <<kern, conf, hist>>

-----------------------------------------------------------------------------
(* Other programs.                                                         *)

Hup == /\ pc # "ended"
       /\ hups < MaxHups
       /\ hups' = hups + 1
       /\ reload' = TRUE
       /\ UNCHANGED <<kern, gconfig, lconfig, file, pc, serving, hist>>

\* Somebody edits the file, and means to send a SIGHUP.
Edit == /\ pc # "ended"
        /\ hups < MaxHups
        /\ file' \in Confs \ {file}
        /\ UNCHANGED <<kern, gconfig, lconfig, reload, hups, pc, serving, hist>>

ChildTakes(p) == /\ p \in kern.up
                 /\ kern.queue[p] # <<>>
                 /\ kern' = Takes(kern, p)
                 /\ UNCHANGED <<conf, pc, serving, hist>>

ChildEnds(p) == /\ p \in kern.up
                /\ kern' = Ends(kern, p)
                /\ UNCHANGED <<conf, pc, serving, hist>>

Next == \/ Reload \/ Clear \/ Recv \/ Stop \/ Match \/ Handle \/ Reparse
        \/ Hup \/ Edit
        \/ \E p \in Proc : ChildTakes(p) \/ ChildEnds(p)

Spec == Init /\ [][Next]_vars
-----------------------------------------------------------------------------
(* Properties.                                                             *)

\* Every open socket to a process is that of exactly one child declaration, and
\* no declaration has one that is closed: whatever order children crash, are
\* started again and are taken over by another configuration in.
SocketsOwned ==
  /\ \A x, y \in Children : Child(x).fd = Child(y).fd /\ Child(x).fd # NoFd => x = y
  /\ Owned(lconfig.children) \cup Owned(gconfig.children) = {f \in Fd : kern.end[f] \in Proc}

\* Every request that was served is passed to one child or answered with an
\* error, and never both, through all restarts and rounds of matching.
OneAnswer == /\ passed \cap answered = {}
             /\ passed \cup answered = 1 .. nreq \ {req.id}

\* The pattern that is used is one that matches as a whole, and none that does
\* has a higher priority; among equals one of the given file goes before the
\* global ones.  Left out are just the patterns for which a reparse is under way,
\* whichever way the rounds before it have ended.
BestMatch ==
  /\ TypeOK
  /\ disabled = {stack[i].pat : i \in DOMAIN stack}
  /\ pc = "exec" =>
    LET whole == {x \in Patterns \ disabled :
                    \A i \in DOMAIN Pattern(x).rules : Matches(Pattern(x).rules[i], req)}
    IN  /\ match.pat \in whole
        /\ \A x \in whole : /\ Pattern(x).prio <= Pattern(match.pat).prio
                            /\ Pattern(x).prio = Pattern(match.pat).prio /\ x[1] = "l"
                                 => match.pat[1] = "l"

\* doc/patplex.doc (SIGNALS): named handlers that "are currently running and have
\* stanzas with matching names in the new file [...] are left running".
ChildrenKept ==
  [][pc = "top" /\ pc' = "clear" =>
       \A i \in DOMAIN lconfig.children :
         LET old == lconfig.children[i]
             new == GetChild(lconfig'.children, old.name)
         IN  old.fd # NoFd /\ GetChild(lconfig.children, old.name) = i /\ new # 0
               => lconfig'.children[new].fd = old.fd /\ kern'.end[old.fd] = kern.end[old.fd]]_vars
=============================================================================
