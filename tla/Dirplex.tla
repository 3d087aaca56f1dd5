------------------------------ MODULE Dirplex ------------------------------
(***************************************************************************)
(* src/dirplex/dirplex.c and conf.c: a request is followed down a tree of  *)
(* directories, each of which may hold a file .htrc, to a file or a        *)
(* directory, and passed to the child that the first matching pattern      *)
(* names.  The .htrc files are kept in memory, and those whose last check  *)
(* is older than CheckAge are read again if their mtime has changed.       *)
(*                                                                         *)
(* A path is a sequence of names, <<>> is "."; an absolute one begins with *)
(* the name "/".  The rest string of a request is the sequence of its      *)
(* elements, so that a final slash is a last element "".                   *)
(***************************************************************************)
EXTENDS StdChild

CONSTANTS Node,      \* path -> "dir", "file" or "other", for all that exists
          Stem,      \* name -> what comes before its first dot; itself if it has none
          Dotted,    \* the names that begin with a dot
          HtDir,     \* the directories whose .htrc is ever written
          Htrc,      \* the versions of the files: version -> their directives
          Start,     \* those that there are at first
          Fixed,     \* the configurations of -c and of the system: place -> version
          Requests,  \* the rest strings that may come
          CheckAge,  \* 5 in the code
          MaxTime, MaxEdits, MaxReq  \* bounds on the clock, the changes and the requests

VARIABLES cf,        \* path or place -> the configuration in memory
          kern,      \* see StdChild
          now,       \* the time at which serve() was called
          clock, files, edits,
          pc,        \* "top", "dir", "capture", "entry", "match", "handle", "notfound", "ended"
          walk,      \* the arguments of checkpath()
          frames,    \* those of the calls that wait for a combined reparse
          sub,       \* what is to be handled: [dir, name, type]
          hand,      \* the pattern that findmatch() returned: <<place, index>>
          nreq,
          outcome    \* history: the requests that were answered, passed on or dropped

tree == <<clock, files, edits>>
serving == <<walk, frames, sub, hand>>
vars == <<cf, kern, now, tree, pc, serving, nreq, outcome>>

Absent == [ver |-> "none", mtime |-> 0, since |-> 0]
EmptyConfig == [children |-> <<>>, pats |-> <<>>, index |-> <<>>, dot |-> <<>>,
                capture |-> "", caproot |-> FALSE, reparse |-> <<>>, comb |-> FALSE]

\* readconfig(), a directive or stanza at a time: lists grow at the front, what
\* is given again is replaced, and a match without a rule or a handler dropped.
ReadLine(c, d) ==
  CASE d[1] \in {"child", "fchild"} -> [c EXCEPT !.children = <<[name |-> d[2], type |-> d[1]]>> \o @]
    [] d[1] = "match" -> IF d[2].rules = <<>> \/ (d[2].handler = "" /\ ~d[2].fork) THEN c
                         ELSE [c EXCEPT !.pats = <<d[2]>> \o @]
    [] d[1] = "index-file" -> [c EXCEPT !.index = d[2]]
    [] d[1] = "dot-allow" -> [c EXCEPT !.dot = d[2]]
    [] d[1] = "capture" -> [c EXCEPT !.capture = d[2], !.caproot = d[3]]
    [] d[1] = "reparse" -> [c EXCEPT !.reparse = d[2], !.comb = d[3]]
Contents == [v \in DOMAIN Htrc |-> FoldLeft(ReadLine, EmptyConfig, Htrc[v])]
Version(v) == IF v \in DOMAIN Htrc THEN Contents[v] ELSE EmptyConfig
Written == DOMAIN Htrc \ Range(Fixed)   \* those of the .htrc files
Kind(p) == IF p \in DOMAIN Node THEN Node[p] ELSE "none"
Children(v) == [i \in DOMAIN Version(v).children |->
                  [name |-> Version(v).children[i].name, type |-> Version(v).children[i].type, fd |-> NoFd]]

ASSUME DirplexAssumption ==
  /\ <<>> \in DOMAIN Node /\ Node[<<>>] = "dir"
  /\ \A p \in DOMAIN Node : /\ p \in Seq(STRING) /\ Node[p] \in {"dir", "file", "other"}
                            /\ p # <<>> => Front(p) \in DOMAIN Node
                            /\ \A n \in 0 .. Len(p) : SubSeq(p, 1, n) \notin DOMAIN Fixed
  /\ DOMAIN Fixed \subseteq {<<"-c">>, <<"-g">>}
  /\ \A place \in DOMAIN Fixed : Fixed[place] \in DOMAIN Htrc
  /\ Start \subseteq DOMAIN Htrc /\ "none" \notin DOMAIN Htrc
  /\ \A v \in DOMAIN Htrc : /\ Contents[v].children \in Seq([name : STRING, type : {"child", "fchild"}])
                            /\ Contents[v].pats \in Seq(Range(Contents[v].pats))
  /\ Requests \subseteq Seq(STRING) \ {<<>>}
  /\ {CheckAge, MaxEdits, MaxReq} \subseteq Nat /\ MaxTime \in Nat \ {0}

NoWalk == [path |-> <<>>, rest |-> <<>>, final |-> TRUE]
NoSub == [dir |-> <<>>, name |-> "", type |-> "file"]

\* The type invariant.
TypeOK == /\ \A p \in DOMAIN cf : /\ cf[p].ver \in DOMAIN Htrc \cup {"none"}
                                  /\ cf[p].lastck <= now
                                  /\ cf[p].chs \in Seq(Decl)
          /\ DOMAIN Fixed \subseteq DOMAIN cf
          /\ \A f \in Fd : kern.end[f] \in Proc \cup {Closed, Leaked}
          /\ now <= clock /\ clock \in 0 .. MaxTime
          /\ pc \in {"top", "dir", "capture", "entry", "match", "handle", "notfound", "ended"}
          /\ walk.final \/ frames # <<>> \/ pc = "ended"
          /\ sub.type \in {"file", "directory", "notfound"}
          /\ hand # <<>> => hand[2] \in DOMAIN Version(cf[hand[1]].ver).pats

Init == /\ cf = [c \in DOMAIN Fixed |-> [mtime |-> 0, lastck |-> 0, ver |-> Fixed[c],
                                         chs |-> Children(Fixed[c])]]
        /\ kern = NewKernel
        /\ now = 0
        /\ clock = 1
        /\ files \in [HtDir -> {Absent} \cup {[ver |-> v, mtime |-> 1, since |-> 0] : v \in Start}]
        /\ edits = 0
        /\ pc = "top"
        /\ walk = NoWalk
        /\ frames = <<>>
        /\ sub = NoSub
        /\ hand = <<>>
        /\ nreq = 0
        /\ outcome = <<>>

-----------------------------------------------------------------------------
(* conf.c                                                                  *)

\* What the next operators change: [cf, kern].
Conf == [cf |-> cf, kern |-> kern]
File(p) == IF p \in HtDir THEN files[p] ELSE Absent

\* Mutant: the time is asked for at every call.
Due_Clock(c, p) == p \in DOMAIN c.cf /\ clock - c.cf[p].lastck > CheckAge

Due(c, p) == p \in DOMAIN c.cf /\ now - c.cf[p].lastck > CheckAge

\* Mutant: only a later mtime is a change.
Changed_Later(c, p) == File(p).ver = "none" \/ File(p).mtime > c.cf[p].mtime

Changed(c, p) == File(p).ver = "none" \/ File(p).mtime # c.cf[p].mtime

\* getconfig() reads the file.
Reads(c, p) == p \notin DOMAIN c.cf \/ (Due(c, p) /\ Changed(c, p))

\* The configuration that is first in the list from now on.
Put(c, p, chs) ==
  [q \in DOMAIN c.cf \cup {p} |->
     IF q = p THEN [mtime |-> File(p).mtime, lastck |-> now, ver |-> File(p).ver, chs |-> chs]
     ELSE c.cf[q]]

\* Mutant: no socket is taken over.
Reread_NoMerge(c, p) == [cf |-> Put(c, p, Children(File(p).ver)), kern |-> c.kern]

\* The file, or an empty configuration, takes the place of the one in memory.
Reread(c, p) ==
  LET old == IF p \in DOMAIN c.cf THEN c.cf[p].chs ELSE <<>>
      m == MergeChildren(Children(File(p).ver), old)
  IN  [cf |-> Put(c, p, m.new), kern |-> FreeChildren(c.kern, m.old)]

GetConfig(c, p) == IF Reads(c, p) THEN Reread(c, p)
                   ELSE IF Due(c, p) THEN [c EXCEPT !.cf[p].lastck = now]
                   ELSE c

\* getconfigs() of a file in, or of a slash after, the directory d: the
\* directories upwards, and the fixed configurations.
Chain(d) == [i \in 1 .. Len(d) + 1 |-> SubSeq(d, 1, Len(d) + 1 - i)]
Given(place) == IF place \in DOMAIN Fixed THEN <<place>> ELSE <<>>
Places(d) == Chain(d) \o (Given(<<"-c">>) \o Given(<<"-g">>))
GetConfigs(c, d) ==
  LET after[i \in 0 .. Len(d) + 1] == IF i = 0 THEN c ELSE GetConfig(after[i - 1], Chain(d)[i])
  IN  after[Len(d) + 1]

\* findchild(): the place and the index, <<>> if there is none.
FindChild(c, d, name) ==
  LET has == {i \in DOMAIN Places(d) : GetChild(c.cf[Places(d)[i]].chs, name) # 0} IN
    IF has = {} THEN <<>>
    ELSE <<Places(d)[Min(has)], GetChild(c.cf[Places(d)[Min(has)]].chs, name)>>

\* The part of the subject's path that is below a place: the names in it.
Below(place, s) == IF place \in DOMAIN Fixed
                   THEN (IF s.dir = <<>> THEN <<".">> ELSE s.dir) \o <<s.name>>
                   ELSE SubSeq(s.dir, Len(place) + 1, Len(s.dir)) \o <<s.name>>
RuleMatches(rule, place, s, trydefault) ==
  CASE rule.type = "filename" -> s.name \in rule.on
    [] rule.type = "pathname" -> Below(place, s) \in rule.on
    [] rule.type = "all" -> TRUE
    [] rule.type = "default" -> trydefault
    [] rule.type = "local" -> Len(Below(place, s)) = 1
Pattern(c, x) == Version(c.cf[x[1]].ver).pats[x[2]]
PatternMatches(c, x, s, trydefault) ==
  LET pat == Pattern(c, x) IN
    pat.type = s.type /\ \A i \in DOMAIN pat.rules : RuleMatches(pat.rules[i], x[1], s, trydefault)

\* findmatch(): the first pattern in the first configuration that has one;
\* those with a default rule after all others.
FindMatch(c, s) ==
  LET in(i, trydefault) == {n \in DOMAIN Version(c.cf[Places(s.dir)[i]].ver).pats :
                              PatternMatches(c, <<Places(s.dir)[i], n>>, s, trydefault)}
      has(trydefault) == {i \in DOMAIN Places(s.dir) : in(i, trydefault) # {}}
      first(trydefault) == LET i == Min(has(trydefault)) IN <<Places(s.dir)[i], Min(in(i, trydefault))>>
  IN  IF has(FALSE) # {} THEN first(FALSE) ELSE IF has(TRUE) # {} THEN first(TRUE) ELSE <<>>

-----------------------------------------------------------------------------
(* The ways in which serve() ends, and goes on.                            *)

Keep(c) == cf' = c.cf /\ kern' = c.kern

\* Mutant: a waiting call of checkdir() goes on, although there was an answer.
Served_Again(what) ==
  /\ outcome' = Append(outcome, nreq)
  /\ sub' = NoSub /\ hand' = <<>>
  /\ IF frames = <<>> THEN pc' = "top" /\ walk' = NoWalk /\ frames' = <<>>
     ELSE pc' = "entry" /\ walk' = Last(frames) /\ frames' = Front(frames)

Served(what) == /\ outcome' = Append(outcome, nreq)
                /\ pc' = "top"
                /\ walk' = NoWalk /\ frames' = <<>> /\ sub' = NoSub /\ hand' = <<>>

\* On with checkdir() of a directory.
Descends(p, rest, final, waiting) ==
  /\ walk' = [path |-> p, rest |-> rest, final |-> final]
  /\ frames' = waiting
  /\ pc' = "dir"
  /\ UNCHANGED <<sub, hand, outcome>>

\* handlefile(), handle404() or the end of handledir().
Handles(d, name, type) ==
  /\ sub' = [dir |-> d, name |-> name, type |-> type]
  /\ pc' = "match"
  /\ UNCHANGED <<walk, frames, hand, outcome>>

\* checkpath() has found nothing: 404 if it is final, and else on with the
\* entry of the directory that has the combined reparse.
NotHere == \/ /\ walk.final
              /\ Handles(walk.path, "", "notfound")
           \/ /\ ~walk.final
              /\ walk' = Last(frames)
              /\ frames' = Front(frames)
              /\ UNCHANGED <<pc, sub, hand, outcome>>

\* childhandle() of the first child of that name seen from the directory d; if
\* there is none the answer is 500, or 404 for ".notfound".
Passes(d, name) ==
  LET c == GetConfigs(Conf, d)
      x == FindChild(c, d, name)
  IN  \/ /\ x = <<>>
         /\ Keep(c)
         /\ Served("answered")
      \/ /\ x # <<>>
         /\ \E o \in StdHandle(c.kern, c.cf[x[1]].chs[x[2]], nreq) :
              /\ kern' = o.k
              /\ cf' = [c.cf EXCEPT ![x[1]].chs = Rewired(@, x[2], o.fd)]
              /\ Served(IF o.ok THEN "passed" ELSE "answered")

-----------------------------------------------------------------------------
(* dirplex.c                                                               *)

Recv == /\ pc = "top"
        /\ nreq < MaxReq
        /\ nreq' = nreq + 1
        /\ now' = clock
        /\ \E r \in Requests : Descends(<<>>, r, TRUE, <<>>)
        /\ UNCHANGED <<cf, kern, tree>>

\* End-of-file, or an error.
Stop == /\ pc = "top"
        /\ pc' = "ended"
        /\ UNCHANGED <<cf, kern, now, tree, serving, nreq, outcome>>

\* checkdir().  A file that goes between the calls of getconfig() leaves no
\* configuration, and the program touches a null pointer.
CheckDir ==
  LET c == GetConfig(Conf, walk.path)
      v == Version(c.cf[walk.path].ver)
      target == IF v.reparse # <<>> /\ Head(v.reparse) = "/" THEN v.reparse
                ELSE walk.path \o v.reparse
      captured == v.capture # "" /\ (v.caproot \/ walk.path # <<>>)
  IN  /\ pc = "dir"
      /\ Keep(c)
      /\ \/ /\ captured
            /\ pc' = "capture"
            /\ UNCHANGED <<serving, outcome>>
         \/ /\ ~captured
            /\ v.reparse # <<>>
            /\ \/ /\ Kind(target) = "dir"
                  /\ Descends(target, walk.rest, ~v.comb,
                              IF v.comb THEN Append(frames, walk) ELSE frames)
               \/ /\ Kind(target) = "file"
                  /\ Handles(Front(target), Last(target), "file")
               \/ /\ Kind(target) \notin {"dir", "file"}
                  /\ ~v.comb
                  /\ Served("dropped")
               \/ /\ Kind(target) \notin {"dir", "file"}
                  /\ v.comb
                  /\ pc' = "entry"
                  /\ UNCHANGED <<serving, outcome>>
         \/ /\ ~captured
            /\ v.reparse = <<>>
            /\ pc' = "entry"
            /\ UNCHANGED <<serving, outcome>>
         \/ /\ Reads(Conf, walk.path) /\ File(walk.path).ver # "none"
            /\ pc' = "ended"
            /\ UNCHANGED <<serving, outcome>>
      /\ UNCHANGED <<now, tree, nreq>>

\* The rest of it for a captured directory.
Capture == /\ pc = "capture"
           /\ Passes(walk.path, Version(cf[walk.path].ver).capture)
           /\ UNCHANGED <<now, tree, nreq>>

\* checkaccess(), with the configurations c.
Allowed(c, d, name) ==
  LET says == {i \in DOMAIN Places(d) : Version(c.cf[Places(d)[i]].ver).dot # <<>>} IN
    \/ name \notin Dotted
    \/ says # {} /\ name \in Range(Version(c.cf[Places(d)[Min(says)]].ver).dot)

\* findfile(): the names that it may come upon first.  None begins with a dot.
FindFile(d, name) == {n \in DOMAIN Stem : /\ Stem[n] = name /\ n # name
                                          /\ Kind(Append(d, n)) = "file"}

\* handledir(): the first index file there is, or a listing.
IndexFiles(c, d) ==
  LET says == {i \in DOMAIN Places(d) : Version(c.cf[Places(d)[i]].ver).index # <<>>}
      names == Version(c.cf[Places(d)[Min(says)]].ver).index
      found(n) == IF Kind(Append(d, n)) = "file" THEN {n}
                  ELSE IF Stem[n] = n THEN FindFile(d, n) ELSE {}
      some == {i \in DOMAIN names : found(names[i]) # {}}
  IN  IF says = {} \/ some = {} THEN {} ELSE found(names[Min(some)])
HandleDir(c) == IF IndexFiles(c, walk.path) = {} THEN Handles(walk.path, "", "directory")
                ELSE \E n \in IndexFiles(c, walk.path) : Handles(walk.path, n, "file")

\* checkentry(), where there is an entry of that name.
Exists(el, rest) ==
  LET p == Append(walk.path, el) IN
    CASE Kind(p) = "dir" -> IF rest = <<>> THEN Served("answered")
                            ELSE Descends(p, rest, walk.final, frames)
      [] Kind(p) = "file" -> Handles(walk.path, el, "file")
      [] Kind(p) = "other" -> Handles(walk.path, "", "notfound")

\* checkpath() after checkdir().  The element "%" is an invalid escape, and
\* "%2f" one with a slash.
CheckEntry ==
  LET el == Head(walk.rest)
      rest == Tail(walk.rest)
      there == Kind(Append(walk.path, el)) # "none"
      plain == el \notin {"", "%", "%2f"}
      c == IF el = "" \/ (plain /\ there /\ el \in Dotted) THEN GetConfigs(Conf, walk.path) ELSE Conf
      found == IF Stem[el] = el THEN FindFile(walk.path, el) ELSE {}
  IN  /\ pc = "entry"
      /\ Keep(c)
      /\ \/ el = "%" /\ Served("answered")
         \/ (el = "%2f" \/ (el = "" /\ rest # <<>>)) /\ NotHere
         \/ el = "" /\ rest = <<>> /\ HandleDir(c)
         \/ plain /\ there /\ Allowed(c, walk.path, el) /\ Exists(el, rest)
         \/ plain /\ there /\ ~Allowed(c, walk.path, el) /\ NotHere
         \/ plain /\ ~there /\ \E n \in found : Handles(walk.path, n, "file")
         \/ plain /\ ~there /\ found = {} /\ NotHere
      /\ UNCHANGED <<now, tree, nreq>>

\* findmatch() in handlefile(), handledir() and handle404(), and what they do
\* if there is no pattern.
Match ==
  LET c == GetConfigs(Conf, sub.dir)
      x == FindMatch(c, sub)
  IN  /\ pc = "match"
      /\ Keep(c)
      /\ \/ /\ x # <<>>
            /\ hand' = x
            /\ pc' = "handle"
            /\ UNCHANGED <<walk, frames, sub, outcome>>
         \/ x = <<>> /\ sub.type = "file" /\ Handles(sub.dir, sub.name, "notfound")
         \/ x = <<>> /\ sub.type = "directory" /\ Served("answered")
         \/ /\ x = <<>> /\ sub.type = "notfound"
            /\ pc' = "notfound"
            /\ UNCHANGED <<serving, outcome>>
      /\ UNCHANGED <<now, tree, nreq>>

\* handle().  Nobody looks at the result of stdforkserve().
Handle == LET pat == Pattern(Conf, hand) IN
          /\ pc = "handle"
          /\ \/ /\ pat.fork
                /\ \E what \in {"passed", "dropped"} : Served(what)
                /\ UNCHANGED <<cf, kern>>
             \/ /\ ~pat.fork
                /\ Passes(sub.dir, pat.handler)
          /\ UNCHANGED <<now, tree, nreq>>

\* handle404() without a pattern.
NotFound == /\ pc = "notfound"
            /\ Passes(sub.dir, ".notfound")
            /\ UNCHANGED <<now, tree, nreq>>

-----------------------------------------------------------------------------
(* Time, and other programs.                                               *)

Tick == /\ pc # "ended"
        /\ clock < MaxTime
        /\ clock' = clock + 1
        /\ UNCHANGED <<cf, kern, now, files, edits, pc, serving, nreq, outcome>>

\* A .htrc is written, put there with an old mtime, or removed.
Edit(p) == /\ pc # "ended"
           /\ edits < MaxEdits
           /\ edits' = edits + 1
           /\ \/ \E v \in Written \ {files[p].ver}, m \in {0, clock} :
                   files' = [files EXCEPT ![p] = [ver |-> v, mtime |-> m, since |-> clock]]
              \/ /\ files[p].ver # "none"
                 /\ files' = [files EXCEPT ![p] = [Absent EXCEPT !.since = clock]]
           /\ UNCHANGED <<cf, kern, now, clock, pc, serving, nreq, outcome>>

ChildTakes(p) == /\ p \in kern.up
                 /\ kern.queue[p] # <<>>
                 /\ kern' = Takes(kern, p)
                 /\ UNCHANGED <<cf, now, tree, pc, serving, nreq, outcome>>

ChildEnds(p) == /\ p \in kern.up
                /\ kern' = Ends(kern, p)
                /\ UNCHANGED <<cf, now, tree, pc, serving, nreq, outcome>>

Next == \/ Recv \/ Stop \/ CheckDir \/ Capture \/ CheckEntry \/ Match \/ Handle \/ NotFound
        \/ Tick
        \/ \E p \in HtDir : Edit(p)
        \/ \E p \in Proc : ChildTakes(p) \/ ChildEnds(p)

Spec == Init /\ [][Next]_vars
-----------------------------------------------------------------------------
(* Properties.                                                             *)

\* Every open socket to a process belongs to one declaration of one
\* configuration in memory, and no declaration has a closed one: whatever is
\* edited or removed, read again, freed and merged, and whatever children crash.
SocketsOwned ==
  LET has(p) == {i \in DOMAIN cf[p].chs : cf[p].chs[i].fd # NoFd} IN
    /\ \A p, q \in DOMAIN cf : \A i \in has(p), j \in has(q) :
         cf[p].chs[i].fd = cf[q].chs[j].fd => p = q /\ i = j
    /\ UNION {Owned(cf[p].chs) : p \in DOMAIN cf} = {f \in Fd : kern.end[f] \in Proc}

\* Each request has one outcome, in whichever of the nested calls of checkpath()
\* it comes, and none of them goes on afterwards.
OneOutcome ==
  /\ TypeOK
  /\ LET done == IF pc \in {"top"} THEN nreq ELSE nreq - 1 IN
       pc # "ended" => outcome = [i \in 1 .. done |-> i]

\* dirplex.c takes the time once for each request, and uses a pattern and the
\* name of a capture after further calls of getconfigs(): no such call frees the
\* configuration that they are part of.
Held == CASE pc = "handle" -> {hand[1]}
          [] pc = "capture" -> {walk.path}
          [] OTHER -> {}
HeldAlive == [][\A p \in Held : cf'[p].ver = cf[p].ver /\ cf'[p].mtime = cf[p].mtime]_vars

\* doc/dirplex.doc: .htrc files "are checked periodically and reread if changed".
\* What a request is handled by was in the file at its last check, which is no
\* older than CheckAge, unless the change did not show in the mtime.
Fresh ==
  \A p \in Held \ DOMAIN Fixed :
    /\ now - cf[p].lastck <= CheckAge
    /\ \/ File(p).ver = cf[p].ver
       \/ File(p).mtime = cf[p].mtime
       \/ File(p).since >= cf[p].lastck
=============================================================================
