------------------------------ MODULE PyServe ------------------------------
(***************************************************************************)
(* python/ashd/serve.py: the four ways in which the WSGI servers give the  *)
(* requests that the main thread receives to threads of their own.         *)
(*                                                                         *)
(* A block under a lock is one step, up to a wait() on a condition in it.  *)
(* A request and, but for the pool, its thread have the same number; a     *)
(* thread of the pool has that of the request it was started for.          *)
(***************************************************************************)
EXTENDS Integers, Sequences, FiniteSets, SequencesExt

CONSTANTS MaxThreads, \* `max' of all handlers
          QSize,     \* `qsz' of the pool
          WaitLimit, \* `waitlimit' of the pool
          CqMax,     \* the length of the `cqueue' of rplex
          Mark,      \* the chunks in a buffer at which no more are asked for
          Bodies,    \* what an iterator may give: sequences of "data", "" (empty) and "raise"
          Aborts,    \* whether `abort' was given
          MaxReq     \* bound on the requests

ASSUME PyServeAssumption == /\ {MaxThreads, QSize, WaitLimit, CqMax, Mark, MaxReq} \subseteq Nat \ {0}
                            /\ Aborts \in BOOLEAN

VARIABLES cname,     \* the handler: "single", "free", "pool", "rplex"
          pc,        \* the main thread: see TypeOK
          nreq,
          woken,     \* the wait() of the main thread was notified
          th,        \* thread -> what it is doing
          serves,    \* thread -> its request, 0 if it has none
          current,
          queue, waiting,
          waiters,   \* the threads in qfcond that were not notified, in order
          cqueue,
          pipe,      \* the bytes in cnpipe, and whether it is open
          rt,        \* the response thread: "select", "drain", "done"
          resp,      \* request -> [iter, buf] of those in its dictionary
          closed,    \* history: the times that each request was closed
          lapsed     \* history: no thread was told of a request: a notify() went to one whose
                     \* time had run out, or all were just about to end

threads == <<th, serves, current>>
pool == <<queue, waiting, waiters, lapsed>>
rplex == <<cqueue, pipe, rt, resp>>
vars == <<cname, pc, nreq, woken, threads, pool, rplex, closed>>

Ids == 1 .. MaxReq
Ended == [iter |-> <<>>, over |-> TRUE, head |-> TRUE, buf |-> 0]

\* The type invariant.
TypeOK ==
  /\ cname \in {"single", "free", "pool", "rplex"}
  /\ pc \in {"recv", "run", "admit", "full", "register", "put", "qfull", "spawn", "join", "ended", "aborted"}
  /\ nreq \in 0 .. MaxReq
  /\ th \in [Ids -> {"none", "starting", "run", "iterator", "write", "leave", "close", "look", "wait",
                     "expired", "gone"}]
  /\ serves \in [Ids -> 0 .. MaxReq]
  /\ current \subseteq Ids /\ waiting \subseteq current
  /\ Range(waiters) \subseteq waiting
  /\ rt \in {"select", "drain", "done"}
  /\ DOMAIN resp \subseteq Ids
  /\ closed \in [Ids -> 0 .. 2]

Init == /\ cname \in {"single", "free", "pool", "rplex"}
        /\ pc = "recv"
        /\ nreq = 0
        /\ woken = FALSE
        /\ th = [t \in Ids |-> "none"]
        /\ serves = [t \in Ids |-> 0]
        /\ current = {}
        /\ queue = <<>> /\ waiting = {} /\ waiters = <<>> /\ lapsed = FALSE
        /\ cqueue = <<>>
        /\ pipe = [n |-> 0, open |-> TRUE]
        /\ rt = IF cname = "rplex" THEN "select" ELSE "done"
        /\ resp = <<>>
        /\ closed = [r \in Ids |-> 0]

-----------------------------------------------------------------------------
(* The main thread.                                                        *)

\* handle() of a request; it begins by looking for room.
Recv == /\ pc = "recv"
        /\ nreq < MaxReq
        /\ nreq' = nreq + 1
        /\ pc' = CASE cname = "single" -> "run"
                   [] cname = "pool" -> "put"
                   [] OTHER -> "admit"
        /\ UNCHANGED <<cname, woken, threads, pool, rplex, closed>>

\* End-of-file, and the close() of the handler.
Eof == /\ pc = "recv"
       /\ pc' = "join"
       /\ UNCHANGED <<cname, nreq, woken, threads, pool, rplex, closed>>

\* single.handle().
RunHere == /\ pc = "run"
           /\ closed' = [closed EXCEPT ![nreq] = @ + 1]
           /\ pc' = "recv"
           /\ UNCHANGED <<cname, nreq, woken, threads, pool, rplex>>

\* Mutant: the main thread goes on at once.
Starts_NoWait(t, r) == /\ th' = [th EXCEPT ![t] = "starting"]
                       /\ serves' = [serves EXCEPT ![t] = r]
                       /\ woken' = FALSE
                       /\ pc' = "recv"
                       /\ UNCHANGED current

\* th.start(), and the wait for it to register.
Starts(t, r) == /\ th' = [th EXCEPT ![t] = "starting"]
                /\ serves' = [serves EXCEPT ![t] = r]
                /\ woken' = FALSE
                /\ pc' = "register"
                /\ UNCHANGED current

\* handle() of free and of rplex.
Admit == /\ pc = "admit" \/ (pc = "full" /\ woken)
         /\ \/ /\ Cardinality(current) >= MaxThreads
               /\ pc' = "full"
               /\ woken' = FALSE
               /\ UNCHANGED threads
            \/ /\ Cardinality(current) < MaxThreads
               /\ Starts(nreq, nreq)
         /\ UNCHANGED <<cname, nreq, pool, rplex, closed>>

\* The time to wait for room runs out, at free and at the pool.
Abort == /\ Aborts
         /\ pc \in {"full", "qfull"} /\ cname # "rplex"
         /\ pc' = "aborted"
         /\ UNCHANGED <<cname, nreq, woken, threads, pool, rplex, closed>>

\* while not th.registered: a thread registers before it does anything else.
Registered == /\ pc = "register" /\ woken
              /\ th[nreq] # "starting"
              /\ pc' = "recv"
              /\ UNCHANGED <<cname, nreq, woken, threads, pool, rplex, closed>>

\* threadpool.handle(), in the block under qlk.
Put == /\ pc = "put" \/ (pc = "qfull" /\ woken)
       /\ \/ /\ Len(queue) >= QSize
             /\ pc' = "qfull"
             /\ woken' = FALSE
             /\ UNCHANGED <<queue, waiters, lapsed>>
          \/ /\ Len(queue) < QSize
             /\ queue' = Append(queue, nreq)
             /\ waiters' = IF waiters = <<>> THEN waiters ELSE Tail(waiters)
             /\ lapsed' = (lapsed \/ (waiters # <<>> /\ th[Head(waiters)] = "expired"))
             /\ pc' = IF waiting = {} THEN "spawn" ELSE "recv"
             /\ UNCHANGED woken
       /\ UNCHANGED <<cname, nreq, threads, waiting, rplex, closed>>

\* The block under clk.
Spawn == /\ pc = "spawn"
         /\ \/ /\ Cardinality(current) < MaxThreads
               /\ Starts(nreq, 0)
               /\ UNCHANGED lapsed
            \/ /\ Cardinality(current) >= MaxThreads
               /\ pc' = "recv"
               /\ lapsed' = (lapsed \/ \A t \in current : th[t] = "leave")
               /\ UNCHANGED <<woken, threads>>
         /\ UNCHANGED <<cname, nreq, queue, waiting, waiters, rplex, closed>>

\* close() joins the threads that have registered, one by one; rplex then closes
\* the pipe, and joins the response thread.
AllJoined == current = {}
Join == /\ pc = "join"
        /\ AllJoined
        /\ pipe' = [pipe EXCEPT !.open = FALSE]
        /\ rt = "done"
           \/ pipe.open
        /\ pc' = IF rt = "done" THEN "ended" ELSE "join"
        /\ UNCHANGED <<cname, nreq, woken, threads, pool, cqueue, rt, resp, closed>>

-----------------------------------------------------------------------------
(* The threads.                                                            *)

Goes(t, st) == th' = [th EXCEPT ![t] = st]
Close(r) == closed' = [closed EXCEPT ![r] = @ + 1]

\* run() and handle1() as far as notify_all().
Register(t) == /\ th[t] = "starting"
               /\ Goes(t, IF cname = "pool" THEN "look" ELSE "run")
               /\ current' = current \cup {t}
               /\ woken' = TRUE
               /\ UNCHANGED <<cname, pc, nreq, serves, pool, rplex, closed>>

\* The request is handled, or an exception is raised in one of many places.
Work(t) == /\ th[t] = "run"
           /\ \/ /\ cname = "free"
                 /\ Goes(t, "leave")
                 /\ UNCHANGED <<serves, closed>>
              \/ /\ cname = "rplex"
                 /\ \E st \in {"iterator", "leave"} : Goes(t, st)
                 /\ UNCHANGED <<serves, closed>>
              \/ /\ cname = "pool"
                 /\ Goes(t, "look")
                 /\ Close(serves[t])
                 /\ serves' = [serves EXCEPT ![t] = 0]
           /\ UNCHANGED <<cname, pc, nreq, woken, current, pool, rplex>>

\* Mutant: the response thread is told first.
PutIter_TellsFirst(t) ==
  /\ \/ /\ th[t] = "iterator"
        /\ Goes(t, "write")
        /\ pipe' = [pipe EXCEPT !.n = @ + 1]
        /\ UNCHANGED <<cqueue, serves>>
     \/ /\ th[t] = "write"
        /\ Len(cqueue) < CqMax
        /\ Goes(t, "leave")
        /\ serves' = [serves EXCEPT ![t] = 0]
        /\ \E b \in Bodies : cqueue' = Append(cqueue, [req |-> serves[t], body |-> b])
        /\ UNCHANGED pipe
  /\ UNCHANGED <<cname, pc, nreq, woken, current, pool, rt, resp, closed>>

\* resplex.handle1(): cqueue.put(), which waits for room, and os.write().
PutIter(t) ==
  /\ \/ /\ th[t] = "iterator"
        /\ Len(cqueue) < CqMax
        /\ Goes(t, "write")
        /\ serves' = [serves EXCEPT ![t] = 0]
        /\ \E b \in Bodies : cqueue' = Append(cqueue, [req |-> serves[t], body |-> b])
        /\ UNCHANGED pipe
     \/ /\ th[t] = "write"
        /\ Goes(t, "leave")
        /\ pipe' = [pipe EXCEPT !.n = @ + 1]
        /\ UNCHANGED <<cqueue, serves>>
  /\ UNCHANGED <<cname, pc, nreq, woken, current, pool, rt, resp, closed>>

\* The end of a thread: out of `current', and then the request is closed.
Leave(t) == /\ th[t] = "leave"
            /\ Goes(t, IF serves[t] = 0 THEN "gone" ELSE "close")
            /\ current' = current \ {t}
            /\ woken' = (woken \/ cname # "pool")
            /\ UNCHANGED <<cname, pc, nreq, serves, pool, rplex, closed>>
CloseOwn(t) == /\ th[t] = "close"
               /\ Goes(t, "gone")
               /\ Close(serves[t])
               /\ serves' = [serves EXCEPT ![t] = 0]
               /\ UNCHANGED <<cname, pc, nreq, woken, current, pool, rplex>>

\* threadpool.run() under qlk: the first request, or a wait on qfcond.  Threads
\* over the limit may end here.
Look(t) == /\ th[t] = "look"
           /\ \/ /\ queue # <<>>
                 /\ serves' = [serves EXCEPT ![t] = Head(queue)]
                 /\ queue' = Tail(queue)
                 /\ woken' = (woken \/ pc = "qfull")
                 /\ Goes(t, "run")
                 /\ UNCHANGED <<waiting, waiters>>
              \/ /\ queue = <<>>
                 /\ Goes(t, "wait")
                 /\ waiting' = waiting \cup {t}
                 /\ waiters' = Append(waiters, t)
                 /\ UNCHANGED <<serves, queue, woken>>
              \/ /\ queue = <<>> /\ Cardinality(waiting) >= WaitLimit
                 /\ Goes(t, "leave")
                 /\ UNCHANGED <<serves, queue, waiting, waiters, woken>>
           /\ UNCHANGED <<cname, pc, nreq, current, lapsed, rplex, closed>>

\* Its wait() returns: it was notified, and looks again.
Wakes(t) == /\ th[t] = "wait" /\ t \notin Range(waiters)
            /\ Goes(t, "look")
            /\ waiting' = waiting \ {t}
            /\ UNCHANGED <<cname, pc, nreq, woken, serves, current, queue, waiters, lapsed, rplex, closed>>

\* Its 10 seconds run out; it may still be notified before it has the lock, and
\* leaves without a look at the queue.
Expires(t) == /\ th[t] = "wait"
              /\ Goes(t, "expired")
              /\ lapsed' = (lapsed \/ t \notin Range(waiters))
              /\ UNCHANGED <<cname, pc, nreq, woken, serves, current, queue, waiting, waiters, rplex, closed>>
GivesUp(t) == /\ th[t] = "expired"
              /\ Goes(t, "leave")
              /\ waiting' = waiting \ {t}
              /\ waiters' = RemoveFirst(waiters, t)
              /\ UNCHANGED <<cname, pc, nreq, woken, serves, current, queue, lapsed, rplex, closed>>

-----------------------------------------------------------------------------
(* resplex.handle2()                                                       *)

\* ckiter(): one more chunk of the response x.  At the end of the iterator the
\* head is sent, if no chunk was; nothing more is when the iterator raises.
Ckiter(x) ==
  IF x.over THEN x
  ELSE IF x.iter = <<>> THEN [x EXCEPT !.over = TRUE, !.head = TRUE, !.buf = IF x.head THEN @ ELSE @ + 1]
  ELSE IF Head(x.iter) = "raise" THEN [x EXCEPT !.over = TRUE]
  ELSE IF Head(x.iter) = "" THEN [x EXCEPT !.iter = Tail(@)]
  ELSE [x EXCEPT !.iter = Tail(@), !.head = TRUE, !.buf = IF x.head THEN @ + 1 ELSE @ + 2]

\* What becomes of the response to r, which is closed when all is sent.
Becomes(r, x) ==
  IF x.over /\ x.buf = 0
  THEN /\ Close(r)
       /\ resp' = [q \in DOMAIN resp \ {r} |-> resp[q]]
  ELSE /\ resp' = [q \in DOMAIN resp \cup {r} |-> IF q = r THEN x ELSE resp[q]]
       /\ UNCHANGED closed

\* select() shows that the pipe can be read; at its end the thread is over.
ReadPipe == /\ rt = "select"
            /\ \/ /\ pipe.n > 0
                  /\ pipe' = [pipe EXCEPT !.n = 0]
                  /\ rt' = "drain"
               \/ /\ pipe.n = 0 /\ ~pipe.open
                  /\ rt' = "done"
                  /\ UNCHANGED pipe
            /\ UNCHANGED <<cname, pc, nreq, woken, threads, pool, cqueue, resp, closed>>

Drain == /\ rt = "drain"
         /\ \/ /\ cqueue = <<>>
               /\ rt' = "select"
               /\ UNCHANGED <<cqueue, resp, closed>>
            \/ /\ cqueue # <<>>
               /\ cqueue' = Tail(cqueue)
               /\ LET new == [iter |-> Head(cqueue).body, over |-> FALSE, head |-> FALSE, buf |-> 0] IN
                    Becomes(Head(cqueue).req, Ckiter(new))
               /\ UNCHANGED rt
         /\ UNCHANGED <<cname, pc, nreq, woken, threads, pool, pipe>>

\* select() shows that r can be written to.  Its client may have gone.
Flush(r) == /\ rt = "select"
            /\ r \in DOMAIN resp /\ resp[r].buf > 0
            /\ \/ \E k \in 1 .. resp[r].buf :
                    LET sent == [resp[r] EXCEPT !.buf = @ - k] IN
                      Becomes(r, IF sent.buf < Mark THEN Ckiter(sent) ELSE sent)
               \/ Becomes(r, Ended)
            /\ UNCHANGED <<cname, pc, nreq, woken, threads, pool, cqueue, pipe, rt>>

-----------------------------------------------------------------------------
\* os.abort() ends all threads.
Up == pc # "aborted"
Thread(t) == Up /\ (\/ Register(t) \/ Work(t) \/ PutIter(t) \/ Leave(t) \/ CloseOwn(t)
                    \/ Look(t) \/ Wakes(t) \/ GivesUp(t))
Main == RunHere \/ Admit \/ Registered \/ Put \/ Spawn \/ Join
Response == ReadPipe \/ Drain \/ \E r \in Ids : Flush(r)   \* rplex does not abort
Next == \/ Recv \/ Eof \/ Abort \/ Main \/ Response
        \/ \E t \in Ids : Thread(t) \/ (Up /\ Expires(t))

\* Every thread goes on when it can; the applications end, and so do their
\* iterators, and clients receive or go.
Spec == Init /\ [][Next]_vars
FairSpec == /\ Spec
            /\ WF_vars(Main)
            /\ WF_vars(ReadPipe \/ Drain)
            /\ \A t \in Ids : WF_vars(Thread(t))
            /\ \A r \in Ids : SF_vars(Flush(r))
-----------------------------------------------------------------------------
(* Properties.                                                             *)

\* The requests that somebody is to close: a thread, the queue, or the response
\* thread.
Held(r) == \/ r = nreq /\ pc \in {"run", "admit", "full", "put", "qfull"}
           \/ \E t \in Ids : serves[t] = r
           \/ r \in Range(queue)
           \/ \E i \in DOMAIN cqueue : cqueue[i].req = r
           \/ r \in DOMAIN resp

\* doc/ashd-wsgi3.doc: "no more than that many request-handler threads will be
\* allowed to run at any one time"; and each request that came is either to be
\* closed by somebody or was closed once, whatever threads wait, wake and end.
Accounted ==
  /\ TypeOK
  /\ Cardinality({t \in Ids : th[t] \notin {"none", "close", "gone"}}) <= MaxThreads
  /\ Len(queue) <= QSize
  /\ Up => \A r \in 1 .. nreq : closed[r] = IF Held(r) THEN 0 ELSE 1

\* A response whose iterator gave an empty chunk, with nothing to be sent before
\* it: nothing asks for the next one.
Stalled(r) == r \in DOMAIN resp /\ resp[r].buf = 0

\* Every request that comes is closed, and so has its answer or none: but that
\* the pool may forget one when a notify() meets a thread whose time has run
\* out, and the response thread one that stalls; and of the requests to rplex that
\* are under way when close() closes the pipe, nothing is said.
Served == \A r \in Ids : (nreq >= r) ~> \/ closed[r] = 1
                                        \/ pc = "aborted" \/ lapsed
                                        \/ Stalled(r) \/ ~pipe.open
=============================================================================
