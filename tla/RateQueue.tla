----------------------------- MODULE RateQueue -----------------------------
(***************************************************************************)
(* src/ratequeue.c: the leaky buckets, the heap of the times at which each *)
(* has to be looked at again, and the main loop.                           *)
(*                                                                         *)
(* Time and levels are integers: a request raises a level by Unit, and a   *)
(* time that the code computes as a fraction is rounded up, as the clock   *)
(* it is compared with is whole.  The static `now' is not a variable: every*)
(* step that uses it has read the clock first.  A request is the pair of   *)
(* its number and its source.                                              *)
(***************************************************************************)
EXTENDS SourceTable, TimeHeap, Sequences, Functions

CONSTANTS Unit,        \* what one request adds to a level
          Confs,       \* the configurations that may be read: [size, rate, brimsize]
          Retain,      \* cf.retain
          WarnRate,    \* cf.warnrate
          Lag,         \* ticks between the last look at the heap and poll()
          MaxReq,      \* bound on the requests
          LastArrival, \* bound on the times of requests and signals
          MaxClock,    \* bound on the clock
          MaxHups      \* bound on the SIGHUPs

ASSUME RateAssumption ==
  /\ {Unit, Retain, WarnRate} \subseteq Nat \ {0}
  /\ {Lag, MaxReq, LastArrival, MaxClock, MaxHups} \subseteq Nat
  /\ \A c \in Confs : {c.size, c.rate} \subseteq Nat \ {0} /\ c.brimsize \in Nat

Never == -1

VARIABLES cf, reload,
          table,      \* size and buckets
          bk,         \* the bucket of every source in the table
          timeheap,   \* timeheap, with the thpos of every bucket
          clock,      \* the time that rtime() would return
          phase,      \* "top", "poll", "due", "ended"
          wait,       \* when the poll() times out that is called, Never
          lag,        \* ticks since the last look at the heap, before poll()
          nreq,       \* the requests so far
          fwd,        \* history: the requests passed to the child, in order
          refused,    \* history: the requests answered with 429
          hups

store == <<table, bk, timeheap>>
hist == <<nreq, fwd, refused>>
rqvars == <<cf, reload, store, clock, phase, wait, lag, hist, hups>>

Request == (1 .. MaxReq) \X Source

\* The type invariant.
RqTypeOK == /\ cf \in Confs
            /\ reload \in BOOLEAN
            /\ table.size \in Nat
            /\ \A s \in DOMAIN bk :
                 /\ bk[s].level \in Nat
                 /\ {bk[s].last, bk[s].etime, bk[s].wtime} \subseteq 0 .. clock
                 /\ bk[s].blocked \in -1 .. MaxReq
                 /\ bk[s].brim \in Seq(Request)
            /\ clock \in 0 .. MaxClock
            /\ phase \in {"top", "poll", "due", "ended"}
            /\ wait \in {Never} \cup Nat
            /\ lag \in 0 .. Lag
            /\ fwd \in Seq(Request)
            /\ refused \subseteq Request

RqInit == /\ cf \in Confs
          /\ reload = FALSE
          /\ table = EmptyTable
          /\ bk = [s \in {} |-> 0]
          /\ timeheap = EmptyHeap(Source)
          /\ clock = 0
          /\ lag = 0
          /\ phase = "top"
          /\ wait = Never
          /\ nreq = 0
          /\ fwd = <<>>
          /\ refused = {}
          /\ hups = 0

-----------------------------------------------------------------------------
(* The buckets.                                                            *)

Least(S) == CHOOSE x \in S : \A y \in S : x <= y
Greatest(S) == CHOOSE x \in S : \A y \in S : x >= y

\* x / cf.rate, rounded up.
AtRate(x) == -((-x) \div cf.rate)

\* The bucket that hashget() makes.
NewBucket(t) == [level |-> 0, last |-> t, etime |-> t, wtime |-> 0, brim |-> <<>>, blocked |-> -1]

\* Mutant: `last' stays, so that it leaks again.
Leaked_Again(b, t) == [b EXCEPT !.level = Greatest({@ - (t - b.last) * cf.rate, 0})]

\* tickbucket() at the time t, up to the loop that sends.
Leaked(b, t) ==
  LET l == b.level - (t - b.last) * cf.rate IN
    [b EXCEPT !.last = t,
              !.level = Greatest({l, 0}),
              !.etime = IF l < 0 /\ b.level > 0 THEN t - (-l) \div cf.rate ELSE @]

\* How many that loop sends.
Sends(b) == IF b.level >= cf.size THEN 0
            ELSE Least({Len(b.brim), -((b.level - cf.size) \div Unit)})

\* tickbucket() at the time t, and the requests that it sends.
Sent(b, t) == SubSeq(b.brim, 1, Sends(Leaked(b, t)))
Ticked(b, t) ==
  LET l == Leaked(b, t)
      warn == b.blocked > 0 /\ t - b.wtime >= WarnRate
  IN  [l EXCEPT !.level = @ + Unit * Sends(l),
                !.brim = SubSeq(@, Sends(l) + 1, Len(@)),
                !.blocked = IF warn THEN 0 ELSE @,
                !.wtime = IF warn THEN t ELSE @]

\* The time that updbtime() computes.
BTime(b) ==
  LET empty == IF b.level = 0 THEN b.etime + Retain ELSE b.last + AtRate(b.level) + Retain
      warn == b.wtime + WarnRate
      idle == IF b.blocked > 0 THEN Greatest({empty, warn}) ELSE empty
  IN  Least({idle} \cup (IF b.brim # <<>> THEN {b.last + AtRate(b.level - cf.size)} ELSE {})
                   \cup (IF b.blocked > 0 THEN {warn} ELSE {}))

\* updbtime() of the bucket b of s.
UpdTime(s, b) == LET x == [el |-> s, tm |-> BTime(b)] IN
                   IF timeheap.pos[s] < 0 THEN ThAdd(timeheap, x) ELSE ThAdjust(timeheap, x, timeheap.pos[s])

\* What sendreq() passes to the child.
Forward(reqs) == fwd' = fwd \o reqs

-----------------------------------------------------------------------------
(* The main loop.                                                          *)

\* The bucket b of s as a call leaves it, and its place in the heap.
Keep(s, b) == /\ bk' = [o \in DOMAIN bk \cup {s} |-> IF o = s THEN b ELSE bk[o]]
              /\ timeheap' = UpdTime(s, b)

\* serve() from tickbucket() on, for a bucket that hashget() returned.
Admit(found, r) ==
  LET b == Ticked(found, clock)
      before == Sent(found, clock)
  IN  \/ /\ b.level < cf.size
         /\ Keep(r[2], [b EXCEPT !.level = @ + Unit])
         /\ Forward(Append(before, r))
         /\ UNCHANGED refused
      \/ /\ b.level >= cf.size
         /\ Len(b.brim) < cf.brimsize
         /\ Keep(r[2], [b EXCEPT !.brim = Append(@, r)])
         /\ Forward(before)
         /\ UNCHANGED refused
      \/ /\ b.level >= cf.size
         /\ Len(b.brim) >= cf.brimsize
         /\ Keep(r[2], IF b.blocked < 0 THEN [b EXCEPT !.blocked = 1, !.wtime = clock]
                                        ELSE [b EXCEPT !.blocked = @ + 1])
         /\ Forward(before)
         /\ refused' = refused \cup {r}

\* recvreq() and serve()
ServeReq(s) == /\ phase = "poll"
               /\ nreq < MaxReq
               /\ clock <= LastArrival
               /\ nreq' = nreq + 1
               /\ table' = HashGet(table, s)
               /\ Admit(IF s \in DOMAIN bk THEN bk[s] ELSE NewBucket(clock), <<nreq + 1, s>>)
               /\ phase' = "due"
               /\ wait' = Never
               /\ UNCHANGED <<cf, reload, clock, lag, hups>>

\* When poll() has to give up.  It is called with 0.1 s more than the time up to
\* then: a time that lies a tick or more back is negative, and means for ever.
\* Mutant: without the 0.1 s.
Soonest == Top(timeheap)
PollUntil_Exact == IF Size(timeheap) = 0 \/ Soonest.tm <= clock THEN Never ELSE Soonest.tm
PollUntil == IF Size(timeheap) = 0 \/ Soonest.tm < clock THEN Never ELSE Soonest.tm

\* The head of the loop: another configuration, and the timeout of poll().
LoopHead == /\ phase = "top"
            /\ IF reload THEN cf' \in Confs ELSE UNCHANGED cf
            /\ reload' = FALSE
            /\ lag' = 0
            /\ wait' = PollUntil
            /\ phase' = "poll"
            /\ UNCHANGED <<store, clock, hist, hups>>

\* poll() returns 0.
TimesOut == /\ phase = "poll"
            /\ wait # Never
            /\ clock >= wait
            /\ phase' = "due"
            /\ wait' = Never
            /\ UNCHANGED <<cf, reload, store, clock, lag, hist, hups>>

\* The loop over the heap goes on while its top is due.
Due == phase = "due" /\ Size(timeheap) > 0 /\ clock >= Soonest.tm

\* What makes checkbtime() free a bucket.
Idle(b) == b.level = 0 /\ clock >= b.etime + Retain /\ b.blocked <= 0

\* One turn of that loop: checkbtime() of the top.
Check == LET s == Soonest.el
             b == Ticked(bk[s], clock)
         IN  /\ Due
             /\ Forward(Sent(bk[s], clock))
             /\ IF Idle(b)
                THEN /\ table' = HashDel(table, s)                    \* freebucket()
                     /\ timeheap' = ThDel(timeheap, s)
                     /\ bk' = [o \in DOMAIN bk \ {s} |-> bk[o]]
                ELSE Keep(s, b) /\ UNCHANGED table
             /\ UNCHANGED <<cf, reload, clock, phase, wait, lag, nreq, refused, hups>>

NoneDue == /\ phase = "due"
           /\ ~Due
           /\ phase' = "top"
           /\ UNCHANGED <<cf, reload, store, clock, wait, lag, hist, hups>>

\* End-of-file, or sendreq() fails: the program ends and drops what waits.
Exit == /\ \/ phase = "poll"
           \/ Due /\ Sent(bk[Soonest.el], clock) # <<>>
        /\ clock <= LastArrival
        /\ phase' = "ended"
        /\ wait' = Never
        /\ UNCHANGED <<cf, reload, store, clock, lag, hist, hups>>

\* huphandler(), which also interrupts poll().
Hup == /\ phase # "ended"
       /\ hups < MaxHups
       /\ clock <= LastArrival
       /\ hups' = hups + 1
       /\ reload' = TRUE
       /\ phase' = IF phase = "poll" THEN "due" ELSE phase
       /\ wait' = Never
       /\ UNCHANGED <<cf, store, clock, lag, hist>>

\* A turn of the loop takes no time, except that up to Lag ticks may pass
\* between the last look at the heap and poll(); and a bucket that is exactly
\* full is looked at again and again until it is not.
RqTick == /\ clock < MaxClock
          /\ \/ phase = "poll" /\ (wait # Never => clock < wait) /\ lag' = lag
             \/ phase = "top" /\ lag < Lag /\ lag' = lag + 1
             \/ Due /\ bk[Soonest.el].last = clock /\ lag' = lag
          /\ clock' = clock + 1
          /\ UNCHANGED <<cf, reload, store, phase, wait, hist, hups>>

Loop == LoopHead \/ TimesOut \/ Check \/ NoneDue

RqNext == Loop \/ Exit \/ Hup \/ RqTick \/ \E s \in Source : ServeReq(s)

RqSpec == RqInit /\ [][RqNext]_rqvars

\* The program runs, and time passes.
RqFairSpec == RqSpec /\ WF_rqvars(Loop) /\ WF_rqvars(RqTick)

-----------------------------------------------------------------------------
(* Properties.                                                             *)

Waiting(s) == IF s \in DOMAIN bk THEN bk[s].brim ELSE <<>>
AllWaiting == UNION {Range(Waiting(s)) : s \in Source}

\* The table, the heap and the buckets agree: the assertions of hashdel() hold,
\* every thpos is right, and every bucket is looked at again at the time that
\* updbtime() gave it, whatever order buckets come and go in.
StoreAgrees ==
  /\ RqTypeOK
  /\ TableOK(table)
  /\ Held(table) = DOMAIN bk
  /\ HeapOrdered(timeheap)
  /\ {timeheap.b[n].el : n \in DOMAIN timeheap.b} = DOMAIN bk

\* What waits is passed on, unless the program ends.
Answered == AllWaiting # {} ~> AllWaiting = {} \/ phase = "ended"

\* The program is a leaky bucket for every source, though it keeps a bucket
\* only while there is something to remember and lets it leak when it looks.
LevelNow(s) == IF s \in DOMAIN bk
               THEN Greatest({bk[s].level - (clock - bk[s].last) * cf.rate, 0})
               ELSE 0
Bucket == INSTANCE LeakyBucket WITH lev <- [s \in Source |-> LevelNow(s)],
                                    queue <- [s \in Source |-> Waiting(s)]
BucketSpec == Bucket!Spec
=============================================================================
