----------------------------- MODULE MtioEpoll -----------------------------
(***************************************************************************)
(* The event loop of lib/mtio-epoll.c, and arbitrary muths that wait in it *)
(* with block() and mblock().                                              *)
(*                                                                         *)
(* A waiting muth owns one `struct blocker' per file descriptor it waits   *)
(* for, on its own stack: when it goes on, they are gone.  Every blocker   *)
(* is in the list `blockers', in the list fdlist[fd] of its descriptor and *)
(* in the heap of timeouts if it has one, while ioloop() walks these lists *)
(* and resumes muths in the middle of its walks.                           *)
(*                                                                         *)
(* A blocker is named <<m, i>>: the i-th of the muth m.  A list is the     *)
(* sequence of its blockers, head first; the `n' or `n2' of a blocker is   *)
(* the one after it.                                                       *)
(***************************************************************************)
EXTENDS Mt, Integers, Sequences, FiniteSets, Functions, TimeHeap

CONSTANTS Fd,         \* descriptors that epoll can watch
          BadFd,      \* descriptors that epoll_ctl() refuses
          Specs,      \* the sequences of [fd, ev] that mblock() is called with
          Timeouts,   \* the `to' arguments of block() and mblock()
          Lone,       \* muths that other code resumes: each waits on a descriptor
                      \* of its own (the listeners of htparser)
          MaxNow,     \* bound on the clock
          MaxCalls,   \* bound on the calls of block() and mblock()
          MaxLoops    \* bound on the calls of ioloop()

NoFd == -1
Ev == {"r", "w"}

\* block() has one descriptor or none, and mblock(), of passduplex(), up to two
\* that are not the same.
MtioEpollAssumption ==
  /\ Fd \cup BadFd \subseteq Nat /\ Fd \cap BadFd = {}
  /\ Specs \subseteq Seq([fd : Fd \cup BadFd \cup {NoFd}, ev : SUBSET Ev])
  /\ \A spec \in Specs : Len(spec) < 2 \/ (Len(spec) = 2 /\ spec[1].fd # spec[2].fd)
  /\ Timeouts \subseteq Nat
  /\ Lone \subseteq Muth
  /\ MaxNow \in Nat /\ MaxCalls \in Nat /\ MaxLoops \in Nat
ASSUME MtioEpollAssumption

Ref == Muth \X {0, 1}
NoRef == <<>>

VARIABLES blockers,   \* the list of all blockers
          bl,         \* what the blockers of a muth hold: a function of their i
          to,         \* the `to' of a muth's blockers, 0 for none
          fdlist,     \* fd -> the list of its blockers
          reg,        \* the blockers whose `reg' is set
          heap,       \* timeheap
          interest,   \* fd -> the events epoll watches it for; {} when not added
          epfd,       \* epfd >= 0
          exitstatus,
          now,        \* time(NULL)
          at,         \* where ioloop() is
          cur,        \* its `nbl'
          evr,        \* the rest of the batch of events, the current one first
          deadline,   \* when epoll_wait() gives up, NoFd for never
          tnow,       \* its `now' in the loop over timeouts
          place,      \* where each muth is
          stale,      \* a walk's `nbl' points to a blocker that is gone
          calls, loops

lists == <<blockers, bl, to, fdlist, reg, heap, interest>>
loopvars == <<epfd, at, cur, evr, deadline, tnow>>
evars == <<lists, loopvars, exitstatus, now, place, stale, calls, loops>>
iovars == <<mtvars, evars>>

MuthPlaces == {"unborn", "own", "blocked", "ended"}

\* The type invariant of the event loop.
IoTypeOK == /\ MtTypeOK
            /\ blockers \in Seq(Ref)
            /\ \A m \in Muth : DOMAIN bl[m] \subseteq {0, 1}
            /\ to \in [Muth -> 0 .. MaxNow]
            /\ fdlist \in [Fd -> Seq(Ref)]
            /\ reg \subseteq Ref
            /\ interest \in [Fd -> SUBSET Ev]
            /\ epfd \in BOOLEAN
            /\ at \in {"out", "reg", "top", "wait", "events", "times"}
            /\ cur \in Ref \cup {NoRef}
            /\ deadline \in {NoFd} \cup 0 .. MaxNow + 1
            /\ place \in [Muth -> MuthPlaces]

IoInit == /\ MtInit
          /\ blockers = <<>>
          /\ bl = [m \in Muth |-> <<>>]
          /\ to = [m \in Muth |-> 0]
          /\ fdlist = [f \in Fd |-> <<>>]
          /\ reg = {}
          /\ heap = EmptyHeap(Ref)
          /\ interest = [f \in Fd |-> {}]
          /\ epfd = FALSE
          /\ exitstatus = 0
          /\ now = 0
          /\ at = "out"
          /\ cur = NoRef
          /\ evr = <<>>
          /\ deadline = NoFd
          /\ tnow = 0
          /\ place = [m \in Muth |-> "unborn"]
          /\ stale = FALSE
          /\ calls = 0
          /\ loops = 0

-----------------------------------------------------------------------------
(* The lists.                                                              *)

Blocker(r) == bl[r[1]][r[2]]
Head0(s) == IF s = <<>> THEN NoRef ELSE Head(s)

\* Mutant: the next blocker is found from the one just handled.
After_Late(s, r) == r

\* The element after r in a list, NULL after the last.
After(s, r) == LET k == CHOOSE k \in DOMAIN s : s[k] = r IN
                 IF k = Len(s) THEN NoRef ELSE s[k + 1]

\* A list without some blockers.
Without(s, refs) ==
  LET Kept[k \in 0 .. Len(s)] == IF k = 0 THEN <<>>
                                 ELSE IF s[k] \in refs THEN Kept[k - 1]
                                 ELSE Append(Kept[k - 1], s[k])
  IN  Kept[Len(s)]

\* The events that the blockers in a list of a descriptor wait for.
Wanted(s) == UNION {Blocker(s[k]).ev : k \in DOMAIN s}

\* regfd(), for a descriptor that epoll_ctl() takes: to the head of the list.
RegFd(r) ==
  LET f == Blocker(r).fd IN
    IF f = NoFd THEN UNCHANGED <<fdlist, interest, reg>>
    ELSE /\ fdlist' = [fdlist EXCEPT ![f] = <<r>> \o @]
         /\ interest' = [interest EXCEPT ![f] = Blocker(r).ev \cup Wanted(fdlist[f])]
         /\ reg' = reg \cup {r}

\* Mutant: epoll goes on watching for what was waited for.
RemFds_KeepInterest(refs) ==
  /\ fdlist' = [f \in Fd |-> Without(fdlist[f], refs)]
  /\ reg' = reg \ refs
  /\ UNCHANGED interest

\* remfd() of each of some blockers: out of the list of its descriptor, which
\* is watched from then on for what the rest of the list waits for.
RemFds(refs) ==
  LET gone == refs \cap reg
      touched == {Blocker(r).fd : r \in gone}
      rest == [f \in Fd |-> Without(fdlist[f], gone)]
  IN  /\ fdlist' = rest
      /\ interest' = [f \in Fd |-> IF f \in touched THEN Wanted(rest[f]) ELSE interest[f]]
      /\ reg' = reg \ gone

\* addblock() of each of the blockers of m, made from spec, with the time t.
AddBlocks(m, spec, t) ==
  LET new == [k \in DOMAIN spec |-> <<m, Len(spec) - k>>]       \* the last comes first
      evOf(r) == spec[r[2] + 1].ev
      on(f) == Without(new, {r \in Range(new) : spec[r[2] + 1].fd # f})
      add(H, i) == IF i < Len(spec) THEN ThAdd(H, [el |-> <<m, i>>, tm |-> t]) ELSE H
  IN  /\ blockers' = new \o blockers
      /\ bl' = [bl EXCEPT ![m] = [i \in 0 .. Len(spec) - 1 |-> spec[i + 1]]]
      /\ to' = [to EXCEPT ![m] = IF spec = <<>> THEN 0 ELSE t]
      /\ heap' = IF t = 0 THEN heap ELSE add(add(heap, 0), 1)
      /\ IF ~epfd THEN UNCHANGED <<fdlist, interest, reg>>
         ELSE /\ fdlist' = [f \in Fd |-> on(f) \o fdlist[f]]
              /\ interest' = [f \in Fd |->
                   IF on(f) = <<>> THEN interest[f]
                   ELSE (UNION {evOf(r) : r \in Range(on(f))}) \cup Wanted(fdlist[f])]
              /\ reg' = reg \cup UNION {Range(on(f)) : f \in Fd}

\* remblock() of each of the blockers of m.
RemBlocks(m) ==
  LET mine == {<<m, i>> : i \in DOMAIN bl[m]}
      del(H, i) == IF i \in DOMAIN bl[m] THEN ThDel(H, <<m, i>>) ELSE H
  IN
    /\ blockers' = Without(blockers, mine)
    /\ bl' = [bl EXCEPT ![m] = <<>>]
    /\ to' = [to EXCEPT ![m] = 0]
    /\ heap' = IF to[m] = 0 THEN heap ELSE del(del(heap, 0), 1)
    /\ RemFds(mine)

-----------------------------------------------------------------------------
(* The muths.  What block() and mblock() return is left out: the code that *)
(* calls them may do anything.                                             *)

RunsOwn(m) == current = m /\ place[m] = "own"
UserCodeRuns == IF current = NULL THEN at = "out" ELSE place[current] = "own"

Refused(spec) == \E k \in DOMAIN spec : spec[k].fd \in BadFd

\* block() and mblock() as far as the yield().  The code that calls them keeps
\* to this: a lone muth shares its descriptor with nobody; a descriptor that
\* epoll refuses is waited for alone, and only before ioloop() runs (inside it,
\* the call takes back what it has added and returns -1 at once: no change).
Block(m) ==
  /\ RunsOwn(m)
  /\ calls < MaxCalls
  /\ calls' = calls + 1
  /\ \E spec \in Specs, t \in Timeouts :
       /\ t > 0 => now + t <= MaxNow
       /\ t = 0 => \A k \in DOMAIN spec : spec[k].fd # NoFd
       /\ m \in Lone => Len(spec) = 1
       /\ \A k \in DOMAIN spec : \A r \in Range(blockers) :
            (spec[k].fd # NoFd /\ spec[k].fd = Blocker(r).fd) => {m, r[1]} \cap Lone = {}
       /\ ~(epfd /\ Refused(spec))
       /\ Refused(spec) => Len(spec) = 1
       /\ AddBlocks(m, spec, IF t > 0 THEN now + t ELSE 0)
  /\ place' = [place EXCEPT ![m] = "blocked"]
  /\ Yield
  /\ UNCHANGED <<loopvars, exitstatus, now, stale, loops>>

\* block() and mblock() after the yield().
Unblock(m) ==
  /\ current = m
  /\ place[m] = "blocked"
  /\ place' = [place EXCEPT ![m] = "own"]
  /\ RemBlocks(m)
  /\ stale' = (stale \/ (cur # NoRef /\ cur[1] = m))
  /\ GoOn
  /\ UNCHANGED <<loopvars, exitstatus, now, calls, loops>>

StartMuth(m) == /\ UserCodeRuns
                /\ place[m] = "unborn"
                /\ place' = [place EXCEPT ![m] = "own"]
                /\ MuStart(m)
                /\ UNCHANGED <<lists, loopvars, exitstatus, now, stale, calls, loops>>

EndMuth(m) == /\ RunsOwn(m)
              /\ place' = [place EXCEPT ![m] = "ended"]
              /\ Return
              /\ UNCHANGED <<lists, loopvars, exitstatus, now, stale, calls, loops>>

\* Code that resumes a listener out of its block(), as plexwatch() and main()
\* of htparser do.
ResumeLone(m) == /\ UserCodeRuns
                 /\ at # "reg"
                 /\ m \in Lone
                 /\ place[m] = "blocked"
                 /\ Resume(m)
                 /\ UNCHANGED <<lists, loopvars, exitstatus, now, place, stale, calls, loops>>

-----------------------------------------------------------------------------
(* ioloop().  It runs in the main context.                                 *)

InLoop(where) == current = NULL /\ at = where /\ ~stale

\* exitstatus = 0; epoll_create(); and the head of the list to register.
Enter == /\ current = NULL
         /\ at = "out"
         /\ loops < MaxLoops
         /\ loops' = loops + 1
         /\ exitstatus' = 0
         /\ epfd' = TRUE
         /\ at' = "reg"
         /\ cur' = Head0(blockers)
         /\ GoOn
         /\ UNCHANGED <<lists, evr, deadline, tnow, now, place, stale, calls>>

\* regfd(bl), or resume(bl->th, -1) when it fails; nbl was read before.
Register == /\ InLoop("reg")
            /\ cur \in Range(blockers)
            /\ cur' = After(blockers, cur)
            /\ \/ /\ Blocker(cur).fd \notin BadFd
                  /\ RegFd(cur)
                  /\ UNCHANGED <<blockers, bl, to, heap>>
                  /\ GoOn
               \/ /\ Blocker(cur).fd \in BadFd
                  /\ Resume(cur[1])
                  /\ UNCHANGED lists
            /\ UNCHANGED <<epfd, at, evr, deadline, tnow, exitstatus, now, place, stale, calls, loops>>

Registered == /\ InLoop("reg")
              /\ cur = NoRef
              /\ at' = "top"
              /\ GoOn
              /\ UNCHANGED <<lists, epfd, cur, evr, deadline, tnow, exitstatus, now, place,
                             stale, calls, loops>>

\* When epoll_wait() has to give up: at the first timeout, or in a second when
\* that is over already (a signal comes before the loop over the timeouts).
\* Mutant: no limit then.
WaitUntil_Ahead == IF Size(heap) > 0 /\ Top(heap).tm > now THEN Top(heap).tm ELSE NoFd
WaitUntil == IF Size(heap) = 0 THEN NoFd
             ELSE IF Top(heap).tm > now THEN Top(heap).tm
             ELSE IF now < MaxNow + 1 THEN now + 1 ELSE now

\* The head of the while loop: toval, and whether to stop.
Prepare == /\ InLoop("top")
           /\ blockers # <<>>
           /\ exitstatus = 0
           /\ at' = "wait"
           /\ deadline' = WaitUntil
           /\ GoOn
           /\ UNCHANGED <<lists, epfd, cur, evr, tnow, exitstatus, now, place, stale, calls, loops>>

\* After the loop: remfd() of everything, close(epfd), and the return.
Leave == /\ InLoop("top")
         /\ blockers = <<>> \/ exitstatus # 0
         /\ at' = "out"
         /\ epfd' = FALSE
         /\ RemFds(Range(blockers))
         /\ UNCHANGED <<blockers, bl, to, heap>>
         /\ GoOn
         /\ UNCHANGED <<cur, evr, deadline, tnow, exitstatus, now, place, stale, calls, loops>>

\* What epoll_wait() may report: one or two descriptors, each with a part of
\* what it is watched for or with an error or hang-up (ev = -1), which concerns
\* every blocker and is modelled by both events.  In the first event, whose
\* blockers are those that are watched, it is the same as all that is watched.
Parts(f) == (SUBSET interest[f]) \ {{}}
Firsts == UNION {{[fd |-> f, ev |-> e] : e \in Parts(f)} : f \in Fd}
Seconds == UNION {{[fd |-> f, ev |-> e] : e \in Parts(f) \cup {Ev}}
                    : f \in {g \in Fd : fdlist[g] # <<>>}}
Batches == {<<e>> : e \in Firsts}
             \cup {b \in Firsts \X Seconds : b[1].fd # b[2].fd}

WaitEvents == /\ InLoop("wait")
              /\ \E b \in Batches :
                   /\ evr' = b
                   /\ cur' = Head0(fdlist[b[1].fd])
              /\ at' = "events"
              /\ deadline' = NoFd
              /\ GoOn
              /\ UNCHANGED <<lists, epfd, tnow, exitstatus, now, place, stale,
                             calls, loops>>

\* epoll_wait() returns 0.
WaitTimesOut == /\ InLoop("wait")
                /\ deadline # NoFd
                /\ now >= deadline
                /\ at' = "times"
                /\ tnow' = now
                /\ deadline' = NoFd
                /\ GoOn
                /\ UNCHANGED <<lists, epfd, cur, evr, exitstatus, now, place, stale,
                               calls, loops>>

\* epoll_wait() is interrupted by a signal handler, which calls exitioloop().
WaitInterrupted == /\ InLoop("wait")
                   /\ exitstatus' = 1
                   /\ at' = "top"
                   /\ deadline' = NoFd
                   /\ GoOn
                   /\ UNCHANGED <<lists, epfd, cur, evr, tnow, now, place, stale,
                                  calls, loops>>

\* ev & bl->ev, or ev < 0; a report of both events stands for either.
Concerns(e, b) == e.ev \cap b.ev # {}

\* One blocker of the descriptor whose event is handled; nbl is read before
\* the muth is resumed.
Dispatch == /\ InLoop("events")
            /\ evr # <<>>
            /\ cur \in Range(fdlist[Head(evr).fd])
            /\ cur' = After(fdlist[Head(evr).fd], cur)
            /\ \/ /\ Concerns(Head(evr), Blocker(cur))
                  /\ Resume(cur[1])
               \/ /\ ~Concerns(Head(evr), Blocker(cur))
                  /\ GoOn
            /\ UNCHANGED <<lists, epfd, at, evr, deadline, tnow, exitstatus, now, place, stale,
                           calls, loops>>

\* The next event of the batch: fdlist[fd] is read only now.
NextEvent == /\ InLoop("events")
             /\ cur = NoRef
             /\ evr # <<>>
             /\ evr' = Tail(evr)
             /\ cur' = IF Len(evr) > 1 THEN Head0(fdlist[evr[2].fd]) ELSE NoRef
             /\ IF Len(evr) > 1
                THEN UNCHANGED <<at, tnow>>
                ELSE at' = "times" /\ tnow' = now
             /\ GoOn
             /\ UNCHANGED <<lists, epfd, deadline, exitstatus, now, place, stale, calls, loops>>

\* One turn of the loop over the timeouts.
Expire == /\ InLoop("times")
          /\ Size(heap) > 0
          /\ Top(heap).tm <= tnow
          /\ Resume(Top(heap).el[1])
          /\ UNCHANGED <<lists, loopvars, exitstatus, now, place, stale, calls, loops>>

NoneExpired == /\ InLoop("times")
               /\ Size(heap) > 0 => Top(heap).tm > tnow
               /\ at' = "top"
               /\ tnow' = 0
               /\ GoOn
               /\ UNCHANGED <<lists, epfd, cur, evr, deadline, exitstatus, now, place,
                              stale, calls, loops>>

\* The clock advances while the main context runs: a muth reads it once, in the
\* call that makes it wait.
Tick == /\ current = NULL
        /\ at \in {"out", "wait"}
        /\ now < MaxNow + 1
        /\ now' = now + 1
        /\ GoOn
        /\ UNCHANGED <<lists, loopvars, exitstatus, place, stale, calls, loops>>

Ioloop == \/ Register \/ Registered \/ Prepare \/ Leave \/ WaitTimesOut
          \/ Dispatch \/ NextEvent \/ Expire \/ NoneExpired

UserCode(m) == Block(m) \/ Unblock(m) \/ EndMuth(m)

IoNext == \/ Enter \/ Ioloop \/ WaitEvents \/ WaitInterrupted \/ Tick
          \/ \E m \in Muth : UserCode(m) \/ StartMuth(m) \/ ResumeLone(m)

IoSpec == IoInit /\ [][IoNext]_iovars

\* The one thread goes on: ioloop() takes its next step, main() calls it again,
\* and a muth that runs comes back from its own code.  And time passes.
Onwards == Ioloop \/ Enter \/ \E m \in Muth : Unblock(m) \/ EndMuth(m)

FairSpec == IoSpec /\ WF_iovars(Onwards) /\ WF_iovars(Tick)

-----------------------------------------------------------------------------
(* Properties.                                                             *)

\* The blockers of a muth are in the lists exactly while it waits, and epoll
\* watches every descriptor for exactly what is waited for on it: no order of
\* waits, resumes, timeouts and returns of ioloop() leaves a muth that epoll
\* would never wake, or a list with a blocker whose muth has gone on.
Live == {r \in Ref : place[r[1]] = "blocked" /\ r[2] \in DOMAIN bl[r[1]]}
Watched(f) == {r \in Live : r \in reg /\ Blocker(r).fd = f}
ListsAgree ==
  /\ IoTypeOK
  /\ IsInjective(blockers) /\ Range(blockers) = Live
  /\ \A f \in Fd : /\ IsInjective(fdlist[f]) /\ Range(fdlist[f]) = Watched(f)
                   /\ epfd => interest[f] = UNION {Blocker(r).ev : r \in Watched(f)}
  /\ epfd /\ at # "reg" => \A r \in Live : Blocker(r).fd # NoFd => r \in reg
  /\ ~epfd => \A r \in Live : ~r \in reg

\* The heap holds exactly the blockers with a timeout, ordered, whatever order
\* addtimeout() and deltimeout() came in.
TimeoutsOrdered ==
  /\ HeapOrdered(heap)
  /\ {heap.b[n].el : n \in DOMAIN heap.b} = {r \in Live : to[r[1]] > 0}
  /\ \A n \in DOMAIN heap.b : heap.b[n].tm = to[heap.b[n].el[1]]

\* ioloop() never resumes a muth that has not yielded, and no walk over a list
\* goes on from a blocker whose muth was resumed meanwhile and has left it.
WalksSafe == ~aborted /\ ~stale

\* No muth whose timeout is over goes on waiting for ever inside ioloop(), but
\* one that called mblock() with no descriptor, and so has no blocker.
Overdue == epfd /\ \E m \in Muth : place[m] = "blocked" /\ to[m] > 0 /\ to[m] <= now
TimeoutsFire == Overdue ~> ~Overdue
=============================================================================
