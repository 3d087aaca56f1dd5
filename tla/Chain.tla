------------------------------- MODULE Chain -------------------------------
(***************************************************************************)
(* Handlers in a chain, as stdmkchild() of lib/proc.c makes it: httimed or *)
(* accesslog [-e] passes requests to `httrcall -l LIMIT PROGRAM', which    *)
(* runs a transient handler for each.                                      *)
(*                                                                         *)
(* "front" is the socket that the first of them reads, "back" that of      *)
(* httrcall.                                                               *)
(***************************************************************************)
EXTENDS Integers, FiniteSets, ReqSock

CONSTANTS Reqs, None, Limit, Timeout, MaxFile,
          MaxEvents \* bound on what happens from outside: requests, SIGHUPs, a kill, changes of the log file

ASSUME ChainAssumption == /\ None \notin Reqs /\ IsFiniteSet(Reqs)
                          /\ {Limit, Timeout, MaxEvents} \subseteq Nat
                          /\ {Room, MaxFile} \subseteq Nat \ {0}

VARIABLES first,                \* the program that is before httrcall
          sock, fate,
          tm,                   \* httimed
          al, fs, logged, fr,   \* accesslog
          rc, kids,             \* httrcall
          events

T == INSTANCE HtTimed WITH In <- "front", Ch <- "back"
A == INSTANCE AccessLog WITH In <- "front", Ch <- "back"
R == INSTANCE HtRcall WITH Src <- "back"

timed == tm
access == <<al, fs, logged, fr>>
rcall == <<rc, kids>>
vars == <<first, sock, fate, timed, access, rcall, events>>

Init == /\ sock = [s \in {"front", "back"} |-> Open]
        /\ fate = [r \in Reqs |-> "new"]
        /\ \/ first = "httimed" /\ T!HtTimedInit("loop") /\ A!NoAccessLog(Reqs)
           \/ first = "accesslog" /\ T!HtTimedInit("ended") /\ A!AccessLogInit(Reqs)
        /\ R!HtRcallInit(Reqs)
        /\ events = 0

Event == events < MaxEvents /\ events' = events + 1

\* External: the program before httimed gives it requests, and closes its end.
Send(r) == /\ fate[r] = "new" /\ sock["front"].snd /\ Fits(sock["front"])
           /\ sock' = [sock EXCEPT !["front"] = Put(@, r)]
           /\ fate' = [fate EXCEPT ![r] = "with"]
           /\ Event /\ UNCHANGED <<first, timed, access, rcall>>
CloseFront == /\ sock["front"].snd
              /\ sock' = [sock EXCEPT !["front"] = Finish(@)]
              /\ UNCHANGED <<first, fate, timed, access, rcall, events>>

Timed == T!HtTimedNext /\ UNCHANGED <<first, access, rcall, events>>
Tick == T!Tick /\ UNCHANGED <<first, access, rcall, events>>
Access == A!AccessLogNext /\ UNCHANGED <<first, timed, rcall, events>>
Rcall == R!HtRcallNext /\ UNCHANGED <<first, timed, access, events>>
KidEnds(r) == R!ChildExits(r) /\ UNCHANGED <<first, timed, access, events>>
KidAnswers(r) == R!ChildAnswers(r) /\ UNCHANGED <<first, timed, access, events>>
KillRcall == R!Killed /\ Event /\ UNCHANGED <<first, timed, access>>
KillAccess == A!Killed /\ Event /\ UNCHANGED <<first, timed, rcall>>
Outside == A!Rotate \/ A!RenameBack \/ A!OtherOpens \/ A!OtherCloses
\* External: the file system does not let accesslog lock a file.
LockingFails == (A!NoLock \/ A!RelockNone) /\ Event /\ UNCHANGED <<first, timed, rcall>>
LogChanges == A!Running /\ Outside /\ Event /\ UNCHANGED <<first, timed, rcall>>
Hup == A!Hup /\ Event /\ UNCHANGED <<first, timed, rcall>>

Next == \/ Timed \/ Tick \/ Access \/ Rcall
        \/ \E r \in Reqs : Send(r) \/ KidEnds(r) \/ KidAnswers(r)
        \/ CloseFront \/ KillRcall \/ KillAccess \/ LockingFails \/ LogChanges \/ Hup

\* The programs run, time goes by and a handler ends; nothing else has to happen.
Fairness == /\ WF_vars(Timed) /\ WF_vars(Tick) /\ WF_vars(Access) /\ WF_vars(Rcall)
            /\ \A r \in Reqs : WF_vars(KidEnds(r))

Spec == Init /\ [][Next]_vars
FairSpec == Spec /\ Fairness

-----------------------------------------------------------------------------
\* The type invariant.
TypeOK == /\ first \in {"httimed", "accesslog"}
          /\ sock \in [{"front", "back"} -> [q : BoundedSeq(Reqs, Room), snd : BOOLEAN,
                                                     rcv : {"open", "shut", "gone"}]]
          /\ fate \in [Reqs -> {"new", "with", "answered", "lost"}]
          /\ T!HtTimedTypeOK(Reqs) /\ A!AccessLogTypeOK(Reqs) /\ R!HtRcallTypeOK(Reqs)
          /\ events \in 0 .. MaxEvents

\* Where a request is that nobody answered and that is not lost: queued, in the hand of a
\* program or with a child.
Places(r) == {x \in [s : {"front", "back"}, i : 1 .. Room] : x.i <= Len(sock[x.s].q) /\ sock[x.s].q[x.i] = r}
             \cup {p \in {"httimed", "accesslog", "httrcall", "child"} :
                    \/ p = "httimed" /\ tm.hand = r
                    \/ p = "accesslog" /\ al.hand = r
                    \/ p = "httrcall" /\ rc.hand = r /\ kids[r] = "none"
                    \/ p = "child" /\ kids[r] = "runs" /\ fate[r] = "with"}

\* `running' has just the children that were not waited for, but for the one that serve() is
\* about to enter, so that no more than `limit' run.
Counted ==
  /\ rc.pc # "ended" => rc.running = R!Children \ (IF rc.pc = "add" THEN {rc.hand} ELSE {})
  /\ Limit > 0 => Cardinality({r \in Reqs : kids[r] = "runs"}) <= Limit

\* Whatever ends, fails or is killed on the way, a request that is under way is in exactly one
\* place and one that is over in none, and httrcall knows its children.  In the log are, once each,
\* those that were passed on, but for the last one when accesslog has yet to write its record, or was
\* killed before it could; with -e, those whose filterreq() is over.
PassedOn(r) == r \in Queued(sock["back"]) \/ rc.hand = r \/ kids[r] # "none" \/ fate[r] = "answered"
Carried ==
  /\ TypeOK /\ Counted
  /\ \A r \in Reqs :
       /\ Cardinality(Places(r)) = IF fate[r] = "with" THEN 1 ELSE 0
       /\ logged[r] <= 1
       /\ al.filter => (logged[r] = 1 <=> fr[r] = "over")
       /\ first = "accesslog" /\ ~al.filter /\ PassedOn(r) => (logged[r] = 1 <=> al.owed # r)
  /\ al.owed # None => al.pc \in {"log", "ended"}

\* While accesslog takes requests it has the lock on the file it writes to and on no other,
\* whichever files it opened and closed on SIGHUP, and another process never has it as well;
\* unless locking failed, or the log got its name back between stat() and fopen(), until the
\* next log is locked.
LogOwned ==
  /\ fs.mine = IF al.pc \in {"open", "lock", "ended"} \/ fs.bare THEN {} ELSE {fs.out}
  /\ fs.other \notin fs.mine

\* httimed ends in the end, when its input does or for lack of requests, and with it the others;
\* unless it came to wait without a limit after it had been slow to pass a request on.
WaitsForever == tm.pc = "poll" /\ tm.left = T!Forever /\ ~tm.off
Over == tm.pc = "ended" /\ al.pc = "ended" /\ rc.pc = "ended"
AllEnd == <>[](Over \/ WaitsForever \/ (A!Running /\ sock["front"].snd))

\* When its child is gone a program ends; with -e a SIGHUP at that moment makes accesslog forget it.
FollowsChild == rc.pc = "ended" ~> tm.pc = "ended" /\ (al.pc = "ended" \/ al.missed)
=============================================================================
