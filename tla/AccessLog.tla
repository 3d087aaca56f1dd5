----------------------------- MODULE AccessLog -----------------------------
(***************************************************************************)
(* accesslog.c: passes requests on and writes a record of each to a file   *)
(* that it holds the lock of, and that it opens anew on SIGHUP.            *)
(*                                                                         *)
(* With -e (al.filter) it runs an ioloop() with a muth for each request,   *)
(* which also relays the answer; a muth runs until it blocks.              *)
(***************************************************************************)
EXTENDS Integers, FiniteSets, ReqSock

CONSTANTS In, Ch,  \* its standard input and the socket of its child
          MaxFile, \* bound on the files that are made
          None

VARIABLES sock, fate,
          al,      \* al.owed: the request that serve() has passed on, and that is not in the log, or never will be
          fs,
          logged,  \* request -> the number of its records
          fr       \* request -> what its filterreq() does: "none", "body", "resp", "back", "over"

Requests == DOMAIN fate
Files == 1 .. MaxFile

AlStart(pc, filter) == [filter |-> filter, pc |-> pc, hand |-> None, in |-> FALSE, hup |-> FALSE, reopen |-> FALSE,
                        exit |-> 0, watch |-> TRUE, new |-> 0, owed |-> None, missed |-> FALSE]

\* The log is not open yet; it may be there already, and another process may log to it.
AccessLogInit(rs) ==
  /\ \E filter \in BOOLEAN : al = AlStart("open", filter)
  /\ \E name \in {0, 1} : \E other \in {0, name} :
        fs = [name |-> name, made |-> name, out |-> 0, mine |-> {}, other |-> other, back |-> FALSE, bare |-> FALSE]
  /\ logged = [r \in rs |-> 0]
  /\ fr = [r \in rs |-> "none"]

\* There is no accesslog.
NoAccessLog(rs) ==
  /\ al = AlStart("ended", FALSE)
  /\ fs = [name |-> 0, made |-> 0, out |-> 0, mine |-> {}, other |-> 0, back |-> FALSE, bare |-> FALSE]
  /\ logged = [r \in rs |-> 0]
  /\ fr = [r \in rs |-> "none"]

AccessLogTypeOK(rs) ==
  /\ al \in [filter : BOOLEAN, hand : rs \cup {None}, in : BOOLEAN, hup : BOOLEAN, reopen : BOOLEAN,
             exit : 0 .. 2, watch : BOOLEAN, new : 0 .. MaxFile, owed : rs \cup {None}, missed : BOOLEAN,
             pc : {"open", "lock", "top", "stat", "reopen", "relock", "reopened", "poll", "recv", "send", "log", "hup",
                   "ioloop", "turn", "wait", "events", "ended"}]
  /\ fs \in [name : 0 .. MaxFile, made : 0 .. MaxFile, out : 0 .. MaxFile, mine : SUBSET Files, other : 0 .. MaxFile,
             back : BOOLEAN, bare : BOOLEAN]
  /\ logged \in [rs -> 0 .. 2]
  /\ fr \in [rs -> {"none", "body", "resp", "back", "over"}]

Running == al.pc # "ended"
InFlight == {r \in Requests : fr[r] \in {"body", "resp", "back"}}

-----------------------------------------------------------------------------
(* The log file: fs.name is the file that `outname' names, 0 for none;     *)
(* fs.out is `out'; fs.mine are the files that this process has locked,    *)
(* and fs.other the file that another process has.  Two fields are history *)
(* of what is known to cost accesslog its lock: fs.back, that the open log *)
(* was renamed back to its name since stat() looked, and fs.bare, that     *)
(* it is not locked, for that reason or because locking failed.            *)

\* fopen(outname, "a") makes the file if need be.
Opened == IF fs.name = 0 THEN [fs EXCEPT !.name = fs.made + 1, !.made = @ + 1] ELSE fs

\* close() of any descriptor of a file gives up the lock on it.
Closed(f, file) == [f EXCEPT !.mine = @ \ {file}]

\* The process ends, with or without a reason; the kernel closes its files and sockets.
Ends == /\ al' = [al EXCEPT !.pc = "ended", !.hand = None, !.in = FALSE, !.hup = FALSE, !.exit = 0, !.new = 0,
                            !.reopen = FALSE]
        /\ fs' = [fs EXCEPT !.out = 0, !.mine = {}, !.back = FALSE, !.bare = FALSE]
        /\ sock' = Quit(sock, In, Ch)
        /\ fate' = Lose(fate, ({al.hand} \ {None}) \cup Queued(sock[In]))

Unmoved == UNCHANGED <<sock, fate, logged, fr>>

\* main(): the log is opened and locked; it is an error if another process has it.
OpenLog == /\ al.pc = "open"
           /\ fs' = [Opened EXCEPT !.out = Opened.name]
           /\ al' = [al EXCEPT !.pc = "lock"]
           /\ Unmoved
LockFails == /\ al.pc = "lock" /\ fs.out = fs.other
             /\ Ends
             /\ UNCHANGED <<logged, fr>>
Begins == al' = [al EXCEPT !.pc = IF al.filter THEN "ioloop" ELSE "top"] /\ Unmoved
LockLog == /\ al.pc = "lock" /\ fs.out # fs.other
           /\ fs' = [fs EXCEPT !.mine = {fs.out}]
           /\ Begins
\* lockfile() fails for another reason: accesslog goes on without a lock.
NoLock == al.pc = "lock" /\ fs' = [fs EXCEPT !.bare = TRUE] /\ Begins

\* reopenlog(): the test that the file is another one, fopen(), lockfile(), fclose().
Stat_Always == /\ al.pc = "stat" \* mutant: the file is opened anew also when it is the same
               /\ al' = [al EXCEPT !.pc = "reopen"]
               /\ UNCHANGED fs /\ Unmoved
Stat == /\ al.pc = "stat"
        /\ al' = [al EXCEPT !.pc = IF fs.name = fs.out THEN "reopened" ELSE "reopen"]
        /\ UNCHANGED fs /\ Unmoved
Reopen == /\ al.pc = "reopen"
          /\ \/ /\ fs' = Opened
                /\ al' = [al EXCEPT !.pc = "relock", !.new = Opened.name]
             \/ al' = [al EXCEPT !.pc = "reopened"] /\ UNCHANGED fs
          /\ Unmoved
Relocked(f) == /\ al.pc = "relock"
               /\ fs' = f
               /\ al' = [al EXCEPT !.pc = "reopened", !.new = 0]
               /\ Unmoved
\* The new log replaces the old one, also when it is the same file.
Replaced(f) == Closed([f EXCEPT !.out = al.new], fs.out)
Relock == Relocked(IF al.new = fs.other THEN Closed(fs, al.new)
                   ELSE Replaced([fs EXCEPT !.mine = @ \cup {al.new}, !.bare = al.new = fs.out /\ fs.back]))
RelockNone == Relocked(Replaced([fs EXCEPT !.bare = TRUE]))
\* sloop() clears `reopen' only now; floop() starts the ioloop() anew.
Reopened == /\ al.pc = "reopened"
            /\ fs' = [fs EXCEPT !.back = FALSE]
            /\ al' = [al EXCEPT !.pc = IF al.filter THEN "ioloop" ELSE "poll", !.reopen = FALSE]
            /\ Unmoved

\* logreq()
LogReq(r) == logged' = [logged EXCEPT ![r] = @ + 1]

-----------------------------------------------------------------------------
(* sloop()                                                                 *)

Top == /\ al.pc = "top"
       /\ al' = [al EXCEPT !.pc = IF al.reopen THEN "stat" ELSE "poll"]
       /\ UNCHANGED fs /\ Unmoved

Polled == /\ al.pc = "poll"
          /\ Readable(sock[In]) \/ Refuses(sock[Ch])
          /\ al' = [al EXCEPT !.pc = "recv", !.in = Readable(sock[In]), !.hup = Refuses(sock[Ch])]
          /\ UNCHANGED fs /\ Unmoved

TakeReq == /\ al.pc = "recv" /\ al.in /\ sock[In].q # <<>>
           /\ al' = [al EXCEPT !.pc = "send", !.hand = Head(sock[In].q)]
           /\ sock' = [sock EXCEPT ![In] = Take(@)]
           /\ UNCHANGED <<fate, fs, logged, fr>>

\* serve(): sendreq() waits for room; if the child is gone accesslog exits.  The record is
\* written only then.
PassOn == /\ al.pc = "send" /\ ~al.filter /\ Fits(sock[Ch])
          /\ sock' = [sock EXCEPT ![Ch] = Put(@, al.hand)]
          /\ al' = [al EXCEPT !.pc = "log", !.hand = None, !.owed = al.hand]
          /\ UNCHANGED <<fate, fs, logged, fr>>
WriteRecord == /\ al.pc = "log"
               /\ LogReq(al.owed)
               /\ al' = [al EXCEPT !.pc = "hup", !.owed = None]
               /\ UNCHANGED <<sock, fate, fs, fr>>

NoInput == /\ al.pc = "recv" /\ ~al.in
           /\ al' = [al EXCEPT !.pc = "hup"]
           /\ UNCHANGED fs /\ Unmoved

ChildStays == /\ al.pc = "hup" /\ ~al.hup
              /\ al' = [al EXCEPT !.pc = "top", !.in = FALSE]
              /\ UNCHANGED fs /\ Unmoved

\* The ways in which sloop() and serve() end the program.
SloopEnds == /\ \/ al.pc = "recv" /\ al.in /\ AtEnd(sock[In])
                \/ al.pc = "send" /\ ~al.filter /\ Refuses(sock[Ch])
                \/ al.pc = "hup" /\ al.hup
             /\ Ends
             /\ UNCHANGED <<logged, fr>>

-----------------------------------------------------------------------------
(* floop()                                                                 *)

\* ioloop() forgets an earlier exitioloop().
Ioloop == /\ al.pc = "ioloop"
          /\ al' = [al EXCEPT !.pc = "turn", !.exit = 0]
          /\ UNCHANGED fs /\ Unmoved

Turn == /\ al.pc = "turn" /\ al.exit # 1
        /\ al' = [al EXCEPT !.pc = IF al.exit = 2 THEN "stat" ELSE "wait"]
        /\ UNCHANGED fs /\ Unmoved

\* All that is ready has been seen to.
TurnOver == /\ al.pc = "events"
            /\ al' = [al EXCEPT !.pc = "turn"]
            /\ UNCHANGED fs /\ Unmoved

Events == al.pc \in {"wait", "events"}

\* listenloop() starts a filterreq(), which passes the request on.
Listen == /\ Events /\ sock[In].q # <<>>
          /\ al' = [al EXCEPT !.pc = "send", !.hand = Head(sock[In].q)]
          /\ sock' = [sock EXCEPT ![In] = Take(@)]
          /\ UNCHANGED <<fate, fs, logged, fr>>

FilterPass == /\ al.pc = "send" /\ al.filter /\ Fits(sock[Ch])
              /\ sock' = [sock EXCEPT ![Ch] = Put(@, al.hand)]
              /\ fr' = [fr EXCEPT ![al.hand] = "body"]
              /\ al' = [al EXCEPT !.pc = "events", !.hand = None]
              /\ UNCHANGED <<fate, fs, logged>>

\* No socket pair, or no child any more: the request is logged and closed.
FilterFails == /\ al.pc = "send" /\ al.filter
               /\ fate' = Lose(fate, {al.hand})
               /\ fr' = [fr EXCEPT ![al.hand] = "over"]
               /\ LogReq(al.hand)
               /\ al' = [al EXCEPT !.pc = "events", !.hand = None]
               /\ UNCHANGED <<sock, fs>>

\* filterreq(): the body was relayed; the response has begun; it was relayed.  What was passed
\* is the other end of a socket pair, which the child answers on or closes.
FilterStep(r) ==
  /\ Events
  /\ \/ fr[r] = "body" /\ fr' = [fr EXCEPT ![r] = "resp"] /\ UNCHANGED logged
     \/ fr[r] = "resp" /\ fate[r] = "answered" /\ fr' = [fr EXCEPT ![r] = "back"] /\ UNCHANGED logged
     \/ fr[r] = "back" /\ fr' = [fr EXCEPT ![r] = "over"] /\ LogReq(r)
  /\ al' = [al EXCEPT !.pc = "events"]
  /\ UNCHANGED <<sock, fate, fs>>

\* goto out: an error or a timeout on one of its descriptors, or no response at all.
FilterOut(r) == /\ Events /\ r \in InFlight
                /\ fr' = [fr EXCEPT ![r] = "over"]
                /\ LogReq(r)
                /\ al' = [al EXCEPT !.pc = "events"]
                /\ UNCHANGED <<sock, fate, fs>>

\* chwatch(): exitioloop(1).
ChWatch_Zero == /\ Events /\ al.watch /\ Refuses(sock[Ch]) \* mutant: exitioloop(0)
                /\ al' = [al EXCEPT !.pc = "events", !.watch = FALSE, !.exit = 0]
                /\ UNCHANGED fs /\ Unmoved
ChWatch == /\ Events /\ al.watch /\ Refuses(sock[Ch])
           /\ al' = [al EXCEPT !.pc = "events", !.watch = FALSE, !.exit = 1]
           /\ UNCHANGED fs /\ Unmoved

\* listenloop() exits at the end of its input, and floop() returns when the child is gone.
FloopEnds == /\ \/ Events /\ AtEnd(sock[In])
                \/ al.pc = "turn" /\ al.exit = 1
             /\ Ends
             /\ UNCHANGED <<logged, fr>>

-----------------------------------------------------------------------------
(* The outside: signals, and what others do with the log file.             *)

\* sighandler(), once main() has installed it.  A signal interrupts poll() and epoll_wait(), but
\* not when it comes just before the call.  al.missed: that the child is gone was overwritten.
Hup == /\ al.pc \notin {"open", "lock", "ended"}
       /\ \E pc \in {al.pc} \cup (IF al.pc = "poll" THEN {"top"} ELSE IF al.pc = "wait" THEN {"turn"} ELSE {}) :
            al' = IF al.filter THEN [al EXCEPT !.pc = pc, !.exit = 2, !.missed = @ \/ al.exit = 1]
                  ELSE [al EXCEPT !.pc = pc, !.reopen = TRUE]
       /\ UNCHANGED fs /\ Unmoved

\* External: the log is renamed, or a log of before is given its name again.
Rotate == /\ fs.name # 0 /\ fs.made < MaxFile
          /\ fs' = [fs EXCEPT !.name = 0]
          /\ UNCHANGED al /\ Unmoved
RenameBack == /\ fs.name = 0
              /\ \E old \in 1 .. fs.made :
                   fs' = [fs EXCEPT !.name = old, !.back = @ \/ (al.pc = "reopen" /\ old = fs.out)]
              /\ UNCHANGED al /\ Unmoved

\* External: another process that locks the log as accesslog does, and ends.
OtherOpens == /\ fs.other = 0 /\ Opened.name \notin fs.mine
              /\ fs' = [Opened EXCEPT !.other = Opened.name]
              /\ UNCHANGED al /\ Unmoved
OtherCloses == /\ fs.other # 0
               /\ fs' = [fs EXCEPT !.other = 0]
               /\ UNCHANGED al /\ Unmoved

\* External: accesslog is killed.
Killed == Running /\ Ends /\ UNCHANGED <<logged, fr>>

AccessLogNext ==
  \/ OpenLog \/ LockFails \/ LockLog \/ Stat \/ Reopen \/ Relock \/ Reopened
  \/ Top \/ Polled \/ TakeReq \/ PassOn \/ WriteRecord \/ NoInput \/ ChildStays \/ SloopEnds
  \/ Ioloop \/ Turn \/ TurnOver \/ Listen \/ FilterPass \/ FilterFails \/ ChWatch \/ FloopEnds
  \/ \E r \in Requests : FilterStep(r) \/ FilterOut(r)
=============================================================================
