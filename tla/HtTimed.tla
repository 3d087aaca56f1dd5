------------------------------ MODULE HtTimed ------------------------------
(***************************************************************************)
(* httimed.c: passes requests on, and ends when none came for a while.     *)
(*                                                                         *)
(* Time is kept relative to `lreq': tm.age is time(NULL) - lreq, and       *)
(* tm.seen is now - lreq.                                                  *)
(***************************************************************************)
EXTENDS Integers, ReqSock

CONSTANTS In, Ch,   \* its standard input and the socket of its child
          Timeout,  \* `timeout', in seconds
          None

VARIABLES sock, fate, tm

Forever == -1       \* a poll() with a negative time
Late == 2 * Timeout + 2 \* bound on tm.age: all later times are alike, whatever tm.seen is taken from them

HtTimedInit(pc) ==
  tm = [pc |-> pc, age |-> 0, left |-> 0, seen |-> 0, off |-> FALSE, in |-> FALSE, hup |-> FALSE, hand |-> None]

HtTimedTypeOK(Reqs) ==
  tm \in [pc : {"loop", "poll", "recv", "send", "idle", "ended"}, age : 0 .. Late, left : Forever .. Timeout + 1,
          seen : 0 .. Late, off : BOOLEAN, in : BOOLEAN, hup : BOOLEAN, hand : Reqs \cup {None}]

\* The time until poll() gives up: negative, that is never, also when the request before was
\* passed on so slowly that the time is over since more than a second.
Wait == IF tm.off \/ tm.age > Timeout + 1 THEN Forever ELSE Timeout + 1 - tm.age

\* memset(pfd), poll().
StartPoll == /\ tm.pc = "loop"
             /\ tm' = [tm EXCEPT !.pc = "poll", !.left = Wait]
             /\ UNCHANGED <<sock, fate>>

\* poll() returns; now = time(NULL).
Polled == /\ tm.pc = "poll"
          /\ Readable(sock[In]) \/ Refuses(sock[Ch]) \/ tm.left = 0
          /\ tm' = [tm EXCEPT !.pc = "recv", !.in = Readable(sock[In]), !.hup = Refuses(sock[Ch]),
                              !.seen = tm.age, !.left = 0]
          /\ UNCHANGED <<sock, fate>>

\* The process is over; `rs' are the requests it had in hand.
TimedEnds(rs) ==
  /\ tm' = [tm EXCEPT !.pc = "ended", !.hand = None, !.age = 0, !.seen = 0, !.in = FALSE, !.hup = FALSE]
  /\ sock' = Quit(sock, In, Ch)
  /\ fate' = Lose(fate, rs \cup Queued(sock[In]))

TakeReq == /\ tm.pc = "recv" /\ tm.in /\ sock[In].q # <<>>
           /\ tm' = [tm EXCEPT !.pc = "send", !.hand = Head(sock[In].q)]
           /\ sock' = [sock EXCEPT ![In] = Take(@)]
           /\ UNCHANGED fate

InputOver == tm.pc = "recv" /\ tm.in /\ AtEnd(sock[In]) /\ TimedEnds({})

NoInput == /\ tm.pc = "recv" /\ ~tm.in
           /\ tm' = [tm EXCEPT !.pc = "idle"]
           /\ UNCHANGED <<sock, fate>>

\* sendreq() waits for room; if the child is gone httimed exits.
PassOn == /\ tm.pc = "send" /\ Fits(sock[Ch])
          /\ sock' = [sock EXCEPT ![Ch] = Put(@, tm.hand)]
          /\ tm' = [tm EXCEPT !.pc = "idle", !.hand = None]
          /\ UNCHANGED fate

CannotPass == tm.pc = "send" /\ Refuses(sock[Ch]) /\ TimedEnds({tm.hand})

\* The test for idleness, and lreq = now.
IsIdle_Later == tm.hup \/ tm.off \/ tm.seen > Timeout + 1 \* mutant: more than poll() waits for
IsIdle == tm.hup \/ tm.off \/ tm.seen > Timeout
CheckIdle ==
  LET over == IsIdle IN
  /\ tm.pc = "idle"
  /\ tm' = [tm EXCEPT !.pc = "loop", !.off = over, !.age = IF over THEN 0 ELSE @ - tm.seen, !.seen = 0,
                      !.in = FALSE, !.hup = FALSE]
  /\ sock' = IF over THEN [sock EXCEPT ![In] = Shut(@)] ELSE sock
  /\ UNCHANGED fate

\* A second goes by; once `timeout' is -1 httimed does not look at the time.
Tick == /\ tm.pc # "ended" /\ ~tm.off
        /\ tm' = [tm EXCEPT !.age = IF @ < Late THEN @ + 1 ELSE @,
                            !.left = IF @ > 0 THEN @ - 1 ELSE @]
        /\ tm' # tm
        /\ UNCHANGED <<sock, fate>>

HtTimedNext == StartPoll \/ Polled \/ TakeReq \/ InputOver \/ NoInput \/ PassOn \/ CannotPass \/ CheckIdle
=============================================================================
