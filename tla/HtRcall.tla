------------------------------ MODULE HtRcall ------------------------------
(***************************************************************************)
(* httrcall.c: a child for each request, but no more than `limit' at once. *)
(* A child has the name of its request.                                    *)
(***************************************************************************)
EXTENDS Integers, FiniteSets, ReqSock

CONSTANTS Src,    \* its standard input
          Limit,  \* `limit', 0 for none
          None

VARIABLES sock, fate, rc,
          kids   \* request -> "none", "runs", "zombie", "reaped"

HtRcallInit(Reqs) ==
  /\ rc = [pc |-> "top", hand |-> None, running |-> {}, exited |-> FALSE]
  /\ kids = [r \in Reqs |-> "none"]

HtRcallTypeOK(Reqs) ==
  /\ rc \in [pc : {"top", "reap", "recv", "blocked", "limit", "fork", "add", "ended"}, hand : Reqs \cup {None},
             running : SUBSET Reqs, exited : BOOLEAN]
  /\ kids \in [Reqs -> {"none", "runs", "zombie", "reaped"}]

Zombies == {r \in DOMAIN kids : kids[r] = "zombie"}
Children == {r \in DOMAIN kids : kids[r] \in {"runs", "zombie"}}

\* The loop of waitpid() calls: all children that have ended leave `running'.
ReapAll(next) == /\ kids' = [r \in DOMAIN kids |-> IF r \in Zombies THEN "reaped" ELSE kids[r]]
                 /\ rc' = [next EXCEPT !.running = @ \ Zombies]

\* if(exited) checkexit(0): first exited = 0, then the loop.
Look == /\ rc.pc = "top"
        /\ rc' = [rc EXCEPT !.pc = IF rc.exited THEN "reap" ELSE "recv", !.exited = FALSE]
        /\ UNCHANGED <<sock, fate, kids>>
Reap == rc.pc = "reap" /\ ReapAll([rc EXCEPT !.pc = "recv"]) /\ UNCHANGED <<sock, fate>>

\* recvreq(): a signal that comes before it blocks is seen when the next request has come.
Block == /\ rc.pc = "recv" /\ ~Readable(sock[Src])
         /\ rc' = [rc EXCEPT !.pc = "blocked"]
         /\ UNCHANGED <<sock, fate, kids>>
RecvReq == /\ rc.pc \in {"recv", "blocked"} /\ sock[Src].q # <<>>
           /\ rc' = [rc EXCEPT !.pc = "limit", !.hand = Head(sock[Src].q)]
           /\ sock' = [sock EXCEPT ![Src] = Take(@)]
           /\ UNCHANGED <<fate, kids>>
RecvEnd == /\ rc.pc \in {"recv", "blocked"} /\ AtEnd(sock[Src])
           /\ rc' = [rc EXCEPT !.pc = "ended"]
           /\ sock' = [sock EXCEPT ![Src] = Leave(@)]
           /\ UNCHANGED <<fate, kids>>

\* serve(): while the limit is reached, checkexit(1), which waits for a child to end.  `exited'
\* is cleared before that, and set again if the child ends while it waits.
MayFork == Limit = 0 \/ Cardinality(rc.running) < Limit
WaitForExit == /\ rc.pc = "limit" /\ ~MayFork
               /\ Zombies # {}
               /\ \E again \in BOOLEAN : ReapAll([rc EXCEPT !.exited = again])
               /\ UNCHANGED <<sock, fate>>
GoOn == /\ rc.pc = "limit" /\ MayFork
        /\ rc' = [rc EXCEPT !.pc = "fork"]
        /\ UNCHANGED <<sock, fate, kids>>

\* stdforkserve(): fork(), or the answer 500.
Fork == /\ rc.pc = "fork"
        /\ kids' = [kids EXCEPT ![rc.hand] = "runs"]
        /\ rc' = [rc EXCEPT !.pc = "add"]
        /\ UNCHANGED <<sock, fate>>
ForkFails == /\ rc.pc = "fork"
             /\ fate' = [fate EXCEPT ![rc.hand] = "answered"]
             /\ rc' = [rc EXCEPT !.pc = "top", !.hand = None]
             /\ UNCHANGED <<sock, kids>>
AddRunning == /\ rc.pc = "add"
              /\ rc' = [rc EXCEPT !.pc = "top", !.running = @ \cup {rc.hand}, !.hand = None]
              /\ UNCHANGED <<sock, fate, kids>>

\* A child answers, or ends without (127 when the program could not be run); SIGCHLD reaches
\* chldhandler(), and EINTR ends a blocked recvreq().
ChldHandler == [rc EXCEPT !.exited = TRUE, !.pc = IF @ = "blocked" THEN "top" ELSE @]
ChildExits_Reaped(r) == \* mutant: the handler of the signal calls waitpid() itself
  /\ kids[r] = "runs"
  /\ kids' = [kids EXCEPT ![r] = "reaped"]
  /\ fate' = [fate EXCEPT ![r] = IF @ = "with" THEN "lost" ELSE @]
  /\ rc' = IF rc.pc = "ended" THEN rc ELSE [rc EXCEPT !.running = @ \ {r}]
  /\ UNCHANGED sock
ChildExits(r) ==
  /\ kids[r] = "runs"
  /\ kids' = [kids EXCEPT ![r] = "zombie"]
  /\ fate' = [fate EXCEPT ![r] = IF @ = "with" THEN "lost" ELSE @]
  /\ rc' = IF rc.pc = "ended" THEN rc ELSE ChldHandler
  /\ UNCHANGED sock
ChildAnswers(r) ==
  /\ kids[r] = "runs" /\ fate[r] = "with"
  /\ fate' = [fate EXCEPT ![r] = "answered"]
  /\ UNCHANGED <<sock, rc, kids>>

\* External: httrcall is killed.  The children stay.
Killed == /\ rc.pc # "ended"
          /\ sock' = [sock EXCEPT ![Src] = Leave(@)]
          /\ fate' = Lose(fate, Queued(sock[Src]) \cup ({rc.hand} \ ({None} \cup Children)))
          /\ rc' = [rc EXCEPT !.pc = "ended", !.hand = None, !.exited = FALSE]
          /\ UNCHANGED kids

HtRcallNext == Look \/ Reap \/ Block \/ RecvReq \/ RecvEnd \/ WaitForExit \/ GoOn \/ Fork \/ ForkFails \/ AddRunning
=============================================================================
