------------------------------ MODULE HtParser ------------------------------
(***************************************************************************)
(* src/htparser.c and the port handler src/plaintcp.c: the listeners, the  *)
(* connections, the root handler's socket, and how the program stops.      *)
(*                                                                         *)
(* Connections are muths of one thread: between two waits in the event     *)
(* loop a connection runs alone, so that each action below goes from one   *)
(* wait of a muth to its next.  The event loop is what lib/mtio-epoll.c    *)
(* promises (see MtioEpoll): it resumes muths only while it handles a      *)
(* batch of events, and looks at its exit status between two batches.      *)
(* Clients, the root handler and the signals may act at any time.          *)
(***************************************************************************)
EXTENDS Naturals, FiniteSets

CONSTANTS Port,      \* the ports that are listened on
          Watch,     \* plexwatch, which is kept among the listeners
          Conn,      \* the connections that may be open at a time
          MaxSignals \* bound on SIGINT and SIGTERM

ASSUME HtParserAssumption == /\ Watch \notin Port
                             /\ IsFiniteSet(Port)
                             /\ MaxSignals \in Nat

VARIABLES main,        \* where main() is; see HtPlaces
          exitst,      \* exitstatus, of lib/mtio-epoll.c
          listeners,   \* the muths in `listeners'
          plexshut,    \* shutdown(plex, SHUT_RDWR) was called
          pidfile,     \* what the PID file holds: "pid", "newline" after it, "empty"
          conn,        \* what each connection does; see States
          root,        \* the root handler: "up", "exited", or "reset": exited
                       \* with requests unread, which resets the socket
          nsig         \* signals so far

htvars == <<main, exitst, listeners, plexshut, pidfile, conn, root, nsig>>

\* "call": about to call ioloop(); "check": at its tests of `blockers' and of
\* exitstatus; "arm": past them; "wait": in epoll_wait(); "batch": handling
\* events; "back": ioloop() has returned.
HtPlaces == {"call", "check", "arm", "wait", "batch", "back", "exited"}

\* "parse": in parsereq(); "plex": in block(plex, EV_WRITE, 60); "queued",
\* "held": its request is in the socket, or was received by the root handler,
\* and no response has come; "keep", "close": one has, that lets the connection
\* be kept or not; "switch": one has, for a duplex connection; "drop": the
\* handler has closed the socket without one; "duplex": in passduplex();
\* "stuck": in its mblock() of no descriptor at all.
InHandler == {"queued", "held"}
Answers == {"keep", "close", "switch", "drop"}
States == {"free", "parse", "plex", "duplex", "stuck"} \cup InHandler \cup Answers

\* The type invariant.
HtTypeOK == /\ main \in HtPlaces
            /\ exitst \in {0, 1}
            /\ listeners \subseteq Port \cup {Watch}
            /\ plexshut \in BOOLEAN
            /\ pidfile \in {"pid", "newline", "empty"}
            /\ conn \in [Conn -> States]
            /\ root \in {"up", "exited", "reset"}
            /\ nsig \in 0 .. MaxSignals

\* main() up to its loop: every port is listened on, the root handler runs.
HtInit == /\ main = "call"
          /\ exitst = 0
          /\ listeners = Port \cup {Watch}
          /\ plexshut = FALSE
          /\ pidfile = "pid"
          /\ conn = [c \in Conn |-> "free"]
          /\ root = "up"
          /\ nsig = 0

-----------------------------------------------------------------------------
(* ioloop() and the loop of main().                                        *)

\* Mutant: those of a connection that is stuck as well.
Blockers_Stuck == listeners # {} \/ \E c \in Conn : conn[c] # "free"

\* blockers != NULL
Blockers == listeners # {} \/ \E c \in Conn : conn[c] \notin {"free", "stuck"}

\* exitstatus = 0, whatever a signal has made it before.
Call == /\ main = "call"
        /\ exitst' = 0
        /\ main' = "check"
        /\ UNCHANGED <<listeners, plexshut, pidfile, conn, root, nsig>>

CheckLoop == /\ main = "check"
             /\ main' = IF ~Blockers \/ exitst # 0 THEN "back" ELSE "arm"
             /\ UNCHANGED <<exitst, listeners, plexshut, pidfile, conn, root, nsig>>

Wait == /\ main = "arm"
        /\ main' = "wait"
        /\ UNCHANGED <<exitst, listeners, plexshut, pidfile, conn, root, nsig>>

\* epoll_wait() returns with events, or at a timeout.
Wake == /\ main = "wait"
        /\ main' = "batch"
        /\ UNCHANGED <<exitst, listeners, plexshut, pidfile, conn, root, nsig>>

EndBatch == /\ main = "batch"
            /\ main' = "check"
            /\ UNCHANGED <<exitst, listeners, plexshut, pidfile, conn, root, nsig>>

\* The listeners are resumed until none is left, plexwatch among them: every
\* port is closed, and so is the socket of the root handler.
StopListening == /\ main = "back"
                 /\ exitst = 1
                 /\ listeners # {}
                 /\ listeners' = {}
                 /\ plexshut' = TRUE
                 /\ pidfile' = "newline"
                 /\ main' = "call"
                 /\ UNCHANGED <<exitst, conn, root, nsig>>

\* Mutant: at the first signal already.
Finish_First == /\ main = "back"
                /\ pidfile' = "empty"
                /\ main' = "exited"
                /\ UNCHANGED <<exitst, listeners, plexshut, conn, root, nsig>>

\* d = 1: the PID file is truncated and main() returns.
Finish == /\ main = "back"
          /\ exitst = 0 \/ listeners = {}
          /\ pidfile' = "empty"
          /\ main' = "exited"
          /\ UNCHANGED <<exitst, listeners, plexshut, conn, root, nsig>>

\* Mutant: the exit status counts the signals.
Signal_Counts == /\ main # "exited"
                 /\ nsig < MaxSignals
                 /\ nsig' = nsig + 1
                 /\ exitst' = exitst + 1
                 /\ main' = IF main = "wait" THEN "check" ELSE main
                 /\ UNCHANGED <<listeners, plexshut, pidfile, conn, root>>

\* sighandler(); epoll_wait() is interrupted only if it has been entered.
Signal == /\ main # "exited"
          /\ nsig < MaxSignals
          /\ nsig' = nsig + 1
          /\ exitst' = 1
          /\ main' = IF main = "wait" THEN "check" ELSE main
          /\ UNCHANGED <<listeners, plexshut, pidfile, conn, root>>

-----------------------------------------------------------------------------
(* The muths, each when the event loop resumes it.                         *)

Goes(c, from, to) == /\ main = "batch"
                     /\ conn[c] \in from
                     /\ conn' = [conn EXCEPT ![c] = to]
                     /\ UNCHANGED <<main, exitst, listeners, plexshut, pidfile, root, nsig>>

\* accept(), and servetcp() up to its first wait.
Accept(p, c) == p \in listeners /\ Goes(c, {"free"}, "parse")

\* accept() fails, as when there are too many open files: the port is closed.
AcceptFails(p) == /\ main = "batch"
                  /\ p \in listeners \ {Watch}
                  /\ listeners' = listeners \ {p}
                  /\ UNCHANGED <<main, exitst, plexshut, pidfile, conn, root, nsig>>

\* A request has been read.
ReadRequest(c) == Goes(c, {"parse"}, "plex")

\* End-of-file, an error in the request, or nothing for 60 seconds.
NoRequest(c) == Goes(c, {"parse"}, "free")

\* sendreq(): it fails once the socket is shut down or the root handler gone.
SendRequest(c) == Goes(c, {"plex"}, IF plexshut \/ root # "up" THEN "free" ELSE "queued")

\* block(plex, EV_WRITE, 60) times out: the root handler is not reading.
PlexTimeout(c) == ~plexshut /\ root = "up" /\ Goes(c, {"plex"}, "free")

\* The response is passed on, and the loop of serve() goes round or ends.
Respond(c) == \/ Goes(c, {"keep"}, "parse")
              \/ Goes(c, {"switch"}, "duplex")
              \/ Goes(c, {"close", "drop"}, "free")

\* The body or the response cannot be passed on, or nothing comes for 600 seconds.
GiveUp(c) == Goes(c, InHandler \cup Answers \cup {"duplex"}, "free")

\* Both sides of a duplex connection have sent end-of-file, and a buffer is not
\* empty: mblock() is called with no descriptor.
Stick(c) == Goes(c, {"duplex"}, "stuck")

\* Mutant: only plexwatch itself is taken from the listeners.
PlexEof_Itself == /\ main = "batch"
                  /\ Watch \in listeners
                  /\ root = "exited"
                  /\ plexshut' = TRUE
                  /\ listeners' = listeners \ {Watch}
                  /\ UNCHANGED <<main, exitst, pidfile, conn, root, nsig>>

\* plexwatch() reads end-of-file.
PlexEof == /\ main = "batch"
           /\ Watch \in listeners
           /\ root = "exited"
           /\ plexshut' = TRUE
           /\ listeners' = {}
           /\ UNCHANGED <<main, exitst, pidfile, conn, root, nsig>>

\* plexwatch() reads an error: exit(1).
PlexError == /\ main = "batch"
             /\ Watch \in listeners
             /\ root = "reset"
             /\ main' = "exited"
             /\ UNCHANGED <<exitst, listeners, plexshut, pidfile, conn, root, nsig>>

-----------------------------------------------------------------------------
(* The root handler.                                                       *)

HandlerTakes(c) == /\ root = "up"
                   /\ conn[c] = "queued"
                   /\ conn' = [conn EXCEPT ![c] = "held"]
                   /\ UNCHANGED <<main, exitst, listeners, plexshut, pidfile, root, nsig>>

\* The root handler, or a process it has passed the request to, answers.
HandlerAnswers(c, a) == /\ conn[c] = "held"
                        /\ conn' = [conn EXCEPT ![c] = a]
                        /\ UNCHANGED <<main, exitst, listeners, plexshut, pidfile, root, nsig>>

\* The requests that it has not received are dropped.
HandlerExits ==
  LET unread == {c \in Conn : conn[c] = "queued"} IN
    /\ root = "up"
    /\ root' = IF unread = {} THEN "exited" ELSE "reset"
    /\ conn' = [c \in Conn |-> IF c \in unread THEN "drop" ELSE conn[c]]
    /\ UNCHANGED <<main, exitst, listeners, plexshut, pidfile, nsig>>

-----------------------------------------------------------------------------
Main == Call \/ CheckLoop \/ Wait \/ EndBatch \/ StopListening \/ Finish

\* What ends a wait of a connection in the end: an answer, or its timeout.
WaitEnds(c) == NoRequest(c) \/ SendRequest(c) \/ Respond(c) \/ GiveUp(c)

Serve(c) == \/ \E p \in Port : Accept(p, c)
            \/ ReadRequest(c) \/ PlexTimeout(c) \/ Stick(c) \/ WaitEnds(c)

Handler == \/ HandlerExits
           \/ \E c \in Conn : HandlerTakes(c) \/ \E a \in Answers : HandlerAnswers(c, a)

HtNext == \/ Main \/ Wake \/ Signal \/ PlexEof \/ PlexError \/ Handler
          \/ \E p \in Port : AcceptFails(p)
          \/ \E c \in Conn : Serve(c)

HtSpec == HtInit /\ [][HtNext]_htvars

Wakes == Wake /\ \E c \in Conn : conn[c] \notin {"free", "stuck"}

\* The loop of main() goes on; epoll_wait() returns when something has happened
\* or a timeout is over, which is the case again and again while a connection
\* waits; and then each connection is resumed.  A client is taken to send its
\* request or to be silent, not to send it byte by byte for ever.
HtFairSpec == /\ HtSpec
              /\ WF_htvars(Main)
              /\ WF_htvars(Wakes)
              /\ \A c \in Conn : SF_htvars(WaitEnds(c))

-----------------------------------------------------------------------------
(* Properties.                                                             *)

Open(c) == conn[c] \notin {"free", "stuck"}
Listening == listeners \cap Port # {}

\* In whatever order the root handler exits, signals come and ports are closed, no
\* port is open once plexwatch() has closed the socket: only between the handler's
\* exit and its end-of-file can a connection be taken that will be dropped.
PortsServed == Listening => Watch \in listeners /\ ~plexshut

\* The PID file says what doc/htparser.doc (PID-FILE PROTOCOL) promises: it has
\* its second line only once nothing is listened on, and is truncated only when
\* the program exits, with no connection left unless a second signal came.
PidTells == /\ pidfile = "newline" => listeners = {} /\ plexshut /\ nsig > 0
            /\ pidfile = "empty" => main = "exited"
            /\ pidfile = "empty" /\ (\E c \in Conn : Open(c)) =>
                 nsig >= 2 \/ (nsig = 1 /\ root = "exited")

\* Once the program has begun to stop, for whatever reason, it does exit.
Stops == plexshut ~> main = "exited"
=============================================================================
