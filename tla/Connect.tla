-------------------------------- MODULE Connect --------------------------------
(***************************************************************************)
(* The connection manager of src/callscgi.c, of which src/callfcgi.c has a *)
(* copy: the one muth listenloop(), which receives the requests and gets a *)
(* connection to the handler for each (reconn()), the handler processes    *)
(* that it starts for that, and the address where they listen.             *)
(*                                                                         *)
(* `mode' is how the program was called: "anon" (a program and no          *)
(* address), "launch" (both), "mixed" (both, and -N), "client" (an         *)
(* address).  The address is a path (-u, -i) or a TCP port (-t).           *)
(***************************************************************************)
EXTENDS Naturals

CONSTANTS Calls,         \* the modes and kinds of address that are looked at
          Proc,          \* the processes that can be started
          Server,        \* a process that somebody else may start
          Addr,          \* the address of -u, -i or -t
          NoAddr,        \* the null pointer
          Retries        \* the argument of -N

ASSUME ConnectAssumption == /\ Calls \subseteq {"anon", "launch", "mixed", "client"} \X {"unix", "tcp"}
                            /\ Server \notin Proc
                            /\ Addr \notin Proc \cup {Server}
                            /\ NoAddr \notin Proc \cup {Server, Addr}
                            /\ Retries \in Nat

VARIABLES mode, kind,
          lpc,       \* where listenloop(), and after it main(), is
          curaddr,   \* NoAddr, Addr, or the process for which an anonymous path was made
          isanon,
          child,     \* the process, or NoAddr
          tries,     \* of econnect()
          up,        \* the processes that live
          started,   \* history: those that this program has started
          termed,    \* history: those that it has sent a SIGTERM
          at         \* the process whose socket is found at Addr, or NoAddr

world == <<up, at>>
cvars == <<mode, kind, lpc, curaddr, isanon, child, tries, started, termed, world>>

Running == lpc \notin {"exited", "failed"}

ConnectTypeOK ==
  /\ <<mode, kind>> \in Calls
  /\ lpc \in {"wait", "reconn", "start", "sconnect", "unlink", "econnect",
              "got", "lost", "ended", "exited", "failed"}
  /\ curaddr \in Proc \cup {Addr, NoAddr}
  /\ isanon \in BOOLEAN
  /\ child \in Proc \cup {NoAddr}
  /\ tries \in 0 .. Retries
  /\ up \subseteq Proc \cup {Server}
  /\ started \subseteq Proc
  /\ termed \subseteq Proc
  /\ at \in Proc \cup {Server, NoAddr}

ConnectInit ==
  /\ \E c \in Calls : mode = c[1] /\ kind = c[2]
  /\ lpc = "wait"
  /\ curaddr = NoAddr
  /\ isanon = FALSE
  /\ child = NoAddr
  /\ tries = 0
  /\ up = {}
  /\ started = {}
  /\ termed = {}
  /\ at = NoAddr

-----------------------------------------------------------------------------
(* Connecting.  A connect() may fail for lack of descriptors as well, with *)
(* a handler that lives; it does not succeed without one.                  *)

Goto(l) == lpc' = l

\* A request has been received: reconn().
Reconn == /\ lpc = "wait"
          /\ Goto(IF curaddr # NoAddr THEN "reconn" ELSE "start")
          /\ UNCHANGED <<mode, kind, curaddr, isanon, child, tries, started, termed, world>>

\* Who listens where curaddr says.
Listener == IF curaddr = Addr THEN at ELSE curaddr

\* Mutant: the handler is not told to go.
KillCurAddr_NoKill == /\ curaddr' = NoAddr
                      /\ UNCHANGED termed

\* killcuraddr(), when there is an address.
KillCurAddr == /\ curaddr' = NoAddr
               /\ termed' = IF isanon /\ child # NoAddr THEN termed \cup {child} ELSE termed

\* sconnect().  While the queue of the listener is full (EAGAIN) it tries again,
\* which changes nothing; 30 s without an answer count as success.
SConnected == /\ lpc \in {"reconn", "sconnect"}
              /\ Listener \in up
              /\ Goto("got")
              /\ UNCHANGED <<mode, kind, curaddr, isanon, child, tries, started, termed, world>>
SFailed == /\ \/ lpc = "reconn" /\ KillCurAddr /\ Goto("start")
              \/ lpc = "sconnect" /\ Goto("lost") /\ UNCHANGED <<curaddr, termed>>
           /\ UNCHANGED <<mode, kind, isanon, child, tries, started, world>>

\* exit(1)
Fail == /\ Goto("failed")
        /\ UNCHANGED <<mode, kind, curaddr, isanon, child, tries, started, termed, world>>

\* fork() of the program, which may end at once.
Forked(p) == /\ p \notin started
             /\ child' = p
             /\ started' = started \cup {p}
             /\ up' = up \cup {p}

\* startlisten() with a path of its own.
StartAnon == /\ lpc = "start"
             /\ mode = "anon"
             /\ \/ \E p \in Proc : /\ Forked(p)
                                   /\ curaddr' = p
                                   /\ isanon' = TRUE
                                   /\ Goto("sconnect")
                                   /\ UNCHANGED <<mode, kind, tries, termed, at>>
                \/ Fail

\* startlisten() at the given address.  bind() fails on a port that is listened
\* to; a path it takes over.
StartListen == /\ lpc = "start"
               /\ mode = "launch"
               /\ \/ \E p \in Proc : /\ kind = "tcp" => at \notin up
                                     /\ Forked(p)
                                     /\ at' = p
                                     /\ isanon' = FALSE
                                     /\ tries' = 0
                                     /\ Goto("unlink")
                                     /\ UNCHANGED <<mode, kind, curaddr, termed>>
                  \/ Fail

\* startnolisten()
StartNoListen == /\ lpc = "start"
                 /\ mode = "mixed"
                 /\ \/ \E p \in Proc : /\ Forked(p)
                                       /\ tries' = 0
                                       /\ Goto("unlink")
                                       /\ UNCHANGED <<mode, kind, curaddr, isanon, termed, at>>
                    \/ Fail

\* startconn() without a program.
StartNone == /\ lpc = "start"
             /\ mode = "client"
             /\ tries' = 0
             /\ Goto("unlink")
             /\ UNCHANGED <<mode, kind, curaddr, isanon, child, started, termed, world>>

\* econnect() as far as connect(): the path is unlinked, whoever made it.
Unlink == /\ lpc = "unlink"
          /\ \/ /\ at' = IF kind = "unix" THEN NoAddr ELSE at
                /\ Goto("econnect")
                /\ UNCHANGED <<mode, kind, curaddr, isanon, child, tries, started, termed, up>>
             \/ Fail

\* econnect() from connect() on.
EConnected == /\ lpc = "econnect"
              /\ at \in up
              /\ curaddr' = Addr
              /\ isanon' = FALSE
              /\ Goto("got")
              /\ UNCHANGED <<mode, kind, child, tries, started, termed, world>>

\* Mutant: one attempt more.
NoListen_More == IF mode \in {"mixed", "client"} THEN Retries + 1 ELSE 0

\* `nolisten'
NoListen == IF mode \in {"mixed", "client"} THEN Retries ELSE 0
EFailed == /\ lpc = "econnect"
           /\ \/ /\ tries < NoListen
                 /\ tries' = tries + 1
                 /\ Goto("unlink")
                 /\ UNCHANGED <<mode, kind, curaddr, isanon, child, started, termed, world>>
              \/ tries >= NoListen /\ Fail

\* listenloop() goes on with the next request, or ends.
Loop == /\ lpc \in {"got", "lost"}
        /\ Goto("wait")
        /\ UNCHANGED <<mode, kind, curaddr, isanon, child, tries, started, termed, world>>
ListenEnds == /\ lpc = "wait"
              /\ Goto("ended")
              /\ UNCHANGED <<mode, kind, curaddr, isanon, child, tries, started, termed, world>>

\* main() after ioloop().
Exit == /\ lpc = "ended"
        /\ Goto("exited")
        /\ IF curaddr = NoAddr THEN UNCHANGED <<curaddr, termed>> ELSE KillCurAddr
        /\ UNCHANGED <<mode, kind, isanon, child, tries, started, world>>

(* Other processes.                                                        *)

Dies(p) == /\ p \in up
           /\ up' = up \ {p}
           /\ UNCHANGED <<mode, kind, lpc, curaddr, isanon, child, tries, started, termed, at>>

\* Mixed mode: the program makes its socket.
Binds(p) == /\ mode = "mixed"
            /\ p \in up
            /\ at # p
            /\ kind = "tcp" => at \notin up
            /\ at' = p
            /\ UNCHANGED <<mode, kind, lpc, curaddr, isanon, child, tries, started, termed, up>>

\* Somebody starts a server at the address.
ServerStarts == /\ mode # "anon"
                /\ Server \notin up
                /\ kind = "tcp" => at \notin up
                /\ up' = up \cup {Server}
                /\ at' = Server
                /\ UNCHANGED <<mode, kind, lpc, curaddr, isanon, child, tries, started, termed>>

Connecting == \/ SConnected \/ SFailed \/ StartAnon \/ StartListen \/ StartNoListen
              \/ StartNone \/ Unlink \/ EConnected \/ EFailed
Others == \/ ServerStarts
          \/ \E p \in Proc \cup {Server} : Dies(p)
          \/ \E p \in Proc : Binds(p)

-----------------------------------------------------------------------------
(* Properties.                                                             *)

\* In anonymous mode the program that this one started last is the only one that
\* lives and has not been told to end, and its socket is where requests go; all
\* are told to end when this program exits, from main() or by exit().  In the
\* other modes none is ever told to.
HandlersManaged ==
  IF mode = "anon"
  THEN /\ started \cap up \subseteq termed \cup (IF curaddr = NoAddr THEN {} ELSE {curaddr})
       /\ curaddr # NoAddr => curaddr = child /\ curaddr \notin termed
       /\ ~Running => started \cap up \subseteq termed
  ELSE termed = {}

\* What the manual says of launching mode: the program is given a socket that listens
\* to the address, where this one then connects.
LaunchedIsFound == mode = "launch" /\ lpc = "econnect" /\ Server \notin up /\ child \in up => at = child
=============================================================================
