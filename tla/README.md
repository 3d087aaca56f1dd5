# Ashd in TLA+

Specifications of [ashd](../src/README) -- an HTTP server that is a set of small
programs passing requests to each other over Unix sockets -- with model-checking
configurations for TLC and proofs for TLAPS. Every module is written from the
source; `PROJECT.json` maps each definition to the lines it stands for.

Run `tlc -config X.cfg M` for a run listed below, and `tlapm M.tla` for the
proof modules (`MuthProofs`, `StdChildProofs`, `PatplexProofs`, `DirplexProofs`, `CallFcgiProofs`,
`ChainProofs`, `SharedProofs`, `PyServeProofs`).

## The system

A request goes from `htparser` (or another front) down a tree of programs: each
is the child of the one above, reads requests from a SEQPACKET socket on its
descriptor 0, and either answers on the client socket that comes with the
request (SCM_RIGHTS) or passes both on. There is no reply to the parent. Two
libraries carry the concurrent programs: coroutines (*muths*) on one thread, and
an event loop that resumes them.

| Component | State | Operations | What is hard, and what makes it correct |
|---|---|---|---|
| `lib/mt.c` | `current`, each muth's `last` | mustart, yield, resume, return | Nested resumes form a chain; resume of a running muth aborts the program. |
| `lib/mtio.c`, pipe | buffer, `closed`, `r`, `w` | read, write, close of each end | Each end resumes the other *inside* its own call. No lost wake-up, no use after free, a faithful byte stream. |
| `lib/mtio-epoll.c` | list of blockers, lists by descriptor, heap of timeouts, epoll's interest, `exitstatus` | block, mblock, ioloop, exitioloop | Lists change under the walks that resume muths; stale events; timeouts; signals. Lists, heap and interest agree; timeouts fire. |
| `lib/bufio.c`, mtread() and mtwrite() of `mtio.c` | read and write buffers, error, end-of-file, descriptors that came or are to go | biofill, bioflush, biorensure, biocopybuf, ... | Partial writes, errors and growing buffers in any order. Bytes in order and once; each descriptor closed or taken. |
| `lib/cf.c`, `lib/proc.c` | child processes by name, their sockets | stdhandle, merge on reload | A child that crashes is restarted once; a reload hands sockets over. |
| `htparser`, `plaintcp.c` | listeners, connections, `plex`, PID file | accept, serve, plexwatch, signals | Shutdown in any order with requests under way. |
| TLS ports | as `plaintcp.c` | | The library's own state machine. |
| `ratequeue` | hash table of buckets, heap of times, queues (`brim`) | serve, checkbtime, reload | Lazy leaking, freeing of buckets, the timeout of poll(). The rate holds; nothing is lost or reordered. |
| `patplex` | configurations, patterns, `disable` | findmatch, reparse, reload | State kept across patterns and recursion. |
| `dirplex` | cache of `.htrc` files by directory, each with its children; a stack of searches | checkpath, checkdir, checkentry, getconfig, handle | Files change, and are read again and freed, while a search goes through them; captures and reparses nest. Nothing is used after it was freed; one outcome; no socket lost. |
| `userplex` | a socket for each user | serve, forkchild, the child's way to exec | A dead child is met when sending, and replaced once; the child answers itself if it cannot run. |
| `callfcgi`, `callscgi` | `curaddr`, `child`, per-request pipes | reconn, killcuraddr, serve, outplex, errhandler | A handler may crash at any time; muths of a request wait for one another over pipes. At most one handler; each request ends and leaves nothing open. |
| `accesslog` | the log file and its lock; with `-e` muths that relay each answer | recv, log, reopenlog, filterreq | SIGHUP, the end of the child and rotation of the file race; each request logged once, the lock held. |
| `httimed`, `httrcall` | the time of the last request; the children that run | poll loop; fork, reap, limit | Time counted around a send that blocks; SIGCHLD between a test and a wait. |
| `htpipe` | client: a connection; server: clients and a child | connect, fork the server, accept, relay | Two started at once; the socket left by a server that crashed. |
| `multifscgi` | the children | fork, wait, signals | Children must be replaced. |
| `htextauth` | cache of authenticated users | ask the authenticator, cache | Straight-line, one request at a time. |
| `compress` | cache of files | open, compress, rename, clean | Several processes at once. |
| `serve.py` | threads, queues, response buffers under a lock | handle, run, close of four handlers | Conditions and timeouts between real threads, a pipe that wakes poll(). Each request closed once. |
| `req`, `resp`, `log`, `utils`, `callcgi`, `sendfile`, `psendfile`, `errlogger`, `ssi`, ... | none of their own | | Formatting, parsing and straight-line I/O. |

The hazards of each, at their lines, are in `PROJECT.json`.

## Modules

    Mt ---- MtPipe ---- MCMtPipe          TimeHeap --+-- MtioEpoll ---- MCMtioEpoll
     |        |  \--- ByteStream (abstract)          +-- RateQueue ---- MCRateQueue
     |        +-- MuthProofs                              |   \--- LeakyBucket (abstract)
     +-- MtioEpoll --+ |                     SourceTable -+
                       |
             HtParser -+-- MCHtParser      StdChild ---- Patplex ---- MCPatplex
                                               |             \-- PatplexProofs --\
                                               |                      StdChildProofs
                                               |             /-- DirplexProofs --/
                                               \-- Dirplex ---- MCDirplex

                                           Connect ---- CallFcgi ---- MCCallFcgi, CallFcgiProofs

    ReqSock --+-- HtTimed ----\                          PyServe ---- MCPyServe, PyServeProofs
              +-- AccessLog ---+-- Chain ---- MCChain, ChainProofs
              +-- HtRcall ----/                          BufIo ---- MCBufIo
              +-- HtPipe -----+-- Shared ---- MCShared, SharedProofs
              +-- Userplex --/

**Mt** (`lib/mt.c`). A library of control operators: an action of code that runs
in muths conjoins exactly one of `GoOn`, `MuStart`, `Yield`, `Resume`, `Return`
to what it does up to its next call into `mt.c`. So an action spans the code
between two context switches, which is what is atomic on the one thread.
`aborted` stands for abort(); a resume of a muth that was freed is counted too.

**MtPipe** (`lib/mtio.c`, `mtiopipe()`). Actions `Read`, `Write`, `RClose`, `WClose`
are the calls up to a yield() or a nested resume() -- always the last thing the
functions do -- and `ReadResumed`, `WriteResumed` what follows a yield(). The
users are arbitrary code: any muth in its own code may do any operation on a FILE
it holds, wait for something else, resume another that does, start one or end.
They keep to two rules of a FILE: no use after fclose(), and no fclose() of a
FILE on which a muth is blocked. `sent`, `rcvd`, `eof`, `epipe` are history.

**ByteStream** is what a user is promised: bytes in order, none lost or repeated,
at most `Cap` in flight, end-of-file only after the last byte, EPIPE only after
the reader has closed.

**TimeHeap**. The array heap with stored positions, which `mtio-epoll.c` and
`ratequeue.c` each implement: `thraise`, `thlower`, `thadjust`, insertion and
deletion as operators on a record.

**MtioEpoll** (`lib/mtio-epoll.c`). `Block`/`Unblock` are block() and mblock()
before and after their yield(); ioloop() is cut where it resumes a muth and where
it waits: `Enter`, `Register`, `Prepare`, `WaitEvents`, `Dispatch`, `Expire`,
`Leave`, ... The saved `nbl` of a walk is `cur`. A signal handler
that calls exitioloop() is `WaitInterrupted`. What block() returns is dropped,
as the muths are arbitrary: they may do anything afterwards.
Its callers keep to rules that the code of the repository keeps to: `Lone` muths
(listeners, which other code resumes out of their block()) share their descriptor
with nobody; a descriptor that epoll_ctl() refuses (a regular file) is waited for
alone and, modelled, only before the loop runs, as inside it the call fails
without a change. Without the second rule, an mblock() of two descriptors of
which the first in the list is refused while it is being registered would leave
`nbl` on a blocker that is gone (`mtio-epoll.c:278-280`).

**SourceTable, RateQueue** (`src/ratequeue.c`). The open-addressed table with
backward-shift deletion, growing and shrinking; the buckets, whose level is
brought up to date only when looked at; the loop with its poll(). Time and levels
are integers; one request adds `Unit`; `updbtime()`'s fractions are rounded up, as
the clock that they are compared with is whole. `Lag` is the time that may pass
between the last look at the heap and poll(): 0.1 s are added to the timeout, and
a tick is taken to be longer than that.

**LeakyBucket** is what ratequeue promises: one bucket per source for ever,
leaking every tick, a bounded queue, and everything else turned away.

**HtParser** (`src/htparser.c`, `src/plaintcp.c`). Each connection goes from wait to
wait; `main` is where main() and ioloop() are, and the gaps between `exitstatus =
0`, the test of it and epoll_wait() are states of their own because signals fall
into them. The event loop is used by its promise (it resumes muths in batches and
looks at the exit status between them), which `MtioEpoll` checks. The client
and the root handler may do anything: the handler takes, answers, drops, exits
with or without unread requests (which makes the socket report an error, not
end-of-file, to plexwatch()).

**StdChild** (`lib/cf.c`, `lib/proc.c`). The processes below a program, as operators
on a record of descriptors, processes and queues: `HandleSocket` is stdhandle()
for a `child` with its one restart, `MergeChildren` the hand-over of sockets on a reload.
An operator that makes system calls returns the *set* of outcomes: fork() may fail
(`Forked` then leaves the socket pair open, as `proc.c:42` does), a process may be gone at once,
its socket may be full, a request too large.

**Patplex** (`src/patplex.c`). One action per stretch of main() that other programs
can come between: `Reload`, `Clear` (`reload = 0`), `Recv`, `Match` (findmatch() twice, or 404),
`Handle` (the rest of serve() for a child), `Reparse` (for `handler reparse`; the nested
serve() is the next `Match`, and `stack` the calls that are open). findmatch() is a recursion over the
patterns that carries the pointer `mstr` and what was freed on the way, as the code does:
where memory is used after it was freed, $0 may be any text, and where it is freed
twice the program may also end. Regular expressions match one element at the head
of a string. SIGHUP comes at any time, but does not interrupt recvmsg(), which signal() has restarted.

**Connect** (`src/callscgi.c`, copied in `src/callfcgi.c`). listenloop() is the only muth that uses
`curaddr`, `isanon` and `child`, so `lpc`, its place, is the state: `Reconn`, `SConnected`/`SFailed`
(sconnect(), with a handler to talk to or without), `StartAnon`, `StartListen`, `StartNoListen` and `StartNone`
(startconn() in the four modes), `Unlink` and `EConnected`/`EFailed` (econnect() before and from connect() on),
`Loop`, `ListenEnds`, `Exit`. `at` says whose socket is found at the given address: a Unix path is
taken over by whoever binds it next, a port only when nobody listens. Processes end, bind and are started by
others at any time. sleep() and a connect() that says EAGAIN change nothing, and are stuttering.
30 s without an answer count as a connection, as in the code.

**CallFcgi** (`src/callfcgi.c`, serve() of `src/callscgi.c`). For each request the places of its three muths,
the open FILEs and descriptors, and the pipes. A pipe is used by what `MtPipe` shows of it (a bounded stream
that never loses a wake-up); which muth runs next is left open, where the code runs the resumed one first, so there
are more interleavings here than in the program. stdio's buffers are taken to be part of the pipe,
whose size is a constant. A read from or a write to a socket succeeds or fails, with no state of
the peers, who may do anything; the timeouts of 60 and 600 s are some of the failures. Parameters and
the request body are one step (`Send`), as none of it is told apart. A unit of the answer is the number of the record
that brought it; in callscgi, of what was read from the handler at a time. `CutOff` is the
undefined behaviour of freeing a record's data twice, when it aborts the program; when it does not, `OutRecv` covers it.

**Dirplex** (`src/dirplex/`). A request is followed element by element: `Recv` takes the
time once, and each action after that ends where a configuration may be read (getconfigs() and
findmatch() look at every directory up to the root), so that an edit, a crash or a second can come between any two
looks. `cf` is the cache, with the times of each check and of the file; `Reread` merges the children of the old version into the
new one and frees the rest, `StdChild` being shared with patplex. `frames` are the searches that a reparse with `c`
interrupts, and that go on when it finds nothing. A file that goes away between stat() and its use makes the code use a null pointer (`dirplex.c:289`), which is the end of the
process here. File name patterns are sets of names, paths are sequences, and a change of a file within the second of its
last one does not show in its mtime.

**PyServe** (`python/ashd/serve.py`). The main thread of each of the four handlers -- `single`, `free`, `pool` and
`rplex` -- with the threads it starts (`rplex` is the name on the command line of `resplex`). A block under a lock, up to a wait() on its condition, is one step; that is what other
threads see. A notification is a flag of the waiter, so that one that comes too early is lost as in Python, and a timed wait may
end at any time. `Bodies` are what the application's iterator may give. The client takes bytes, or stops (`Flush`), or goes.

**BufIo** (`lib/bufio.c`, mtread(), mtwrite() and mtclose() of `mtio.c`). Calls in any order by one user. The read and write
operations below have any outcome each time: some bytes with or without a descriptor, an error, end-of-file. `Compact` is the
memmove() of a buffer, `Sizebuf` how far sizebuf() grows one.

**ReqSock** is the SEQPACKET socket between two programs, as operators on a record: a queue with room for `Room`, and
what each end did to it (close, shutdown). It tells a full socket from one that refuses, which is what the programs
branch on.

**HtTimed, AccessLog, HtRcall, Chain** (`src/httimed.c`, `src/accesslog.c`, `src/httrcall.c`). Each program is a module
with its `Next`; Chain puts one of the first two before httrcall, and makes requests, SIGHUPs, kills, locks that fail and renames of the file come from outside.
poll() and what is done with its result are separate steps, and so is the send that may block. In httrcall SIGCHLD is held back but in
`blocked` and `reap`. In accesslog each system call of reopenlog() is a step, as others rename, make and lock files in
between: the log may be renamed away, and an old one back, at any time. lockfile() may fail because another process has the
lock, or for another reason, and then accesslog goes on without one (`NoLock`, `RelockNone`). Without `-e` a request is passed on first (`PassOn`)
and its record written after that (`WriteRecord`), when the child may have answered it already; `owed` is the request in between. With `-e` its muth
writes it at the end of the answer.

**HtPipe, Userplex, Shared** (`src/htpipe.c`, `src/userplex.c`). Several htpipe programs with one path, the servers they fork
and the userplex below each server. mklisten() is cut between stat(), unlink(), bind() and listen(), which is where a
second program comes in. The processes of users have their own steps between fork() and exec: login(), the exec that may
fail, and the answer given by the child itself after it has thrown away the request that is on its way to it. In userplex the
socket pair is made before getpwnam() and fork(); when these fail both ends stay open (`leaks`). sendreq2() may fail for other reasons than that
the process is gone or busy (`SendError`), and then its socket is closed. `stolen` and `disturbed` are history.

## Runs

| Run | Instance and bounds | Shows |
|---|---|---|
| `mtpipe` | 3 muths, one of which holds both ends; buffer of 2, chunks of 1 and 2, reads of 1 and 2, 4 bytes offered | `NoLostWakeup`, `MemorySafe`, and the refinement `StreamSpec` |
| `mtio_epoll` | 2 muths sharing two descriptors, 1 listener; waits for one or two descriptors, a timeout only, a refused descriptor or nothing; 3 waits, 2 calls of ioloop(), clock to 2 | `ListsAgree`, `TimeoutsOrdered`, `WalksSafe`, `TimeoutsFire` |
| `ratequeue` | 3 sources, two with the same hash, from a table of 2 slots; two configurations; 4 requests in 3 ticks; a SIGHUP | `StoreAgrees`, the refinement `BucketSpec`, and `Answered` |
| `htparser` | 2 ports, 2 connections at a time, 2 signals | `PortsServed`, `PidTells`, `Stops` |
| `patplex` | 2 versions of the file and a global one; 2-3 stanzas each; 3 requests, 3 processes, 4 descriptors, a socket for 1 request; 2 signals | `SocketsOwned`, `OneAnswer`, `BestMatch`, `ChildrenKept` |
| `callfcgi` | callfcgi in anonymous mode, callscgi in launching and mixed mode (path and port) and as a client (port); 2 requests, 2 records, pipes of 1; 2 processes, 1 retry | `HandlersManaged`, `AnswerOwn`, `NoneWaitsInVain`, `Released`, `Answered` |
| `callfcgi_launch` | the same | finding: `LaunchedIsFound` fails |
| `dirplex` | a tree of three directories, two of which have one of four versions of `.htrc`, and a configuration of `-c`; 2 of 8 request paths; 1 edit, 3 seconds, any age counts as old; 2 processes, 3 descriptors, a socket for 1 request | `SocketsOwned`, `OneOutcome`, `Fresh`, `HeldAlive` |
| `pyserve` | each of the four handlers; 3 requests, 2 threads, a queue of 1, buffers of 2 chunks; iterators that end, give something empty or raise | `Accounted`, `Served` |
| `bufio` | buffers that begin at 2, calls of 0, 1 and 3 bytes, 4 bytes written, 2 descriptors | `Faithful` |
| `chain` | httimed with a time of 1, or accesslog with or without `-e`; 2 requests, 1 child at a time, sockets for 1 request; 3 events from outside (requests, SIGHUPs, kills, locks that fail, changes of the log), 2 files | `Carried`, `LogOwned`, `AllEnd`, `FollowsChild` |
| `shared` | 2 htpipe programs, 2 requests of one user, 3 socket pairs to processes, sockets for 1 request; 4 events from outside (starts, requests and their end, crashes, failures) | `Placed`, `Known`, `Decoupled`, `Settled` |

Why the bounds are enough. A buffer of two bytes is empty, partly full and full,
with writes that are cut; three muths are a reader, a writer and one
that is either, so that EBUSY, a wake-up of the wrong muth and a nested close
happen. Two muths and two descriptors make lists of two, in which the other's
blocker is first, second or gone when a walk comes back, and a heap of a few
elements, where what comes from the end into a hole may have to sink; that it may have to rise takes
six or more, which `TimeoutsAlwaysOrdered` covers, as it does any size; two calls of ioloop() give registration of waits that were made
outside. Two of three sources that collide, in tables of 2, 4 and 8 slots, make
runs that wrap around and holes that are moved over; the
smallest table is 2 slots where the code's is larger, which the code does
not depend on. Two signals are all that htparser tells apart. In patplex the two files
share a child, drop one, add one and declare one twice; each has stanzas that beat
one another, by priority and by order, with and without captured strings; a request goes round once or
twice; and with 4 descriptors and 3 processes one start of a child may fail, and lose a pair of sockets, and
others still succeed. The third request finds a child that was started by the first and has ended, is busy
or was taken over in between. Two records are one that fills a pipe and one that has to wait for it, or
an end of one stream before data on the other; two requests and two processes let the first be answered while the second
finds the handler dead, kills it and starts another. Each program is looked at in the modes whose
states differ: they share `Connect`, and the request's muths do not depend on the mode. Client mode with a path
is left out, since there no connection can succeed (see below).

In dirplex the four versions of a file have rules of every type, a capture, a reparse with and without `c`, a child
that is declared twice and one that another version does not declare; one edit replaces or removes a version that is in use,
and three seconds make it be read before, in and after the second it is edited in. `CheckAge` is 0 where the code has 5: what counts
is whether a configuration is old at a look, and a larger age only makes the clock longer. In pyserve two threads and three
requests make the third wait, find a thread of the pool about to leave, or find the queue full. A buffer that begins at 2 is
compacted, grown and cut by calls of 3. In chain a limit of one child makes the second request wait for SIGCHLD; a time of 1, the least that httimed takes, is enough for a
poll() that is late by more than that; two files are the old log and the new one. In shared four events are two starts, a request of each program or
two of one, and a crash, a failure or the end of input; one user is enough for a request to meet its dead process, a pair that no process has, and the successor.
That no request goes to a process of *another* user cannot fail with one user: this part of `Placed` is left to `AlwaysPlaced`, which has any number.

All configurations have `CHECK_DEADLOCK FALSE`: muths may all have ended, the
clock and the number of requests are bounded, and programs exit.

### Fairness

- `mtio_epoll`: the one thread goes on (`Onwards`): ioloop() takes its next step, main()
  calls it again, and a muth that was resumed comes back from its own code. Time
  passes. Nothing is assumed of descriptors, other muths or signals.
- `ratequeue`: the loop goes on and time passes.
- `htparser`: main() goes on; epoll_wait() returns again and again while a
  connection waits, as each wait has a timeout (`Wakes`); and a
  connection that can end its wait in infinitely many batches does (strong fairness:
  its timeout comes in some batch). A client that sends one byte a minute for ever
  could put off that timeout, and is excluded, as is a response that never ends.
- `callfcgi`: a step that a muth can take is taken. For a socket that is its timeout, at the latest; for a pipe it is
  only when there is data, room or an end, so that muths waiting for one another would be found.
  connect() does not say EAGAIN for ever. Handlers, clients and signals are free.
- `chain`: each program takes its next step when it can, time passes, and a transient child ends (`KidEnds`), which httrcall
  itself waits for. Requests, SIGHUPs, kills and the files are free.
- `shared`: some program takes a step as long as any can (`WF_vars(Work)`), which is less than what a scheduler gives. It
  suffices as every step of the programs uses something up.
- `pyserve`: the main thread, the thread of `rplex` and each other thread take their steps; a client takes bytes when it can again and
  again (strong fairness, as the buffer may fill and empty in between). Aborting and the end of the client are free. `Served` names the cases that the
  code gets wrong (below), instead of assuming them away.

### Findings

- **Unix paths in callscgi and callfcgi.** econnect() unlinks the path before connect()
  (`callscgi.c:307`, `callfcgi.c:320`), as if it were about to bind it. With `-u` or `-i` it
  never reaches a server that was bound before: launching mode exits on its first request, and client mode
  cannot work; in mixed mode the program has to bind after the last unlink() and within the second.

Known from reading, without a run. In htparser and patplex:

- serve() loops while `plex >= 0`, but nothing sets
  `plex` to -1 (`htparser.c:363`, `:512`). After a shutdown, a connection that may be kept goes back to waiting for a
  request, up to a minute, which would then be dropped; the manual says that
  connections are not kept.
- The handler of signals stores 1 in `exitstatus`: two signals within one batch
  count once, one between two calls of ioloop() is forgotten (`mtio-epoll.c:274`), and one
  between the test and epoll_wait() waits for the next event. The manual says that
  the second signal shuts the program down completely.
- `mstr` is reset once per list of patterns
  (`patplex.c:434`). When two stanzas with an `s` rule match, the later one with the
  higher priority, the strings of the first are freed at line 466 and, through the
  match that still holds them, at 486, which by then may be the memory of the second's.
  What $0 becomes is then undefined. A stanza *without* such a rule that
  comes after one with it takes over the first's strings, which were freed at 486, and frees them again
  at the end; `Match` and `FreeMatches` model that as well.
- `${HEADER}` in a `restpat` leaves the name and the braces in the text
  (`patplex.c:363-370`; `Expand` does the same). It takes one test to see.
- `reload = 0` comes after the configuration was read (`patplex.c:641`, `ratequeue.c:514`): a SIGHUP in between is lost.

In callscgi and callfcgi:

- recvrec() frees the data when the connection ends within them, and leaves the pointer to
  outplex(), which frees it again (`callfcgi.c:598`, `:658`). A handler that crashes while it
  writes a record makes free() abort callfcgi (`CutOff`), and all requests with it; in anonymous mode the handler,
  if it lives, is left running.
- `callscgi.doc` says that launching and mixed mode first try to connect, and start the program if that fails;
  startconn() starts it at once (`callscgi.c:332-337`).
- A request without a body sends two empty STDIN records (`callfcgi.c:715-722`).
- An answer that the handler's end cuts short is passed on as if it were whole: passdata() cannot tell.

In dirplex, all of which `Dirplex` does as well:

- A file that is changed twice in a second is not read again, as its mtime is the same; `Fresh` allows just that.
- A reparse without `c` whose target does not exist ends the request without an answer.
- What stdforkserve() returns is not looked at: if fork() fails, nobody answers.
- An absolute reparse to the root makes the path of `.htrc` begin with a slash, and its child chdir() to "", which fails; the
  comment at `dirplex.c:51` expects otherwise. A reparse to `.` can go round for ever.
- A file that goes away between two looks is used through a null pointer (`dirplex.c:289`).

In `serve.py`:

- A thread of the pool whose wait() times out leaves without looking at the queue again. If a request was put there in between, and
  no other thread is idle, it waits until the next one comes (`serve.py:289`; `lapsed` in `Served`).
- In `rplex`, an iterator that gives an empty chunk when nothing is buffered is not asked again (`Stalled`), and close() cuts off
  responses that are under way.

In the adapters and the libraries:

- httimed passes a negative time to poll(), which is for ever, when it was blocked in a send for longer than its time
  (`httimed.c:100`; `WaitsForever` in `AllEnd`).
- accesslog without `-e` that is killed between sendreq() and logreq() (`accesslog.c:222`, `:226`) leaves a request without a record that was passed
  on, and perhaps answered (`al.owed` in `Carried`).
- accesslog loses its lock when the log gets its name back between stat() and fopen() of reopenlog(), as the comment there says
  (`accesslog.c:372-379`), and goes on without one when locking fails (`:397`, `:554`); `fs.bare` in `LogOwned`. The next log that it opens and
  locks ends either.
- accesslog with `-e`: a SIGHUP replaces the exit status of ioloop() that the end of the child has just set (`accesslog.c:306`,
  `al.missed` in `FollowsChild`), and is lost itself while the log is being reopened; the exit of listenloop() cuts off requests that were
  not logged yet.
- When getpwnam() or fork() fails in userplex, the pair of sockets stays open for as long as it runs (`userplex.c:138-145`; `leaks` in
  `Known`); a request that finds the socket full is dropped without an answer.
- Of two htpipe programs that start at once, one's server may unlink the socket of the other's (`stolen` in `Decoupled`), or one may fail whose
  server lives no more, as it found the path taken (`disturbed`).
- The test of biowritesome() that "should never be false" (`bufio.c:273`) is, when nothing was in the buffer before and the write fails;
  mtsend() closes the descriptor that it was to pass also when sendmsg() says EAGAIN. `BufIo` models both.
- The children of multifscgi inherit its signal mask, in which SIGTERM is blocked; and when fork() fails the parent goes on with fewer (`multifscgi.c:55`, `:59`).

## Proofs

For every value of the constants, from the named assumptions of the modules:

- `MuthProofs`: first one lemma per operator of `Mt`, that it keeps `Chain`: the contexts that
  have been entered form one chain from the running one down to the main context, no
  two entered from the same one. So a muth that yielded can be resumed, and a running
  one always has somewhere to yield to. Then `TypeCorrect`, `NoWakeupLost`, `Safe` (no abort, no use of a freed
  pipe) and `Implements` (refinement of `ByteStream`), all from `Invariant`. The
  properties are not inductive alone. What they rest on: `Waiters` (the muth asleep in
  piperead() is *the* muth in `p->r`, and no other), `Users` (a context below the running
  one is in its user's code or in a nested resume that is the last thing its call does),
  `Files` (which ends are closed, and when the pipe is freed) and `Buffer` (what was taken is what was
  returned and what is in the buffer).
- `MuthProofs` on htparser: `HtTypeCorrect`, `PortsAlwaysServed`, `PidFileTells`, from `HtInvariant`:
  `PlexOpen` (a listener is left exactly while the socket is open, and plexwatch() is one of them),
  `BackIdle` (ioloop() returns 0 only when nothing waits) and `StatusSignalled` (an exit
  status of 1 comes from a signal, and after the newline from a second one).
- `MuthProofs` on the event loop: `ListsAlwaysAgree`, `TimeoutsAlwaysOrdered` and `WalksAlwaysSafe`, for any muths, descriptors,
  waits and timeouts, from `IoInv` (`IoSafe`). What the lists should hold is known only from the muths that wait, and the three
  properties need one another, since a muth that is resumed too early, or from a blocker that is gone, breaks the lists. Beside the chain of
  contexts of `Mt`, `IoInv` says: `Sleepers` (a muth that waits has yielded, unless it is the running one and about to leave its block(); the contexts below the running
  one are in their own code: so ioloop() may resume whatever it finds in a list or in the heap); `Waits` (the blockers
  of a muth are those of its last call, on different descriptors, and a `Lone` muth shares its own with nobody); `Listed` (each list
  has the blockers of those muths, each once, and while the first loop of ioloop() is under way the registered ones are those that the walk
  has passed, or that were added inside it); `Heaped` (the heap is a heap, of exactly the blockers that have a timeout);
  `Walks` (the saved `nbl` is in the list that is walked; it is neither of the muth that runs, since
  no muth has two blockers on one descriptor and one that is resumed with an error has one alone, nor of a listener that other code may resume) and `Clock`.
  Below that are lemmas on lists of any length (`Without` keeps the order and removes just what it is told) and on heaps of any size: `ThRaise` and
  `ThLower` are recursive functions on positions, and what they do is an induction on the position, upward to the root and downward from the end,
  that `AddKeeps` and `DelKeeps` put together: after an insertion or a deletion the heap is ordered, has one element more or less and
  knows the position of each. A deletion takes both: what comes from the end may have to rise *or* to sink.
  Assumed: descriptors are natural numbers, those that epoll refuses are others than those it takes, a call waits for at most two
  and not twice for the same (mblock() has one caller, passduplex(), with two sockets).
- `MuthProofs` on ratequeue: `LeaksLikeBuckets`, the refinement of `LeakyBucket`, for any sources, sizes, rates and
  reloads, from `BucketInv` (`BucketsAlwaysTimed`): those that have a bucket are those in the heap, so that what checkbtime() is
  called with exists, and no time of a bucket lies in the future. The level of a source is mapped to what its bucket
  would leak to now, and to 0 where there is none: hence one lemma says that tickbucket() leaves that level and what the requests it
  sends add to it (`TickedIs`, with the rounding of each division), one that a bucket is freed only when level and queue are
  empty (`CheckIs`), and one that a tick takes the rate from every level, looked at or not (`TickLeaks`). In the abstract bucket a level changes by
  `Tick`, by requests that pass, or when *another* configuration is read, and then only up if the rate went down and only down if it went up (as the time since the
  last look is then leaked at the new rate): so to free a bucket that is not empty, or to forget one, is no step of it.
  `StoreAlwaysAgrees` adds the hash table, of any size and with any hash: slots are compared by their distance around the table
  (`HomeIs`, `StepsAre`), and a table is good when from the slot that a bucket hashes to one comes to the bucket before one comes to a free
  slot. `HashGetIs` and `HashDelIs` keep that. The loops of rehash() and hashdel() are recursive functions, and what they do is an induction on the
  turn. For the deletion its invariant is `Shifted`: all buckets can be reached, except that the hole may lie before those which the loop has yet to
  come to; the free slot at which the loop ends is there because a table is never more than half full.
  Two theorems say what a limiter is for. `RateAlwaysKept` counts: for any source and from any moment, until
  another configuration is read, the requests passed cost less than what leaked in that time plus a full bucket and one request
  (`Within`: what passed is within the level now, a leak is within the time that it took; `OwnQueue`: a queue has requests of its own source only,
  so that only this bucket's level pays for them). `EachOnceInOrder` follows a request from the socket on: it was passed, or it waits, or it was
  refused, one of these and once, and those of a source pass in the order in which they came, also when their bucket was freed and made anew
  in between, or a reload made it bigger or smaller (`PlaceInv`, about what passed followed by what waits, per source).
- `StdChildProofs`: lemmas about one call. `HandleReplaces`: stdhandle() exchanges at most
  the declaration's socket for one that was not open, or for none, whatever fails; `HandleTells`: it
  returns 0 exactly if it sent the request; `MergeHandsOver` and `FreeCloses`: a reload gives
  each socket to one new declaration or has it closed, also when names are declared twice.
- `PatplexProofs`: `EachAnsweredOnce`, `SocketsAccounted`, `AlwaysBest` and the action property `AlwaysKept` (the properties of
  the run), from `Invariant`: `Serving` (which request is served at which place of the
  loop); `Accounts` (the sockets of the two lists of children are disjoint, unshared, and all there are); `Parsed` (the patterns in
  memory are those of a file); `Nested` (the matches of the open calls of serve() are the patterns that are disabled, each once: also what
  `BestMatch` says of a pattern being enabled again);
  and `Chosen` (the match is the best of the others). What findmatch() finds is an induction on the patterns that it has come to
  (`Best`), stated over the least one at which it would fail. `AlwaysKept` rests on `MergeKeeps`: of a name that is declared twice
  the old list's first and the new list's first are the ones that count.
  Assumed: descriptors are natural numbers, and finitely many; a declaration has a name and one of two types; a pattern has a
  priority and a list of rules.
- `DirplexProofs`: `SocketsAlwaysOwned`, `AlwaysOneOutcome`, `AlwaysFresh` and the action property `AlwaysHeldAlive`, from
  `Invariant`. Its parts: `Good` (the configurations in memory are typed, their children's sockets are unshared and all there are, and
  each is that of the file at its last check unless the mtime did not tell); `Control` (the outermost search is final, and every other
  one has a search to return to, with an element left to look at; the outcomes are those of the requests that are over); and
  `Holds`: the configuration that is in use is one of `-c` or of the system, or one whose check is not due. That is why it lasts:
  getconfig() reads only what is due, and dirplex takes the time once for each request. `VisitsAll` is
  the induction on the way up that getconfigs() goes (`Visited`: what it has looked at is not due any more, and what was
  not due is untouched); `Exchanged` is the one lemma on sockets that reading, merging, freeing and handling a child all rest on.
  Assumed: the tree is closed (what is in a directory has that directory), no path has the name of a place of `Fixed`, and a request
  has at least one element.
- `CallFcgiProofs`: `HandlersAlwaysManaged` from `Handled` (in anonymous mode `curaddr` is the
  address of the last process that was started, startconn() comes only when there is none, and all earlier ones have been sent a
  SIGTERM); `AlwaysReleased` and `NoneEverWaitsInVain` from `AllHeld`: which of a request's muths holds which FILE
  at each of its places, which request listenloop() still has in hand, and that serve() has called shutdown()
  by the time it leaves; `AnswersAlwaysOwn` from `AllPassed`: until serve() leaves, what the server has sent is
  what the client was given, what is in the pipe and what outplex() holds, in that order. For any number of
  requests, records and processes and any size of pipe. `AlwaysTyped` is the type invariant, with the bound of a pipe.
- `ChainProofs`: `LogAlwaysOwned`, from `LogInv`: a file that is made gets a number that was never used, so that
  after stat() has found another file, or none, at the path, fopen() opens the log that is open already only if it got its name back in between. Then
  fclose() gives up the lock on the new log with that on the old, and only then; a lock that cannot be had is the other exception. Both end when the next log is
  locked, and at no time does accesslog have a lock on another file than its log, or one that somebody else has. `AlwaysCarried`, from `Whole` with `LogInv`: `Carried` alone is not inductive,
  since it says nothing of a program between two calls. `TimedOK`, `AccessOK` and `RcallOK` say when each has a request in hand, and
  that httrcall's `running` lacks just the child that serve() is about to enter, which is what keeps fork() within the limit;
  `Apart` that no request is with two of them, `UnderWay` that it is with one as long as nobody answered it and it is not lost;
  `Records` what is in the log, and what filterreq() did, for a request that accesslog did not come to yet, and that the one it owes is passed on and has no record. A step then either moves
  one request, removes some or none; one lemma stands for each (`Moved`, `Removed`, `Unmoved`).
  The same module proves `AlwaysFaithful` of bufio, from `BioInv`, with its parts `ReadOK`, `WriteOK` and `FdsOK`: what is read and
  what is left to read are `Source`, what was written and what is pending are what was accepted, a head
  never passes the end of its data nor the data the size, and a descriptor is open exactly as long as the file or its user has
  it. Each helper (`Ready`, `Flushed`, `Ensured`, `Some`) keeps what is pending: `ReadyIs`, `FlushedIs`, `EnsuredIs`,
  `SomeWrittenIs`. That the doubling in sizebuf() ends at a size that is enough, `SizebufIs`, needs the
  function of the doubling to exist. It does on ever larger parts of its domain, counted from the top: among the parts on which
  it did not there would be a smallest (`LeastNat`, `DoublesEnd`).
- `SharedProofs`: `TypeCorrect` and `AlwaysKnown`, from `Types` (with the hands of the programs that have a request) and `Owned`: each
  entry of userplex's list is an open socket to a process of that user that no other list has, processes that were not forked yet
  have untouched sockets, and an open one is in a list, or is one of the `leaks` of one userplex, which has no process. `AlwaysPlaced`, from `Whole`, which adds `AllSingle` (a request is in one queue or
  one hand as long as it is under way), `Queues` and `Hands` (no queue has it twice, and each program has one in hand only at certain
  places) and `Starters`: a process that did not come to exec, or that could not, has the request it was forked for first in its
  queue, so that this is the one it discards and answers itself. `AlwaysDecoupled`, from `Found` and `Calm`. `Found` holds until a socket
  is stolen: who listens is at the path, and a program that waits for its server finds it there unless that has ended. `Calm` holds while nothing was `disturbed`:
  one program at a time has found no server and is not connected; it waits for the server that it forked, and nobody else listens or is about to. So
  programs that start at once *are* in the theorem: what it says of them is that they do no harm short of stealing a socket, and that nothing else steals one.
- `PyServeProofs`: `AlwaysAccounted`, from `Whole`: `Threads` (what each thread does tells whether it serves a request, and the lists
  `current` and `waiting` and the waiters of the condition are the threads at the places of the code that enter them, no more than `max`)
  and `Requests` (a request is with the main thread, with a thread, in the queue of the pool, in that of the response thread or
  in its buffers: at one of them at most and there once, with close() still to come; at none, it was closed once).

Only model-checked: liveness (`TimeoutsFire`, `Answered`, `Stops`, `Served`, `AllEnd`, `FollowsChild`, `Settled`), which
needs ENABLED and fairness. Every safety property of the runs that hold is a theorem.

## What is left

Modules, in this order: the cache of **compress** (several processes that compress, rename and clean the same files),
**multifscgi** (its children and signals) and **htextauth** (its cache).

## Not modelled

- Parsing and formatting: HTTP, headers, configuration files, CGI environments, MIME types, log formats, compression. Sequential
  code on data.
- TLS (`ssl-gnutls.c`, `ssl-openssl.c`): the state machine is that of the libraries.
- `mtio-select.c` and `mtio-kqueue.c`, the event loop for other systems.
- `callcgi`, `sendfile`, `psendfile`, `errlogger` and `htls`: straight-line I/O for one request at a time.
- `multifscgi`, `htextauth` and `compress`, as above; the options `-C` and `-S` of htpipe.
- The Python modules other than `serve.py`: they format, parse, or run in one thread of an event loop.
- The stacks of muths, memory allocation and logging.
