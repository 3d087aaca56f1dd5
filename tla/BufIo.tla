------------------------------- MODULE BufIo -------------------------------
(***************************************************************************)
(* lib/bufio.c over a socket of lib/mtio.c: what a user of a struct bufio  *)
(* reads and writes, and the descriptors that are passed along with it.    *)
(*                                                                         *)
(* A buffer is a record [data, h, s]: the bytes in it, the head that was   *)
(* read or written already, and its size.  A call of ops->read or          *)
(* ops->write has any outcome: some bytes, or an error, a timeout among    *)
(* them.  The copying functions go from the read buffer to the write       *)
(* buffer; in the code they belong to two files, which share nothing.      *)
(***************************************************************************)
EXTENDS Integers, Sequences, FiniteSets

CONSTANTS Hint,      \* bufhint
          Source,    \* the bytes that the other end sends before end-of-file
          Lens,      \* the sizes of the calls
          MaxBytes,  \* bound on the bytes that the user writes
          MaxFds     \* bound on the descriptors that come or are sent

ASSUME BufIoAssumption == /\ Hint \in Nat \ {0} /\ Lens \subseteq Nat
                          /\ Source \in Seq(Nat)
                          /\ MaxBytes \in Nat /\ MaxFds \in Nat

VARIABLES rbuf, wbuf,
          eof,
          input,     \* what the other end has sent, or will
          job,       \* what is left of the bytes of a biowrite(), and is to be written now
          rights, sendrights,
          open,      \* all descriptors that are open because of this file
          taken,     \* by the user, with their `rights' set to -1
          isopen,    \* bioclose() was not called
          got,       \* history: the bytes that the user was given
          accepted,  \* history: those of his that he was told are taken
          output,    \* history: those that were written
          nfds       \* history: the number of descriptors

fds == <<rights, sendrights, open, taken, nfds>>
reading == <<rbuf, eof, input, got>>
writing == <<wbuf, job, accepted, output>>
biovars == <<fds, reading, writing, isopen>>

NoFd == 0
NewBuffer == [data |-> <<>>, h |-> 0, s |-> 0]
Pending(b) == SubSeq(b.data, b.h + 1, Len(b.data))
Space(b) == b.s - Len(b.data)
MovedDown(b) == [data |-> Pending(b), h |-> 0, s |-> b.s]
Emptied(b) == [data |-> <<>>, h |-> 0, s |-> b.s]
AtLeast(n, m) == IF n < m THEN m ELSE n
\* sizebuf(): the size is doubled until n fit.
Sizebuf(s, n) ==
  LET Doubled[m \in 1 .. AtLeast(s, 2 * n + 1)] == IF m >= n THEN m ELSE Doubled[2 * m]
  IN  Doubled[AtLeast(s, 1)]
AtMost(n, m) == IF n < m THEN n ELSE m

BioInit == /\ rbuf = NewBuffer /\ wbuf = NewBuffer
           /\ eof = FALSE
           /\ input = Source
           /\ job = <<>>
           /\ rights = NoFd /\ sendrights = NoFd
           /\ open = {} /\ taken = {}
           /\ isopen = TRUE
           /\ got = <<>> /\ accepted = <<>> /\ output = <<>>
           /\ nfds = 0

\* The user is not in the middle of a call.
Idle == isopen /\ job = <<>>

-----------------------------------------------------------------------------
(* mtread() and mtwrite()                                                  *)

\* mtrecv(): descriptors come with the bytes; one is kept, if there is none, and
\* the others are closed.
RecvRights == \/ UNCHANGED fds
              \/ /\ nfds < MaxFds
                 /\ nfds' = nfds + 1
                 /\ IF rights = NoFd THEN rights' = nfds + 1 /\ open' = open \cup {nfds + 1}
                    ELSE UNCHANGED <<rights, open>>
                 /\ UNCHANGED <<sendrights, taken>>

\* mtsend(): sendrights is sent, or lost if sendmsg() fails, and closed.
SendRights == /\ sendrights' = NoFd
              /\ open' = open \ {sendrights}
              /\ UNCHANGED <<rights, taken, nfds>>

-----------------------------------------------------------------------------
(* Reading.                                                                *)

\* biofill() before it reads: the buffer is emptied, moved or enlarged, so that
\* there is room, and made smaller again when that is enough.
Ready(b) ==
  LET c == IF b.h = Len(b.data) THEN Emptied(b) ELSE b
      d == IF Space(c) > 0 THEN c
           ELSE IF c.h > 0 THEN MovedDown(c)
           ELSE [c EXCEPT !.s = Sizebuf(@, AtLeast(2 * @, Hint))]
  IN  IF d.s > Hint /\ Len(d.data) < Hint THEN [d EXCEPT !.s = Hint] ELSE d

\* biofill().  A read into no room returns 0, which is end-of-file.
Fill == LET b == Ready(rbuf) IN
        IF eof THEN UNCHANGED <<rbuf, eof, input, fds>>
        ELSE \/ \E k \in 1 .. AtMost(Space(b), Len(input)) :
                  /\ rbuf' = [b EXCEPT !.data = @ \o SubSeq(input, 1, k)]
                  /\ input' = SubSeq(input, k + 1, Len(input))
                  /\ RecvRights
                  /\ UNCHANGED eof
             \/ /\ rbuf' = b
                /\ eof' = (input = <<>> \/ Space(b) = 0)
                /\ UNCHANGED <<input, fds>>

\* biofillsome(), and a turn of biorensure().
FillSome(n) == /\ Idle
               /\ Len(Pending(rbuf)) < n
               /\ Fill
               /\ UNCHANGED <<writing, got, isopen>>

\* bioreadsome(), and biogetc() for one byte.  Without data they come back here
\* after biofill().
ReadSome(n) == /\ Idle
               /\ rbuf.h < Len(rbuf.data)
               /\ LET k == AtMost(n, Len(Pending(rbuf))) IN
                    /\ got' = got \o SubSeq(Pending(rbuf), 1, k)
                    /\ rbuf' = [rbuf EXCEPT !.h = @ + k]
               /\ UNCHANGED <<eof, input, writing, fds, isopen>>

-----------------------------------------------------------------------------
(* Writing.                                                                *)

\* bioflush() of b: all of it, or some before an error.
Flushed(b) == {[b |-> [b EXCEPT !.h = Len(b.data)], ok |-> TRUE]}
                \cup {[b |-> [b EXCEPT !.h = k], ok |-> FALSE] : k \in b.h .. Len(b.data) - 1}
Writes(b, c) == output' = output \o SubSeq(b.data, b.h + 1, c.h)
SendsIf(tried) == IF tried THEN SendRights ELSE UNCHANGED fds

\* biowensure(): the buffer is flushed if n bytes do not fit, and resized.  The
\* middle is how far it was written.
Ensured(b, n) ==
  IF Space(b) >= n THEN {[b |-> b, mid |-> b, ok |-> TRUE]}
  ELSE {[mid |-> f.b, ok |-> f.ok,
         b |-> IF ~f.ok THEN f.b
               ELSE [Emptied(f.b) EXCEPT !.s = IF b.s > Hint /\ n <= Hint THEN Hint
                                               ELSE Sizebuf(@, AtLeast(n, Hint))]] : f \in Flushed(b)}

Tries(b, n) == Space(b) < n /\ Pending(b) # <<>>

\* The next n bytes of the user's.
Bytes(n) == [i \in 1 .. n |-> Len(accepted) + i]
Allowed(n) == Len(accepted) + n <= MaxBytes

\* bioflush() and bioflushsome().
Flush == /\ Idle
         /\ \E k \in wbuf.h .. Len(wbuf.data) :
              /\ wbuf' = [wbuf EXCEPT !.h = k]
              /\ Writes(wbuf, wbuf')
         /\ SendsIf(wbuf.h < Len(wbuf.data))
         /\ UNCHANGED <<job, accepted, reading, isopen>>

\* bioputc() for one byte, and bioprintf() of n, which is formatted again when
\* there was too little room for a format of f.
Printf(f, n) ==
  /\ Idle /\ Allowed(n)
  /\ \E e \in Ensured(wbuf, f) :
       \/ /\ ~e.ok
          /\ wbuf' = e.b
          /\ Writes(wbuf, e.mid)
          /\ SendsIf(Tries(wbuf, f))
          /\ UNCHANGED accepted
       \/ /\ e.ok /\ n < Space(e.b)
          /\ wbuf' = [e.b EXCEPT !.data = @ \o Bytes(n)]
          /\ Writes(wbuf, e.mid)
          /\ SendsIf(Tries(wbuf, f))
          /\ accepted' = accepted \o Bytes(n)
       \/ /\ e.ok /\ n >= Space(e.b)
          /\ SendsIf(Tries(wbuf, f) \/ Tries(e.b, n + 1))
          /\ \E g \in Ensured(e.b, n + 1) :
               /\ wbuf' = IF g.ok THEN [g.b EXCEPT !.data = @ \o Bytes(n)] ELSE g.b
               /\ output' = output \o SubSeq(wbuf.data, wbuf.h + 1, e.mid.h)
                                   \o SubSeq(e.b.data, e.b.h + 1, g.mid.h)
               /\ accepted' = IF g.ok THEN accepted \o Bytes(n) ELSE accepted
  /\ UNCHANGED <<job, reading, isopen>>

Putc == /\ Idle /\ Allowed(1)
        /\ \E e \in Ensured(wbuf, 1) :
             /\ wbuf' = IF e.ok THEN [e.b EXCEPT !.data = @ \o Bytes(1)] ELSE e.b
             /\ Writes(wbuf, e.mid)
             /\ accepted' = IF e.ok THEN accepted \o Bytes(1) ELSE accepted
             /\ SendsIf(Tries(wbuf, 1))
        /\ UNCHANGED <<job, reading, isopen>>

\* biowrite(), and each turn of its loop, with `job' for what is left.
Write(n) == /\ Idle /\ Allowed(n) /\ n > 0
            /\ job' = Bytes(n)
            /\ UNCHANGED <<wbuf, accepted, output, reading, fds, isopen>>
WriteTurn ==
  /\ isopen /\ job # <<>>
  /\ \E e \in Ensured(wbuf, AtMost(Len(job), Hint)) :
     /\ SendsIf(Tries(wbuf, AtMost(Len(job), Hint)) \/ Len(job) >= Space(e.b))
     /\ \/ /\ ~e.ok
          /\ wbuf' = e.b /\ job' = <<>>
          /\ Writes(wbuf, e.mid)
          /\ UNCHANGED accepted
       \/ /\ e.ok /\ Len(job) < Space(e.b)
          /\ wbuf' = [e.b EXCEPT !.data = @ \o job]
          /\ job' = <<>>
          /\ Writes(wbuf, e.mid)
          /\ accepted' = accepted \o job
       \/ /\ e.ok /\ Len(job) >= Space(e.b)
          /\ \E f \in Flushed(e.b) :
               \E k \in IF f.ok THEN 0 .. Len(job) ELSE {0} :     \* 0 for an error
                 /\ wbuf' = IF f.ok THEN Emptied(f.b) ELSE f.b
                 /\ job' = IF k = 0 THEN <<>> ELSE SubSeq(job, k + 1, Len(job))
                 /\ accepted' = accepted \o SubSeq(job, 1, k)
                 /\ output' = output \o SubSeq(wbuf.data, wbuf.h + 1, e.mid.h)
                                     \o SubSeq(e.b.data, e.b.h + 1, f.b.h) \o SubSeq(job, 1, k)
  /\ UNCHANGED <<reading, isopen>>

\* The buffer of biowritesome() and biocopybuf() before they add to it.
Sized(b) == [b EXCEPT !.s = Sizebuf(@, Hint)]
Compact(b) == IF Space(b) = 0 /\ b.h > 0 THEN MovedDown(b) ELSE b
WriteReady(b) == LET c == Sized(b) IN
                   Compact(IF c.h = Len(c.data) THEN Emptied(c) ELSE c)

\* What biowritesome() may come to: its buffer, what it returns, or 0 for -1, how much
\* was written, and whether it tried to.
Some(b, ret, k, tried) == [b |-> b, ret |-> ret, k |-> k, tried |-> tried]

\* Mutant: the bytes stay in the buffer although -1 is returned.
SomeFailed_Stays(b, ret) == IF ret < Len(Pending(b)) THEN Some(b, 0, 0, TRUE) ELSE Some(b, ret, 0, TRUE)

\* When bioflushsome() fails the bytes are taken back, and -1 is returned; but
\* that if there were no others in the buffer the error is not reported.
SomeFailed(b, ret) == IF ret < Len(Pending(b))
                      THEN Some([b EXCEPT !.data = SubSeq(@, 1, Len(@) - ret)], 0, 0, TRUE)
                      ELSE Some(b, ret, 0, TRUE)

\* biowritesome() of data: what it may leave, and how much it takes.
SomeWritten(data) ==
  LET b == WriteReady(wbuf)
      ret == AtMost(Len(data), Space(b))
      c == [b EXCEPT !.data = @ \o SubSeq(data, 1, ret)]
  IN  {Some([c EXCEPT !.h = k], ret, k - c.h, TRUE) : k \in c.h + 1 .. Len(c.data)}
        \cup {IF Pending(c) = <<>> THEN Some(c, 0, 0, FALSE) ELSE SomeFailed(c, ret)}

WritesSome(data, o) ==
  /\ wbuf' = o.b
  /\ accepted' = accepted \o SubSeq(data, 1, o.ret)
  /\ output' = output \o SubSeq(Pending(wbuf) \o SubSeq(data, 1, o.ret), 1, o.k)
  /\ SendsIf(o.tried)
  /\ UNCHANGED job

WriteSome(n) == /\ Idle /\ Allowed(n)
                /\ \E o \in SomeWritten(Bytes(n)) : WritesSome(Bytes(n), o)
                /\ UNCHANGED <<reading, isopen>>

\* biocopysome() and biocopybuf(), which does not write.
Copies == Len(accepted) + Len(Pending(rbuf)) <= MaxBytes
CopySome == /\ Idle /\ Copies
            /\ rbuf.h < Len(rbuf.data)
            /\ \E o \in SomeWritten(Pending(rbuf)) :
                 /\ WritesSome(Pending(rbuf), o)
                 /\ rbuf' = [rbuf EXCEPT !.h = @ + o.ret]
                 /\ got' = got \o SubSeq(Pending(rbuf), 1, o.ret)
            /\ UNCHANGED <<eof, input, isopen>>
CopyBuf == /\ Idle /\ Copies
           /\ LET b == Compact(Sized(wbuf))
                  some == SubSeq(Pending(rbuf), 1, AtMost(Len(Pending(rbuf)), Space(b)))
              IN  /\ wbuf' = [b EXCEPT !.data = @ \o some]
                  /\ rbuf' = [rbuf EXCEPT !.h = @ + Len(some)]
                  /\ got' = got \o some
                  /\ accepted' = accepted \o some
           /\ UNCHANGED <<eof, input, job, output, fds, isopen>>

-----------------------------------------------------------------------------
(* Descriptors, and the end.                                               *)

\* The user takes the one that came, or gives one to be sent.
TakeRights == /\ Idle /\ rights # NoFd
              /\ taken' = taken \cup {rights}
              /\ rights' = NoFd
              /\ UNCHANGED <<sendrights, open, nfds, reading, writing, isopen>>
GiveRights == /\ Idle /\ sendrights = NoFd /\ nfds < MaxFds
              /\ nfds' = nfds + 1
              /\ sendrights' = nfds + 1
              /\ open' = open \cup {nfds + 1}
              /\ UNCHANGED <<rights, taken, reading, writing, isopen>>

\* mtclose(): a descriptor that the user did not take, or that was not sent, is closed.
CloseRights == /\ open' = open \ {rights, sendrights}
               /\ rights' = NoFd /\ sendrights' = NoFd
               /\ UNCHANGED <<taken, nfds>>

\* bioclose(), which ends with mtclose().
Close == /\ Idle
         /\ isopen' = FALSE
         /\ \E f \in Flushed(wbuf) : wbuf' = f.b /\ Writes(wbuf, f.b)
         /\ CloseRights
         /\ UNCHANGED <<job, accepted, reading>>

BioNext == \/ \E n \in Lens : \/ FillSome(n) \/ ReadSome(n) \/ Write(n) \/ WriteSome(n)
                              \/ \E f \in Lens : Printf(f, n)
           \/ Flush \/ Putc \/ WriteTurn \/ CopySome \/ CopyBuf
           \/ TakeRights \/ GiveRights \/ Close

BioSpec == BioInit /\ [][BioNext]_biovars
-----------------------------------------------------------------------------
(* Properties.                                                             *)

BufferOK(b) == /\ b.h \in 0 .. Len(b.data)
               /\ Len(b.data) <= b.s

BioTypeOK == /\ BufferOK(rbuf) /\ BufferOK(wbuf)
             /\ eof \in BOOLEAN /\ isopen \in BOOLEAN
             /\ {rights, sendrights} \subseteq 0 .. nfds
             /\ taken \subseteq 1 .. nfds

\* Whatever calls follow each other, and whichever of them fail half-way: the
\* user is given what came, in order, and end-of-file only at its end; what he
\* was told is taken has been written or is in the buffer, in order and once;
\* no buffer overflows; and each descriptor is closed once it is not needed.
Faithful ==
  /\ BioTypeOK
  /\ got \o Pending(rbuf) \o input = Source
  /\ eof => input = <<>>
  /\ output \o Pending(wbuf) = accepted
  /\ open = (({rights, sendrights} \cup taken) \ {NoFd})
=============================================================================
