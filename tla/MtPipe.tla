------------------------------- MODULE MtPipe -------------------------------
(***************************************************************************)
(* The pipe between muths of lib/mtio.c (mtiopipe()): piperead(),          *)
(* pipewrite(), piperclose() and pipewclose(), and any number of muths     *)
(* that use it.                                                            *)
(*                                                                         *)
(* A muth that finds the pipe empty (full) leaves itself in p->r (p->w)    *)
(* and yields; the other end resumes it, NESTED in its own call.  What the *)
(* resumed muth does then -- read or write again, close, free the pipe,    *)
(* wait for something else, end -- happens before the call that resumed it *)
(* returns.  The users are modelled as arbitrary code: a muth in its own   *)
(* code may do any operation, wait elsewhere, resume another waiting muth, *)
(* or end.  The only rules they keep are those of a FILE: no operation on  *)
(* a closed FILE, and no fclose() of one that a muth is blocked on.        *)
(***************************************************************************)
EXTENDS Mt, Naturals, Sequences

CONSTANTS Readers, Writers,  \* the muths that hold the read and the write FILE
          Byte,              \* the bytes that are written
          Chunk,             \* the buffers that pipewrite() is called with
          ReadLen,           \* the lengths that piperead() is called with
          BufMax,            \* p->bufmax
          MaxSent            \* bound on the bytes a behaviour offers to the pipe

ASSUME PipeAssumption == /\ Readers \subseteq Muth
                         /\ Writers \subseteq Muth
                         /\ Chunk \subseteq Seq(Byte) \ {<<>>}
                         /\ ReadLen \subseteq Nat \ {0}
                         /\ BufMax \in Nat \ {0}
                         /\ MaxSent \in Nat

VARIABLES data,     \* p->data, the bytes b[0 .. d - 1]
          closed,   \* p->closed: "r" for bit 1, "w" for bit 2
          r, w,     \* p->r, p->w
          freed,    \* freepipe() was called
          ends,     \* the FILEs that have not been closed
          pc,       \* where each muth is
          rlen,     \* the `len' of the piperead() that a muth is blocked in
          wbuf,     \* the `buf' of the pipewrite() that a muth is blocked in
          sent,     \* history: the bytes taken by pipewrite()
          rcvd,     \* history: the bytes returned by piperead()
          eof,      \* history: piperead() has returned 0
          epipe     \* history: pipewrite() has failed with EPIPE

pvars == <<data, closed, r, w, freed, ends>>
hvars == <<sent, rcvd, eof, epipe>>
uvars == <<pc, rlen, wbuf>>
vars  == <<mtvars, pvars, uvars, hvars>>

Min(a, b) == IF a < b THEN a ELSE b

\* "own": in the user's code; "else": waiting for something other than the
\* pipe; "rwait" and "wwait": in the yield() of piperead() and pipewrite().
Places == {"unborn", "own", "else", "rwait", "wwait", "ended"}

\* The type invariant: the coroutine switch's and the pipe's variables.
TypeOK == /\ MtTypeOK
          /\ data \in Seq(Byte)
          /\ closed \in SUBSET {"r", "w"}
          /\ r \in Readers \cup {NULL}
          /\ w \in Writers \cup {NULL}
          /\ freed \in BOOLEAN
          /\ ends \in SUBSET {"r", "w"}
          /\ pc \in [Muth -> Places]
          /\ rlen \in [Muth -> ReadLen \cup {0}]
          /\ wbuf \in [Muth -> Chunk \cup {<<>>}]
          /\ \A m \in Muth : /\ pc[m] = "rwait" => m \in Readers /\ rlen[m] \in ReadLen
                             /\ pc[m] = "wwait" => m \in Writers /\ wbuf[m] \in Chunk
          /\ sent \in Seq(Byte)
          /\ rcvd \in Seq(Byte)
          /\ eof \in BOOLEAN
          /\ epipe \in BOOLEAN

\* mtiopipe()
PipeInit == /\ data = <<>>
            /\ closed = {}
            /\ r = NULL
            /\ w = NULL
            /\ freed = FALSE
            /\ ends = {"r", "w"}

Init == /\ MtInit
        /\ PipeInit
        /\ pc = [m \in Muth |-> "unborn"]
        /\ rlen = [m \in Muth |-> 0]
        /\ wbuf = [m \in Muth |-> <<>>]
        /\ sent = <<>>
        /\ rcvd = <<>>
        /\ eof = FALSE
        /\ epipe = FALSE

-----------------------------------------------------------------------------
(* The parts of the four functions.                                        *)

\* Mutant: the reader is not resumed.
WakeReader_None == GoOn

\* `if(p->w) resume(p->w, 0)' and `if(p->r) resume(p->r, 0)'.
WakeWriter == IF w # NULL THEN Resume(w) ELSE GoOn
WakeReader == IF r # NULL THEN Resume(r) ELSE GoOn

\* The muth goes on in its own code: the pipe call has ended.
Ends(m) == /\ pc' = [pc EXCEPT ![m] = "own"]
           /\ rlen' = [rlen EXCEPT ![m] = 0]
           /\ wbuf' = [wbuf EXCEPT ![m] = <<>>]

\* The iteration of piperead()'s loop, and what follows it, when p->r is rr.
ReadStep(m, len, rr) ==
  \/ /\ data = <<>>                       \* return(0)
     /\ "w" \in closed
     /\ r' = rr
     /\ eof' = TRUE
     /\ Ends(m)
     /\ GoOn
     /\ UNCHANGED <<data, closed, w, freed, ends, sent, rcvd, epipe>>
  \/ /\ data = <<>>                       \* EBUSY
     /\ "w" \notin closed
     /\ rr # NULL
     /\ r' = rr
     /\ Ends(m)
     /\ GoOn
     /\ UNCHANGED <<data, closed, w, freed, ends, hvars>>
  \/ /\ data = <<>>
     /\ "w" \notin closed
     /\ rr = NULL
     /\ r' = m
     /\ pc' = [pc EXCEPT ![m] = "rwait"]
     /\ rlen' = [rlen EXCEPT ![m] = len]
     /\ Yield
     /\ UNCHANGED <<wbuf, data, closed, w, freed, ends, hvars>>
  \/ /\ data # <<>>
     /\ LET ret == Min(len, Len(data)) IN
          /\ rcvd' = rcvd \o SubSeq(data, 1, ret)
          /\ data' = SubSeq(data, ret + 1, Len(data))
     /\ r' = rr
     /\ Ends(m)
     /\ WakeWriter
     /\ UNCHANGED <<closed, w, freed, ends, sent, eof, epipe>>

\* pipewrite() returns EPIPE when p->w is ww.
WriteEpipe(m, ww) ==
  /\ "r" \in closed
  /\ w' = ww
  /\ epipe' = TRUE
  /\ Ends(m)
  /\ GoOn
  /\ UNCHANGED <<data, closed, r, freed, ends, sent, rcvd, eof>>

\* pipewrite() from its while on, when p->w is ww.
WriteStep(m, buf, ww) ==
  \/ /\ Len(data) >= BufMax               \* EBUSY
     /\ ww # NULL
     /\ w' = ww
     /\ Ends(m)
     /\ GoOn
     /\ UNCHANGED <<data, closed, r, freed, ends, hvars>>
  \/ /\ Len(data) >= BufMax
     /\ ww = NULL
     /\ w' = m
     /\ pc' = [pc EXCEPT ![m] = "wwait"]
     /\ wbuf' = [wbuf EXCEPT ![m] = buf]
     /\ Yield
     /\ UNCHANGED <<rlen, data, closed, r, freed, ends, hvars>>
  \/ /\ Len(data) < BufMax
     /\ LET ret == Min(Len(buf), BufMax - Len(data)) IN
          /\ data' = data \o SubSeq(buf, 1, ret)
          /\ sent' = sent \o SubSeq(buf, 1, ret)
     /\ w' = ww
     /\ Ends(m)
     /\ WakeReader
     /\ UNCHANGED <<closed, r, freed, ends, rcvd, eof, epipe>>

-----------------------------------------------------------------------------
(* The operations.  m is the muth that runs.                               *)

InOwnCode(m) == current = m /\ pc[m] = "own"

Read(m) == /\ InOwnCode(m)
           /\ m \in Readers
           /\ "r" \in ends
           /\ \E len \in ReadLen : ReadStep(m, len, r)

\* Mutant: p->r stays.
ReadResumed_KeepsR(m) == /\ current = m
                         /\ pc[m] = "rwait"
                         /\ ReadStep(m, rlen[m], r)

\* After the yield(): p->r = NULL, then the loop goes round.
ReadResumed(m) == /\ current = m
                  /\ pc[m] = "rwait"
                  /\ ReadStep(m, rlen[m], NULL)

\* Mutant: no look at p->closed before the first turn of the loop.
Write_NoEpipe(m) == /\ InOwnCode(m)
                    /\ m \in Writers
                    /\ "w" \in ends
                    /\ \E buf \in Chunk : /\ Len(sent) + Len(buf) <= MaxSent
                                          /\ WriteStep(m, buf, w)

Write(m) == /\ InOwnCode(m)
            /\ m \in Writers
            /\ "w" \in ends
            /\ \E buf \in Chunk :
                 /\ Len(sent) + Len(buf) <= MaxSent
                 /\ \/ WriteEpipe(m, w)
                    \/ "r" \notin closed /\ WriteStep(m, buf, w)

\* After the yield(): p->w = NULL, EPIPE, then the loop goes round.
WriteResumed(m) == /\ current = m
                   /\ pc[m] = "wwait"
                   /\ \/ WriteEpipe(m, NULL)
                      \/ "r" \notin closed /\ WriteStep(m, wbuf[m], NULL)

\* fclose() of the read FILE.
RClose(m) == /\ InOwnCode(m)
             /\ m \in Readers
             /\ "r" \in ends
             /\ \A o \in Muth : pc[o] # "rwait"
             /\ ends' = ends \ {"r"}
             /\ \/ /\ "w" \in closed
                   /\ freed' = TRUE
                   /\ GoOn
                   /\ UNCHANGED closed
                \/ /\ "w" \notin closed
                   /\ closed' = closed \cup {"r"}
                   /\ WakeWriter
                   /\ UNCHANGED freed
             /\ UNCHANGED <<data, r, w, uvars, hvars>>

\* fclose() of the write FILE.
WClose(m) == /\ InOwnCode(m)
             /\ m \in Writers
             /\ "w" \in ends
             /\ \A o \in Muth : pc[o] # "wwait"
             /\ ends' = ends \ {"w"}
             /\ \/ /\ "r" \in closed
                   /\ freed' = TRUE
                   /\ GoOn
                   /\ UNCHANGED closed
                \/ /\ "r" \notin closed
                   /\ closed' = closed \cup {"w"}
                   /\ WakeReader
                   /\ UNCHANGED freed
             /\ UNCHANGED <<data, r, w, uvars, hvars>>

(* The users' own steps; "here" is a context that may run user code.       *)

AtUserCode == current # NULL => pc[current] = "own"

Start(m) == /\ AtUserCode
            /\ pc[m] = "unborn"
            /\ pc' = [pc EXCEPT ![m] = "own"]
            /\ MuStart(m)
            /\ UNCHANGED <<pvars, rlen, wbuf, hvars>>

WaitElsewhere(m) == /\ InOwnCode(m)
                    /\ pc' = [pc EXCEPT ![m] = "else"]
                    /\ Yield
                    /\ UNCHANGED <<pvars, rlen, wbuf, hvars>>

\* The event loop, or another muth, resumes what m waited for.
ResumeElse(m) == /\ AtUserCode
                 /\ pc[m] = "else"
                 /\ pc' = [pc EXCEPT ![m] = "own"]
                 /\ Resume(m)
                 /\ UNCHANGED <<pvars, rlen, wbuf, hvars>>

End(m) == /\ InOwnCode(m)
          /\ pc' = [pc EXCEPT ![m] = "ended"]
          /\ Return
          /\ UNCHANGED <<pvars, rlen, wbuf, hvars>>

Next == \E m \in Muth :
          \/ Read(m) \/ ReadResumed(m) \/ Write(m) \/ WriteResumed(m)
          \/ RClose(m) \/ WClose(m)
          \/ Start(m) \/ WaitElsewhere(m) \/ ResumeElse(m) \/ End(m)

Spec == Init /\ [][Next]_vars

-----------------------------------------------------------------------------
(* Properties.                                                             *)

\* A muth that is asleep in piperead() finds nothing to read and a live
\* writer, and one asleep in pipewrite() a full pipe and a live reader: no
\* order of nested reads, writes and closes loses a wake-up.  It is also the
\* muth that the other end will resume.
Asleep(m) == last[m] = NULL
NoLostWakeup ==
  \A m \in Muth :
    /\ pc[m] = "rwait" /\ Asleep(m) => data = <<>> /\ "w" \notin closed /\ r = m
    /\ pc[m] = "wwait" /\ Asleep(m) => Len(data) >= BufMax /\ "r" \notin closed /\ w = m

\* resume() and yield() never abort, and never enter a muth that is gone; the
\* pipe is freed by the second fclose() and by nothing else, when no muth is
\* still inside piperead() or pipewrite() and would touch it on its way out.
MemorySafe == /\ ~aborted
              /\ freed <=> ends = {}
              /\ freed => \A m \in Muth : pc[m] \notin {"rwait", "wwait"}

\* The pipe is a reliable stream: bounded, in order, no byte lost or repeated,
\* end-of-file only once everything the closed writer wrote has been read, and
\* EPIPE only once the reader is gone.
Stream == INSTANCE ByteStream WITH Cap <- BufMax
StreamSpec == Stream!Spec
=============================================================================
