-------------------------------- MODULE CallFcgi -------------------------------
(***************************************************************************)
(* src/callfcgi.c and src/callscgi.c: each request has a connection to the *)
(* handler of its own, and a muth serve().  In callfcgi the muth outplex() *)
(* reads the handler's records and passes their data on through two pipes, *)
(* STDOUT to serve() and STDERR to the muth errhandler(); in callscgi      *)
(* serve() reads the handler's answer itself.                              *)
(*                                                                         *)
(* A pipe is used by what MtPipe shows of it: a read waits for data or the *)
(* end of the writer, a write for room or the end of the reader, and they  *)
(* never fail to be woken.  What stdio keeps back is taken to be in the    *)
(* pipe.  A muth goes on whenever what it waits for is there; that the     *)
(* resumed one runs first is left open.                                    *)
(*                                                                         *)
(* A call on a socket has the outcomes that the peer, or the timeout, may  *)
(* give it: the client's is 60 s and the handler's 600 s.  Both peers may  *)
(* do anything.  Data are units: of the answer, the number of the record   *)
(* that brought it, the first one that has data with all the headers.      *)
(***************************************************************************)
EXTENDS Connect, Sequences, SequencesExt

CONSTANTS Protocol,   \* which program is looked at for each way of calling it
          MaxReq,     \* bound on the requests
          MaxRec,     \* bound on the records from handlers, of all requests
          PipeMax     \* p->bufmax

ASSUME FcgiAssumption == /\ Protocol \in [Calls -> SUBSET {"fcgi", "scgi"}]
                         /\ {MaxReq, MaxRec} \subseteq Nat
                         /\ PipeMax \in Nat \ {0}

Req == 1 .. MaxReq

VARIABLES proto,
          nreq,      \* the requests that have been received
          spc, opc, epc,  \* where serve(), outplex() and errhandler() are
          files,     \* the FILEs and descriptors that are open for each request
          out, err,  \* what is in the pipes
          rec,       \* the record that outplex() passes on: [type, n]
          hup,       \* shutdown(sfd) has been called
          nrec,      \* the records so far
          aborted,   \* free() has found out that it was called twice
          stdout,    \* history: the answer as the handler has sent it
          got,       \* history: the answer as the client has been sent it
          whole      \* history: serve() has passed all of the answer

pcs == <<spc, opc, epc>>
pipes == <<files, out, err, rec, hup>>
hist == <<stdout, got, whole>>
vars == <<cvars, proto, nreq, pcs, pipes, nrec, aborted, hist>>

\* The FILEs of a request's pipes, and its descriptors.
PipeEnds == {"outi", "outo", "erri", "erro"}
Sockets == {"fd", "sfd", "dup"}
Types == {"stdout", "stderr", "outend", "errend", "other"}
NoRec == [type |-> "none", n |-> 0]

\* The type invariant.
TypeOK == /\ ConnectTypeOK
          /\ proto \in {"fcgi", "scgi"}
          /\ nreq \in 0 .. MaxReq
          /\ spc \in [Req -> {"none", "send", "resp", "pass", "flush", "ended"}]
          /\ opc \in [Req -> {"none", "recv", "pass", "ended"}]
          /\ epc \in [Req -> {"none", "read", "ended"}]
          /\ files \in [Req -> SUBSET (PipeEnds \cup Sockets)]
          /\ \A q \in Req : /\ {out[q], err[q], stdout[q], got[q]} \subseteq Seq(1 .. nrec)
                            /\ Len(out[q]) <= PipeMax /\ Len(err[q]) <= PipeMax
                            /\ rec[q].type \in Types \cup {"none"}
                            /\ rec[q].n \in 0 .. nrec
          /\ hup \in [Req -> BOOLEAN]
          /\ nrec \in 0 .. MaxRec
          /\ aborted \in BOOLEAN
          /\ whole \in [Req -> BOOLEAN]

Init == /\ ConnectInit
        /\ proto \in Protocol[<<mode, kind>>]
        /\ nreq = 0
        /\ spc = [q \in Req |-> "none"]
        /\ opc = [q \in Req |-> "none"]
        /\ epc = [q \in Req |-> "none"]
        /\ files = [q \in Req |-> {}]
        /\ out = [q \in Req |-> <<>>]
        /\ err = [q \in Req |-> <<>>]
        /\ rec = [q \in Req |-> NoRec]
        /\ hup = [q \in Req |-> FALSE]
        /\ nrec = 0
        /\ aborted = FALSE
        /\ stdout = [q \in Req |-> <<>>]
        /\ got = [q \in Req |-> <<>>]
        /\ whole = [q \in Req |-> FALSE]

Opens(q, fs) == files' = [files EXCEPT ![q] = @ \cup fs]
Closes(q, fs) == files' = [files EXCEPT ![q] = @ \ fs]
ServeAt(q, l) == spc' = [spc EXCEPT ![q] = l]
OutplexAt(q, l) == opc' = [opc EXCEPT ![q] = l]
Put(f, q, x) == [f EXCEPT ![q] = Append(@, x)]

-----------------------------------------------------------------------------
(* listenloop() and main().                                                *)

\* free() has not aborted the program.  (What others do after that is not looked at.)
Alive == ~aborted /\ UNCHANGED aborted

Recv == /\ Alive
        /\ nreq < MaxReq
        /\ nreq' = nreq + 1
        /\ Reconn
        /\ Opens(nreq + 1, {"fd"})
        /\ UNCHANGED <<proto, pcs, out, err, rec, hup, nrec, hist>>

\* The rest of reconn(), and what other processes do.
Connects == Alive /\ Connecting /\ UNCHANGED <<proto, nreq, pcs, pipes, nrec, hist>>
Elsewhere == Alive /\ Others /\ UNCHANGED <<proto, nreq, pcs, pipes, nrec, hist>>

\* Mutant: the client's descriptor stays open.
Lost_Open == /\ Alive
             /\ lpc = "lost"
             /\ Loop
             /\ UNCHANGED <<proto, nreq, pcs, pipes, nrec, hist>>

\* There is no connection.
Lost == /\ Alive
        /\ lpc = "lost"
        /\ Loop
        /\ Closes(nreq, {"fd"})
        /\ UNCHANGED <<proto, nreq, pcs, out, err, rec, hup, nrec, hist>>

\* serve() is started, and starts the other two.
Start == /\ Alive
         /\ lpc = "got"
         /\ Loop
         /\ ServeAt(nreq, "send")
         /\ IF proto = "fcgi"
            THEN /\ Opens(nreq, PipeEnds \cup Sockets)
                 /\ OutplexAt(nreq, "recv")
                 /\ epc' = [epc EXCEPT ![nreq] = "read"]
            ELSE Opens(nreq, {"sfd"}) /\ UNCHANGED <<opc, epc>>
         /\ UNCHANGED <<proto, nreq, out, err, rec, hup, nrec, hist>>

\* End-of-file, an error, or a signal.
Stop == Alive /\ ListenEnds /\ UNCHANGED <<proto, nreq, pcs, pipes, nrec, hist>>

Ended(q) == /\ spc[q] \in {"none", "ended"}
            /\ opc[q] \in {"none", "ended"}
            /\ epc[q] \in {"none", "ended"}

Finish == /\ Alive
          /\ \A q \in Req : Ended(q)
          /\ Exit
          /\ UNCHANGED <<proto, nreq, pcs, pipes, nrec, hist>>

-----------------------------------------------------------------------------
(* serve()                                                                 *)

\* Mutant: no shutdown().
Leaves_NoShutdown(q) == /\ ServeAt(q, "flush")
                        /\ Closes(q, {"outi"})
                        /\ UNCHANGED hup

\* From `out:' to fclose(outi).
Leaves(q) == /\ ServeAt(q, "flush")
             /\ Closes(q, {"outi"})
             /\ hup' = [hup EXCEPT ![q] = proto = "fcgi"]

Stays(q, l) == ServeAt(q, l) /\ UNCHANGED <<files, hup>>

\* Everything that is sent to the handler: the parameters, the body as the client
\* sends it, whose units are not told apart, and what ends it.  (In callscgi stdio
\* writes what is left when the FILE is first read from.)
Send(q) == /\ spc[q] = "send"
           /\ Stays(q, "resp") \/ Leaves(q)
           /\ UNCHANGED <<opc, epc, out, err, rec, nrec, hist>>

\* The unit x goes to the client: the headers only if parseresp() can read them,
\* and anything if the client takes it in time.
Gives(q, x) == \/ got' = Put(got, q, x) /\ Stays(q, "pass")
               \/ Leaves(q) /\ UNCHANGED got

\* The answer ends: parseresp() fails, or passdata() is through.
AnswerEnds(q) == /\ Leaves(q)
                 /\ whole' = [whole EXCEPT ![q] = spc[q] = "pass"]

\* callfcgi: parseresp() or passdata() reads from the pipe.
PassPipe(q) == /\ proto = "fcgi"
               /\ spc[q] \in {"resp", "pass"}
               /\ \/ /\ out[q] # <<>>
                     /\ out' = [out EXCEPT ![q] = Tail(@)]
                     /\ Gives(q, Head(out[q]))
                     /\ UNCHANGED whole
                  \/ /\ out[q] = <<>>
                     /\ "outo" \notin files[q]
                     /\ AnswerEnds(q)
                     /\ UNCHANGED <<out, got>>
               /\ UNCHANGED <<opc, epc, err, rec, nrec, stdout>>

\* callscgi: from the handler, whose connection may fail.
PassSocket(q) == /\ proto = "scgi"
                 /\ spc[q] \in {"resp", "pass"}
                 /\ \/ /\ nrec < MaxRec
                       /\ nrec' = nrec + 1
                       /\ stdout' = Put(stdout, q, nrec + 1)
                       /\ Gives(q, nrec + 1)
                       /\ UNCHANGED whole
                    \/ AnswerEnds(q) /\ UNCHANGED <<nrec, stdout, got>>
                    \/ Leaves(q) /\ UNCHANGED <<nrec, hist>>
                 /\ UNCHANGED <<opc, epc, out, err, rec>>

\* fclose(is) and fclose(os), which write what is left.
Flush(q) == /\ spc[q] = "flush"
            /\ Closes(q, {"fd", "sfd"})
            /\ ServeAt(q, "ended")
            /\ UNCHANGED <<opc, epc, out, err, rec, hup, nrec, hist>>

-----------------------------------------------------------------------------
(* outplex() and errhandler()                                              *)

\* Mutant: STDERR is left open.
OutEnds_KeepErr(q) == Closes(q, {"outo", "dup"}) /\ OutplexAt(q, "ended")

\* From `out:' on.
OutEnds(q) == Closes(q, {"outo", "erro", "dup"}) /\ OutplexAt(q, "ended")

\* recvrec(): a record, the end of the connection, an error, or a record that is
\* not of this request.  After shutdown() what had come before can be read.
OutRecv(q) ==
  /\ opc[q] = "recv"
  /\ \/ /\ nrec < MaxRec
        /\ nrec' = nrec + 1
        /\ \E t \in Types :
             /\ rec' = [rec EXCEPT ![q] = [type |-> t, n |-> nrec + 1]]
             /\ stdout' = IF t = "stdout" /\ "outo" \in files[q] THEN Put(stdout, q, nrec + 1) ELSE stdout
        /\ OutplexAt(q, "pass")
        /\ UNCHANGED files
     \/ /\ OutEnds(q)
        /\ UNCHANGED <<rec, nrec, stdout>>
  /\ UNCHANGED <<spc, epc, out, err, hup, got, whole>>

\* The connection ends within a record: recvrec() has freed the data, and outplex()
\* frees them again.  If free() does not abort, it is as any other end (OutRecv).
CutOff(q) == /\ ~aborted
             /\ Running
             /\ opc[q] = "recv"
             /\ aborted' = TRUE
             /\ UNCHANGED <<cvars, proto, nreq, pcs, pipes, nrec, hist>>

\* Mutant: the stream that the record is not of.
Stream_Any(t) == CASE t \in {"stdout", "outend", "stderr"} -> "outo"
                   [] t = "errend" -> "erro"
                   [] OTHER -> "none"

\* The FILE that a type of record goes to.
Stream(t) == CASE t \in {"stdout", "outend"} -> "outo"
               [] t \in {"stderr", "errend"} -> "erro"
               [] OTHER -> "none"

\* The rest of the loop.
OutPass(q) ==
  LET t == rec[q].type
      s == Stream(t)
      pipe == IF s = "outo" THEN out[q] ELSE err[q]
      reader == IF s = "outo" THEN "outi" ELSE "erri"
  IN
  /\ opc[q] = "pass"
  /\ rec' = [rec EXCEPT ![q] = NoRec]
  /\ \/ /\ s \notin files[q]                       \* no such stream, or it has ended
        /\ OutplexAt(q, "recv")
        /\ UNCHANGED <<files, out, err>>
     \/ /\ s \in files[q]
        /\ t \in {"outend", "errend"}
        /\ Closes(q, {s})
        /\ OutplexAt(q, "recv")
        /\ UNCHANGED <<out, err>>
     \/ /\ s \in files[q]
        /\ t \in {"stdout", "stderr"}
        /\ reader \in files[q]
        /\ Len(pipe) < PipeMax
        /\ IF s = "outo" THEN out' = Put(out, q, rec[q].n) /\ UNCHANGED err
                         ELSE err' = Put(err, q, rec[q].n) /\ UNCHANGED out
        /\ OutplexAt(q, "recv")
        /\ UNCHANGED files
     \/ /\ s \in files[q]
        /\ t \in {"stdout", "stderr"}
        /\ reader \notin files[q]                  \* EPIPE
        /\ OutEnds(q)
        /\ UNCHANGED <<out, err>>
  /\ UNCHANGED <<spc, epc, hup, nrec, hist>>

\* errhandler()
ErrRead(q) == /\ epc[q] = "read"
              /\ \/ /\ err[q] # <<>>
                    /\ err' = [err EXCEPT ![q] = Tail(@)]
                    /\ UNCHANGED <<epc, files>>
                 \/ /\ err[q] = <<>>
                    /\ "erro" \notin files[q]
                    /\ Closes(q, {"erri"})
                    /\ epc' = [epc EXCEPT ![q] = "ended"]
                    /\ UNCHANGED err
              /\ UNCHANGED <<spc, opc, out, rec, hup, nrec, hist>>

Serve(q) == Send(q) \/ PassPipe(q) \/ PassSocket(q) \/ Flush(q)
Outplex(q) == OutRecv(q) \/ OutPass(q)

\* A muth runs.
Runs(step) == Alive /\ Running /\ step /\ UNCHANGED <<cvars, proto, nreq>>

Next == \/ Recv \/ Connects \/ Lost \/ Start \/ Stop \/ Finish \/ Elsewhere
        \/ \E q \in Req : Runs(Serve(q)) \/ Runs(Outplex(q)) \/ Runs(ErrRead(q)) \/ CutOff(q)

\* A wait on a socket ends, at the latest with its timeout; connect() does not
\* say EAGAIN for ever.  Nothing is assumed of a wait for a pipe.
Fairness == /\ WF_vars(Connects) /\ WF_vars(Lost) /\ WF_vars(Start)
            /\ \A q \in Req : /\ WF_vars(Runs(Serve(q)))
                              /\ WF_vars(Runs(Outplex(q)))
                              /\ WF_vars(Runs(ErrRead(q)))

Spec == Init /\ [][Next]_vars /\ Fairness

-----------------------------------------------------------------------------
(* Properties.                                                             *)

\* The client is sent the beginning of the answer that came over its request's
\* own connection, and all of it when passdata() comes to an end: whatever other
\* records there are between, and wherever one of the muths fails.
AnswerOwn == \A q \in Req : /\ IsPrefix(got[q], stdout[q])
                            /\ whole[q] => got[q] = stdout[q]

\* No muth of a request waits for one that is gone, or that waits for it; and
\* once serve() is through, none waits for the handler and its timeout.
NoneWaitsInVain ==
  \A q \in Req :
    /\ /\ spc[q] \in {"resp", "pass"} /\ out[q] = <<>> /\ "outo" \in files[q]
       => proto = "scgi" \/ opc[q] \in {"recv", "pass"}
    /\ opc[q] = "pass" /\ Stream(rec[q].type) = "outo" /\ "outi" \in files[q]
       => spc[q] \notin {"flush", "ended"}
    /\ opc[q] = "pass" /\ Stream(rec[q].type) = "erro" /\ "erro" \in files[q] => epc[q] = "read"
    /\ epc[q] = "read" /\ "erro" \in files[q] => opc[q] # "ended"
    /\ spc[q] \in {"flush", "ended"} /\ opc[q] = "recv" => hup[q]

\* A client's connection is open exactly as long as somebody is to answer it, and
\* whatever else was opened for it is closed when the last of its muths ends.
Released ==
  \A q \in Req :
    /\ "fd" \in files[q] <=> \/ spc[q] \notin {"none", "ended"}
                             \/ q = nreq /\ spc[q] = "none" /\ lpc \notin {"wait", "ended", "exited"}
    /\ Ended(q) => files[q] \subseteq {"fd"}

\* Every request that is received comes to its end, unless the program does: when
\* no more of them come (here, after MaxReq), a time comes when none is left.
Answered == <>[](~Running \/ aborted \/ \A q \in 1 .. nreq : Ended(q) /\ files[q] = {})
=============================================================================
