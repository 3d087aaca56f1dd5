---------------------------- MODULE CallFcgiProofs ----------------------------
(***************************************************************************)
(* That callfcgi and callscgi keep hold of their handlers, and that of a   *)
(* request nothing stays open and no muth waits in vain, for any number of *)
(* requests at a time, handlers that crash and connections that fail.      *)
(***************************************************************************)
EXTENDS CallFcgi, SequenceTheorems, TLAPS

(* The connection manager.                                                 *)

\* The address in anonymous mode is that of the last handler, until that has been
\* told to end; startconn() comes only after that.
Handled ==
  /\ mode \in {"anon", "launch", "mixed", "client"}
  /\ isanon \in BOOLEAN
  /\ curaddr \in Proc \cup {Addr, NoAddr}
  /\ termed \subseteq started
  /\ started \subseteq Proc
  /\ mode = "anon" =>
       /\ lpc \notin {"unlink", "econnect"}
       /\ lpc \in {"start", "exited", "failed"} => curaddr = NoAddr
       /\ lpc \in {"reconn", "sconnect"} => curaddr # NoAddr
       /\ curaddr # NoAddr => curaddr = child /\ curaddr \in started \ termed /\ isanon
       /\ started \cap up \subseteq termed \cup (IF curaddr = NoAddr THEN {} ELSE {curaddr})
  /\ mode # "anon" => termed = {} /\ ~isanon

\* What reconn() does keeps that.
LEMMA ConnectingHandles == ASSUME Handled, Connecting PROVE Handled'
<1>1. CASE SConnected
  BY <1>1 DEF SConnected, Goto, Handled, world
<1>2. CASE SFailed
  <2>1. CASE lpc = "reconn" /\ KillCurAddr /\ Goto("start")
    BY <1>2, <2>1, ConnectAssumption DEF SFailed, KillCurAddr, Goto, Handled, world
  <2>2. CASE lpc = "sconnect" /\ Goto("lost") /\ UNCHANGED <<curaddr, termed>>
    BY <1>2, <2>2 DEF SFailed, Goto, Handled, world
  <2> QED BY <1>2, <2>1, <2>2 DEF SFailed
<1>3. CASE lpc \in {"start", "unlink"} /\ Fail
  BY <1>3 DEF Fail, Goto, Handled, world
<1>4. CASE StartAnon /\ ~Fail
  BY <1>4, ConnectAssumption DEF StartAnon, Forked, Goto, Handled
<1>5. CASE StartListen /\ ~Fail
  BY <1>5 DEF StartListen, Forked, Goto, Handled
<1>6. CASE StartNoListen /\ ~Fail
  BY <1>6 DEF StartNoListen, Forked, Goto, Handled
<1>7. CASE StartNone
  BY <1>7 DEF StartNone, Goto, Handled, world
<1>8. CASE Unlink /\ ~Fail
  BY <1>8 DEF Unlink, Goto, Handled
<1>9. CASE EConnected
  BY <1>9 DEF EConnected, Goto, Handled, world
<1>10. CASE EFailed
  BY <1>10 DEF EFailed, Fail, Goto, Handled, world
<1> QED
  BY <1>1, <1>2, <1>3, <1>4, <1>5, <1>6, <1>7, <1>8, <1>9, <1>10
     DEF Connecting, StartAnon, StartListen, StartNoListen, Unlink

\* So do the other processes.
LEMMA OthersHandle == ASSUME Handled, Others PROVE Handled'
<1>1. CASE ServerStarts
  BY <1>1, ConnectAssumption DEF ServerStarts, Handled
<1>2. CASE \E p \in Proc \cup {Server} : Dies(p)
  BY <1>2 DEF Dies, Handled
<1>3. CASE \E p \in Proc : Binds(p)
  BY <1>3 DEF Binds, Handled
<1> QED BY <1>1, <1>2, <1>3 DEF Others

\* And the rest of listenloop() and main().
LEMMA LoopHandles == ASSUME Handled, Reconn \/ Loop \/ ListenEnds \/ Exit PROVE Handled'
<1>1. CASE Reconn
  BY <1>1, ConnectAssumption DEF Reconn, Goto, Handled, world
<1>2. CASE Loop \/ ListenEnds
  BY <1>2 DEF Loop, ListenEnds, Goto, Handled, world
<1>3. CASE Exit
  BY <1>3, ConnectAssumption DEF Exit, KillCurAddr, Goto, Handled, world
<1> QED BY <1>1, <1>2, <1>3

\* The invariant of the connection manager, whatever the requests do.
THEOREM AlwaysHandled == Spec => []Handled
<1>1. Init => Handled
  BY ConnectAssumption DEF Init, ConnectInit, Handled
<1>2. Handled /\ [Next]_vars => Handled'
  <2> SUFFICES ASSUME Handled, [Next]_vars PROVE Handled'
    OBVIOUS
  <2>1. CASE Recv \/ Lost \/ Start \/ Stop \/ Finish
    BY <2>1, LoopHandles DEF Recv, Lost, Start, Stop, Finish
  <2>2. CASE Connects \/ Elsewhere
    BY <2>2, ConnectingHandles, OthersHandle DEF Connects, Elsewhere
  <2>3. CASE UNCHANGED cvars
    BY <2>3 DEF cvars, world, Handled
  <2> QED BY <2>1, <2>2, <2>3 DEF Next, Runs, CutOff, vars
<1> QED BY <1>1, <1>2, PTL DEF Spec

\* In anonymous mode callfcgi never has two handlers that were not told to end, and
\* leaves none behind; in the other modes it tells none to.
THEOREM HandlersAlwaysManaged == Spec => []HandlersManaged
<1>1. Handled => HandlersManaged
  BY DEF Handled, HandlersManaged, Running
<1> QED BY <1>1, AlwaysHandled, PTL

-----------------------------------------------------------------------------
(* The requests.                                                           *)

Shape == /\ proto \in {"fcgi", "scgi"}
         /\ nreq \in 0 .. MaxReq
         /\ spc \in [Req -> {"none", "send", "resp", "pass", "flush", "ended"}]
         /\ opc \in [Req -> {"none", "recv", "pass", "ended"}]
         /\ epc \in [Req -> {"none", "read", "ended"}]
         /\ files \in [Req -> SUBSET (PipeEnds \cup Sockets)]
         /\ hup \in [Req -> BOOLEAN]

\* listenloop() has a request in hand.
Busy == lpc \notin {"wait", "ended", "exited"}

\* Who holds what of a request, and who is still there to use it.
Held(q) ==
  /\ spc[q] = "none" => /\ opc[q] = "none" /\ epc[q] = "none"
                        /\ files[q] = IF q = nreq /\ Busy THEN {"fd"} ELSE {}
  /\ q > nreq \/ (q = nreq /\ Busy) => spc[q] = "none"
  /\ spc[q] \in {"send", "resp", "pass", "flush"} => "fd" \in files[q]
  /\ spc[q] = "ended" => files[q] \cap {"fd", "sfd"} = {}
  /\ proto = "scgi" => opc[q] = "none" /\ epc[q] = "none" /\ files[q] \subseteq {"fd", "sfd"}
  /\ proto = "fcgi" /\ spc[q] # "none" =>
       /\ opc[q] # "none" /\ epc[q] # "none"
       /\ "outi" \in files[q] <=> spc[q] \in {"send", "resp", "pass"}
       /\ opc[q] = "ended" => files[q] \cap {"outo", "erro", "dup"} = {}
       /\ "erri" \in files[q] <=> epc[q] = "read"
       /\ epc[q] = "ended" => "erro" \notin files[q]
       /\ spc[q] \in {"flush", "ended"} => hup[q]

AllHeld == Shape /\ (Busy => nreq > 0) /\ \A q \in Req : Held(q)

\* Facts about listenloop()'s place, which is all that the requests know of the
\* connection manager.
LEMMA Places ==
  /\ Connecting \/ Others => (Busy' <=> Busy)
  /\ Loop => Busy /\ ~Busy'
  /\ Reconn => ~Busy /\ Busy'
  /\ ListenEnds \/ Exit => ~Busy /\ ~Busy'
<1>1. Connecting => Busy /\ Busy'
  BY DEF Connecting, SConnected, SFailed, StartAnon, StartListen, StartNoListen, StartNone, Unlink,
         EConnected, EFailed, Fail, Goto, Busy
<1>2. Others => (Busy' <=> Busy)
  BY DEF Others, ServerStarts, Dies, Binds, Busy
<1>3. Loop => Busy /\ ~Busy'
  BY DEF Loop, Goto, Busy
<1>4. Reconn => ~Busy /\ Busy'
  BY DEF Reconn, Goto, Busy
<1>5. ListenEnds \/ Exit => ~Busy /\ ~Busy'
  BY DEF ListenEnds, Exit, Goto, Busy
<1> QED BY <1>1, <1>2, <1>3, <1>4, <1>5

\* A request that a step does not concern.
LEMMA OtherHeld ==
  ASSUME NEW r, Held(r), proto' = proto,
         spc'[r] = spc[r], opc'[r] = opc[r], epc'[r] = epc[r], files'[r] = files[r], hup'[r] = hup[r],
         r = nreq' /\ Busy' <=> r = nreq /\ Busy, r > nreq' => r > nreq
  PROVE  Held(r)'
BY DEF Held

\* listenloop() gives every request to nobody, or to serve() and its helpers.
LEMMA ListenHolds == ASSUME AllHeld, Recv \/ Lost \/ Start PROVE AllHeld'
<1> USE FcgiAssumption DEF Req
<1>1. CASE Recv
  <2>1. ~Busy /\ Busy' /\ nreq' = nreq + 1 /\ nreq' \in Req /\ nreq \in Nat
    BY <1>1, Places DEF Recv, AllHeld, Shape
  <2>2. UNCHANGED <<proto, spc, opc, epc, hup>> /\ files' = [files EXCEPT ![nreq'] = @ \cup {"fd"}]
    BY <1>1, <2>1 DEF Recv, Opens, pcs
  <2>3. Shape'
    BY <2>1, <2>2 DEF AllHeld, Shape, Sockets, PipeEnds
  <2>4. ASSUME NEW r \in Req PROVE Held(r)'
    <3>1. CASE r = nreq'
      <4>1. spc[r] = "none" /\ opc[r] = "none" /\ epc[r] = "none" /\ files[r] = {}
        BY <2>1, <3>1 DEF AllHeld, Held
      <4>2. files'[r] = {"fd"}
        BY <2>2, <3>1, <4>1 DEF AllHeld, Shape
      <4> QED BY <2>1, <2>2, <3>1, <4>1, <4>2 DEF Held
    <3>2. CASE r # nreq'
      <4>1. files'[r] = files[r]
        BY <2>2, <3>2 DEF AllHeld, Shape
      <4> QED BY <2>1, <2>2, <3>2, <4>1, OtherHeld DEF AllHeld
    <3> QED BY <3>1, <3>2
  <2> QED BY <2>1, <2>3, <2>4 DEF AllHeld
<1>2. CASE Lost
  <2>1. Busy /\ ~Busy' /\ nreq' = nreq /\ nreq \in Req
    BY <1>2, Places DEF Lost, AllHeld, Shape
  <2>2. UNCHANGED <<proto, spc, opc, epc, hup>> /\ files' = [files EXCEPT ![nreq] = @ \ {"fd"}]
    BY <1>2 DEF Lost, Closes, pcs
  <2>3. Shape'
    BY <2>1, <2>2 DEF AllHeld, Shape
  <2>4. ASSUME NEW r \in Req PROVE Held(r)'
    <3>1. CASE r = nreq
      <4>1. spc[r] = "none" /\ opc[r] = "none" /\ epc[r] = "none" /\ files[r] = {"fd"}
        BY <2>1, <3>1 DEF AllHeld, Held
      <4>2. files'[r] = {}
        BY <2>2, <3>1, <4>1 DEF AllHeld, Shape
      <4> QED BY <2>1, <2>2, <3>1, <4>1, <4>2 DEF Held
    <3>2. CASE r # nreq
      <4>1. files'[r] = files[r]
        BY <2>2, <3>2 DEF AllHeld, Shape
      <4> QED BY <2>1, <2>2, <3>2, <4>1, OtherHeld DEF AllHeld
    <3> QED BY <3>1, <3>2
  <2> QED BY <2>1, <2>3, <2>4 DEF AllHeld
<1>3. CASE Start
  <2>1. Busy /\ ~Busy' /\ nreq' = nreq /\ nreq \in Req /\ proto' = proto /\ hup' = hup
    BY <1>3, Places DEF Start, AllHeld, Shape
  <2> DEFINE all == IF proto = "fcgi" THEN PipeEnds \cup Sockets ELSE {"sfd"}
  <2>2. /\ spc' = [spc EXCEPT ![nreq] = "send"]
        /\ files' = [files EXCEPT ![nreq] = @ \cup all]
        /\ IF proto = "fcgi" THEN /\ opc' = [opc EXCEPT ![nreq] = "recv"]
                                  /\ epc' = [epc EXCEPT ![nreq] = "read"]
                             ELSE UNCHANGED <<opc, epc>>
    BY <1>3 DEF Start, Opens, ServeAt, OutplexAt
  <2>3. Shape'
    BY <2>1, <2>2 DEF AllHeld, Shape, PipeEnds, Sockets
  <2>4. ASSUME NEW r \in Req PROVE Held(r)'
    <3>1. CASE r = nreq
      <4>1. spc[r] = "none" /\ opc[r] = "none" /\ epc[r] = "none" /\ files[r] = {"fd"}
        BY <2>1, <3>1 DEF AllHeld, Held
      <4>2. spc'[r] = "send" /\ files'[r] = {"fd"} \cup all
        BY <2>2, <3>1, <4>1 DEF AllHeld, Shape
      <4>3. IF proto = "fcgi" THEN opc'[r] = "recv" /\ epc'[r] = "read"
                              ELSE opc'[r] = "none" /\ epc'[r] = "none"
        BY <2>2, <3>1, <4>1 DEF AllHeld, Shape
      <4> QED BY <2>1, <3>1, <4>2, <4>3 DEF Held, PipeEnds, Sockets, AllHeld, Shape
    <3>2. CASE r # nreq
      <4>1. spc'[r] = spc[r] /\ opc'[r] = opc[r] /\ epc'[r] = epc[r] /\ files'[r] = files[r]
        BY <2>2, <3>2 DEF AllHeld, Shape
      <4> QED BY <2>1, <3>2, <4>1, OtherHeld DEF AllHeld
    <3> QED BY <3>1, <3>2
  <2> QED BY <2>1, <2>3, <2>4 DEF AllHeld
<1> QED BY <1>1, <1>2, <1>3

\* serve() closes what it holds, and wakes outplex(), on every way out.
LEMMA ServeHolds ==
  ASSUME AllHeld, NEW q \in Req, Serve(q), UNCHANGED <<lpc, proto, nreq>>
  PROVE  AllHeld'
<1>1. Busy' = Busy /\ UNCHANGED <<opc, epc>>
  BY DEF Busy, Serve, Send, PassPipe, PassSocket, Flush
<1>2. \/ /\ spc[q] \in {"send", "resp", "pass"}
         /\ Leaves(q)
      \/ /\ spc[q] \in {"send", "resp", "pass"}
         /\ Stays(q, "resp") \/ Stays(q, "pass")
      \/ Flush(q)
  BY DEF Serve, Send, PassPipe, PassSocket, Gives, AnswerEnds
<1>3. Shape'
  <2>1. CASE Leaves(q)
    <3> DEFINE h == proto = "fcgi"
    <3>1. h \in BOOLEAN /\ hup' = [hup EXCEPT ![q] = h]
      BY <2>1 DEF Leaves
    <3> HIDE DEF h
    <3>2. hup' \in [Req -> BOOLEAN]
      BY <3>1 DEF AllHeld, Shape
    <3> QED BY <1>1, <2>1, <3>2 DEF Leaves, ServeAt, Closes, AllHeld, Shape
  <2>2. CASE Stays(q, "resp") \/ Stays(q, "pass") \/ Flush(q)
    BY <1>1, <2>2 DEF Stays, Flush, ServeAt, Closes, AllHeld, Shape
  <2> QED BY <1>2, <2>1, <2>2
<1>4. ASSUME NEW r \in Req PROVE Held(r)'
  <2>1. CASE r = q
    <3>1. CASE spc[q] \in {"send", "resp", "pass"} /\ Leaves(q)
      <4>1. /\ spc'[r] = "flush"
            /\ files'[r] = files[r] \ {"outi"}
            /\ hup'[r] = (proto = "fcgi")
        BY <2>1, <3>1 DEF Leaves, ServeAt, Closes, AllHeld, Shape
      <4> QED BY <1>1, <2>1, <3>1, <4>1 DEF Held, AllHeld
    <3>2. CASE /\ spc[q] \in {"send", "resp", "pass"}
               /\ Stays(q, "resp") \/ Stays(q, "pass")
      <4>1. spc'[r] \in {"resp", "pass"} /\ files' = files /\ hup' = hup
        BY <2>1, <3>2 DEF Stays, ServeAt, AllHeld, Shape
      <4> QED BY <1>1, <2>1, <3>2, <4>1 DEF Held, AllHeld
    <3>3. CASE Flush(q)
      <4>1. /\ spc[r] = "flush" /\ spc'[r] = "ended"
            /\ files'[r] = files[r] \ {"fd", "sfd"}
            /\ hup' = hup
        BY <2>1, <3>3 DEF Flush, ServeAt, Closes, AllHeld, Shape
      <4> QED BY <1>1, <2>1, <4>1 DEF Held, AllHeld
    <3> QED BY <1>2, <3>1, <3>2, <3>3
  <2>2. CASE r # q
    <3>1. spc'[r] = spc[r] /\ files'[r] = files[r] /\ hup'[r] = hup[r]
      BY <1>2, <2>2 DEF Leaves, Stays, Flush, ServeAt, Closes, AllHeld, Shape
    <3> QED BY <1>1, <3>1, OtherHeld DEF AllHeld
  <2> QED BY <2>1, <2>2
<1> QED BY <1>1, <1>3, <1>4 DEF AllHeld

\* outplex() closes what it holds, whether the handler or serve() goes first.
LEMMA OutplexHolds ==
  ASSUME AllHeld, NEW q \in Req, Outplex(q), UNCHANGED <<lpc, proto, nreq>>
  PROVE  AllHeld'
<1>1. Busy' = Busy
  BY DEF Busy
<1>2. /\ opc[q] \in {"recv", "pass"}
      /\ \/ OutEnds(q)
         \/ /\ OutplexAt(q, "recv") \/ OutplexAt(q, "pass")
            /\ UNCHANGED files \/ Closes(q, {"outo"}) \/ Closes(q, {"erro"})
      /\ UNCHANGED <<spc, epc, hup>>
  <2>1. CASE OutRecv(q)
    BY <2>1 DEF OutRecv
  <2>2. CASE OutPass(q)
    <3>1. rec[q].type \in {"outend", "errend"} => Stream(rec[q].type) \in {"outo", "erro"}
      BY DEF Stream
    <3> QED BY <2>2, <3>1 DEF OutPass
  <2> QED BY <2>1, <2>2 DEF Outplex
<1>3. Shape'
  BY <1>2 DEF OutEnds, OutplexAt, Closes, AllHeld, Shape
<1>4. ASSUME NEW r \in Req PROVE Held(r)'
  <2>1. CASE r = q
    <3>1. /\ proto = "fcgi" /\ spc[r] # "none"
      BY <1>2, <2>1 DEF AllHeld, Shape, Held
    <3>2. \/ opc'[r] = "ended" /\ files'[r] = files[r] \ {"outo", "erro", "dup"}
          \/ /\ opc'[r] \in {"recv", "pass"}
             /\ \E fs \in SUBSET {"outo", "erro"} : files'[r] = files[r] \ fs
      <4>1. CASE OutEnds(q)
        BY <2>1, <4>1 DEF OutEnds, OutplexAt, Closes, AllHeld, Shape
      <4>2. CASE OutplexAt(q, "recv") \/ OutplexAt(q, "pass")
        <5>1. files'[r] = files[r] \ {} \/ files'[r] = files[r] \ {"outo"} \/ files'[r] = files[r] \ {"erro"}
              \/ OutEnds(q)
          BY <1>2, <2>1 DEF Closes, AllHeld, Shape
        <5>2. opc'[r] \in {"recv", "pass"}
          BY <2>1, <4>2 DEF OutplexAt, AllHeld, Shape
        <5> QED BY <4>1, <5>1, <5>2
      <4> QED BY <1>2, <4>1, <4>2
    <3>3. /\ opc'[r] # "none"
          /\ opc'[r] = "ended" => files'[r] \cap {"outo", "erro", "dup"} = {}
          /\ \A x \in {"fd", "sfd", "outi", "erri"} : x \in files'[r] <=> x \in files[r]
          /\ files'[r] \subseteq files[r]
      BY <3>2
    <3>4. spc'[r] = spc[r] /\ epc'[r] = epc[r] /\ hup'[r] = hup[r]
      BY <1>2
    <3> QED BY <1>1, <2>1, <3>1, <3>3, <3>4 DEF Held, AllHeld
  <2>2. CASE r # q
    <3>1. opc'[r] = opc[r] /\ files'[r] = files[r]
      BY <1>2, <2>2 DEF OutEnds, OutplexAt, Closes, AllHeld, Shape
    <3> QED BY <1>1, <1>2, <3>1, OtherHeld DEF AllHeld
  <2> QED BY <2>1, <2>2
<1> QED BY <1>1, <1>3, <1>4 DEF AllHeld

\* errhandler() ends after outplex().
LEMMA ErrReadHolds ==
  ASSUME AllHeld, NEW q \in Req, ErrRead(q), UNCHANGED <<lpc, proto, nreq>>
  PROVE  AllHeld'
<1>1. Busy' = Busy /\ UNCHANGED <<spc, opc, hup>>
  BY DEF Busy, ErrRead
<1>2. Shape'
  BY <1>1 DEF ErrRead, Closes, AllHeld, Shape
<1>3. CASE UNCHANGED <<epc, files>>
  BY <1>1, <1>2, <1>3, OtherHeld DEF AllHeld
<1>4. CASE /\ "erro" \notin files[q]
           /\ Closes(q, {"erri"})
           /\ epc' = [epc EXCEPT ![q] = "ended"]
  <2>1. ASSUME NEW r \in Req PROVE Held(r)'
    <3>1. CASE r = q
      <4>1. epc[r] = "read" /\ epc'[r] = "ended" /\ files'[r] = files[r] \ {"erri"}
        BY <1>4, <3>1 DEF ErrRead, Closes, AllHeld, Shape
      <4>2. proto = "fcgi" /\ spc[r] # "none"
        BY <4>1 DEF AllHeld, Shape, Held
      <4> QED BY <1>1, <1>4, <3>1, <4>1, <4>2 DEF Held, AllHeld
    <3>2. CASE r # q
      <4>1. epc'[r] = epc[r] /\ files'[r] = files[r]
        BY <1>4, <3>2 DEF Closes, AllHeld, Shape
      <4> QED BY <1>1, <4>1, OtherHeld DEF AllHeld
    <3> QED BY <3>1, <3>2
  <2> QED BY <1>1, <1>2, <2>1 DEF AllHeld
<1> QED BY <1>3, <1>4 DEF ErrRead

\* The invariant of the requests, whatever the handlers and the clients do.
THEOREM AlwaysHeld == Spec => []AllHeld
<1>1. Init => AllHeld
  <2> SUFFICES ASSUME Init PROVE AllHeld
    OBVIOUS
  <2>1. PICK c \in Calls : mode = c[1] /\ kind = c[2]
    BY DEF Init, ConnectInit
  <2>2. <<mode, kind>> = c
    BY <2>1, ConnectAssumption
  <2>3. proto \in {"fcgi", "scgi"}
    BY <2>2, FcgiAssumption DEF Init
  <2>4. Shape /\ ~Busy
    BY <2>3, FcgiAssumption DEF Init, ConnectInit, Shape, Busy
  <2> QED BY <2>4 DEF Init, AllHeld, Shape, Held, Req
<1>2. AllHeld /\ [Next]_vars => AllHeld'
  <2> SUFFICES ASSUME AllHeld, [Next]_vars PROVE AllHeld'
    OBVIOUS
  <2>1. CASE Connects \/ Elsewhere \/ Stop \/ Finish
    <3>1. (Busy' <=> Busy) /\ UNCHANGED <<proto, nreq, spc, opc, epc, files, hup>>
      BY <2>1, Places DEF Connects, Elsewhere, Stop, Finish, pcs, pipes
    <3> QED BY <3>1 DEF AllHeld, Shape, Held
  <2>2. CASE Recv \/ Lost \/ Start
    BY <2>2, ListenHolds
  <2>3. CASE \E q \in Req : Runs(Serve(q)) \/ Runs(Outplex(q)) \/ Runs(ErrRead(q))
    BY <2>3, ServeHolds, OutplexHolds, ErrReadHolds DEF Runs, cvars
  <2>4. CASE UNCHANGED <<cvars, proto, nreq, pcs, pipes>>
    BY <2>4 DEF cvars, pcs, pipes, AllHeld, Shape, Held, Busy
  <2> QED BY <2>1, <2>2, <2>3, <2>4 DEF Next, CutOff, vars
<1> QED BY <1>1, <1>2, PTL DEF Spec

\* Whatever fails, and in whatever order the muths of a request end, everything that
\* was opened for it is closed, and the client's connection not before.
THEOREM AlwaysReleased == Spec => []Released
<1>1. AllHeld => Released
  <2> SUFFICES ASSUME AllHeld, NEW q \in Req PROVE
        /\ "fd" \in files[q] <=> \/ spc[q] \notin {"none", "ended"}
                                 \/ q = nreq /\ spc[q] = "none" /\ lpc \notin {"wait", "ended", "exited"}
        /\ Ended(q) => files[q] \subseteq {"fd"}
    BY DEF Released
  <2> QED BY DEF AllHeld, Shape, Held, Ended, Busy, PipeEnds, Sockets
<1> QED BY <1>1, AlwaysHeld, PTL

\* No muth of a request is left waiting for another, or for the handler.
THEOREM NoneEverWaitsInVain == Spec => []NoneWaitsInVain
<1>1. AllHeld => NoneWaitsInVain
  <2> SUFFICES ASSUME AllHeld, NEW q \in Req PROVE
        /\ /\ spc[q] \in {"resp", "pass"} /\ out[q] = <<>> /\ "outo" \in files[q]
           => proto = "scgi" \/ opc[q] \in {"recv", "pass"}
        /\ opc[q] = "pass" /\ Stream(rec[q].type) = "outo" /\ "outi" \in files[q]
           => spc[q] \notin {"flush", "ended"}
        /\ opc[q] = "pass" /\ Stream(rec[q].type) = "erro" /\ "erro" \in files[q] => epc[q] = "read"
        /\ epc[q] = "read" /\ "erro" \in files[q] => opc[q] # "ended"
        /\ spc[q] \in {"flush", "ended"} /\ opc[q] = "recv" => hup[q]
    BY DEF NoneWaitsInVain
  <2> QED BY DEF AllHeld, Shape, Held
<1> QED BY <1>1, AlwaysHeld, PTL

-----------------------------------------------------------------------------
(* The answer.                                                             *)

Streams == /\ nrec \in Nat
           /\ {stdout, got, out} \subseteq [Req -> Seq(Nat)]
           /\ rec \in [Req -> [type : Types \cup {"none"}, n : Nat]]
           /\ whole \in [Req -> BOOLEAN]

\* What outplex() holds of the answer.
InHand(q) == IF opc[q] = "pass" /\ rec[q].type = "stdout" /\ "outo" \in files[q]
             THEN <<rec[q].n>> ELSE <<>>

\* What serve() may still pass on is in the pipe and in the hands of outplex().
Passed(q) ==
  /\ spc[q] \in {"none", "send", "resp", "pass"} =>
       /\ stdout[q] = got[q] \o (out[q] \o InHand(q))
       /\ ~whole[q]
  /\ \E rest \in Seq(Nat) : stdout[q] = got[q] \o rest
  /\ whole[q] => stdout[q] = got[q] /\ (proto = "fcgi" => "outo" \notin files[q])
  /\ proto = "scgi" => out[q] = <<>>

AllPassed == Streams /\ \A q \in Req : Passed(q)

\* A request that a step does not concern, or whose answer it leaves where it is.
LEMMA OtherPassed ==
  ASSUME NEW r, Passed(r), proto' = proto, spc'[r] = spc[r],
         stdout'[r] = stdout[r], got'[r] = got[r], out'[r] = out[r], whole'[r] = whole[r],
         InHand(r)' = InHand(r), "outo" \in files'[r] => "outo" \in files[r]
  PROVE  Passed(r)'
BY DEF Passed

\* The beginning of a longer sequence is a prefix of it.
LEMMA Beginning ==
  ASSUME NEW s \in Seq(Nat), NEW t \in Seq(Nat)
  PROVE  IsPrefix(s, s \o t)
<1>1. Len(s) \in Nat /\ Len(t) \in Nat /\ Len(s \o t) = Len(s) + Len(t)
  BY ConcatProperties, LenProperties
<1>2. SubSeq(s, 1, Len(s)) = s
  BY SubSeqFull
<1>3. SubSeq(s \o t, 1, Len(s)) = s
  <2>1. CASE s = <<>>
    <3>1. Len(s) = 0
      BY <2>1, EmptySeq
    <3> QED BY <2>1, <3>1, SubSeqEmpty
  <2>2. CASE s # <<>>
    <3>1. 1 \in 1 .. Len(s) /\ Len(s) \in 1 .. Len(s)
      BY <1>1, <2>2, EmptySeq
    <3> QED BY <1>2, <3>1, SubSeqOfConcat1
  <2> QED BY <2>1, <2>2
<1> QED BY <1>1, <1>2, <1>3 DEF IsPrefix

\* One more unit of the answer.
LEMMA OneMore ==
  ASSUME NEW s \in Seq(Nat), NEW t \in Seq(Nat), NEW n \in Nat
  PROVE  /\ Append(s, n) \in Seq(Nat)
         /\ Append(s \o t, n) = s \o Append(t, n)
         /\ <<n>> \in Seq(Nat)
         /\ Append(t, n) = t \o <<n>>
<1>1. <<n>> \in Seq(Nat)
  OBVIOUS
<1>2. Append(s \o t, n) = (s \o t) \o <<n>>
  BY ConcatProperties, AppendIsConcat
<1>3. Append(t, n) = t \o <<n>>
  BY AppendIsConcat
<1>4. (s \o t) \o <<n>> = s \o (t \o <<n>>)
  BY <1>1, ConcatAssociative
<1> QED BY <1>1, <1>2, <1>3, <1>4, AppendProperties

\* listenloop() moves no part of an answer.
LEMMA ListenPasses == ASSUME AllHeld, AllPassed, Recv \/ Lost \/ Start PROVE AllPassed'
<1> USE FcgiAssumption DEF Req
<1>1. UNCHANGED <<proto, nrec, stdout, got, out, rec, whole>>
  BY DEF Recv, Lost, Start, hist
<1>2. Streams'
  BY <1>1 DEF AllPassed, Streams
<1>3. CASE Recv \/ Lost
  <2>1. UNCHANGED <<spc, opc>>
    BY <1>3 DEF Recv, Lost, pcs
  <2>2. ASSUME NEW r \in Req PROVE "outo" \in files'[r] <=> "outo" \in files[r]
    BY <1>3 DEF Recv, Lost, Opens, Closes, AllHeld, Shape
  <2>3. ASSUME NEW r \in Req PROVE Passed(r)'
    <3>1. InHand(r)' = InHand(r)
      BY <1>1, <2>1, <2>2 DEF InHand
    <3> QED BY <1>1, <2>1, <2>2, <3>1, OtherPassed DEF AllPassed
  <2> QED BY <1>2, <2>3 DEF AllPassed
<1>4. CASE Start
  <2>1. Busy /\ nreq \in Req
    BY <1>4, Places DEF Start, AllHeld, Shape
  <2>2. ASSUME NEW r \in Req, r # nreq PROVE Passed(r)'
    <3>1. spc'[r] = spc[r] /\ opc'[r] = opc[r] /\ files'[r] = files[r]
      BY <1>4, <2>2 DEF Start, Opens, ServeAt, OutplexAt, AllHeld, Shape
    <3>2. InHand(r)' = InHand(r)
      BY <1>1, <3>1 DEF InHand
    <3> QED BY <1>1, <3>1, <3>2, OtherPassed DEF AllPassed
  <2>3. ASSUME NEW r \in Req, r = nreq PROVE Passed(r)'
    <3>1. spc[r] = "none" /\ opc[r] = "none"
      BY <2>1, <2>3 DEF AllHeld, Held
    <3>2. opc'[r] # "pass"
      BY <1>4, <2>3, <3>1 DEF Start, OutplexAt, AllHeld, Shape
    <3>3. InHand(r) = <<>> /\ InHand(r)' = <<>>
      BY <3>1, <3>2 DEF InHand
    <3> QED BY <1>1, <3>1, <3>3 DEF Passed, AllPassed
  <2> QED BY <1>2, <2>2, <2>3 DEF AllPassed
<1> QED BY <1>3, <1>4

\* Send() and Flush() move none, and serve() loses none but where it leaves.
LEMMA SendPasses ==
  ASSUME AllHeld, AllPassed, NEW q \in Req, Send(q) \/ Flush(q), UNCHANGED <<lpc, proto, nreq>>
  PROVE  AllPassed'
<1>1. UNCHANGED <<opc, nrec, stdout, got, out, rec, whole>>
  BY DEF Send, Flush, hist
<1>2. Streams'
  BY <1>1 DEF AllPassed, Streams
<1>3. ASSUME NEW r \in Req PROVE Passed(r)'
  <2>1. "outo" \in files'[r] <=> "outo" \in files[r]
    BY DEF Send, Flush, Stays, Leaves, Closes, AllHeld, Shape
  <2>2. InHand(r)' = InHand(r)
    BY <1>1, <2>1 DEF InHand
  <2>3. \/ spc'[r] = spc[r]
        \/ spc[r] = "send" /\ spc'[r] \in {"resp", "flush"}
        \/ spc'[r] = "ended"
    BY DEF Send, Flush, Stays, Leaves, ServeAt, AllHeld, Shape
  <2>4. Passed(r)
    BY DEF AllPassed
  <2> QED BY <1>1, <2>1, <2>2, <2>3, <2>4 DEF Passed
<1> QED BY <1>2, <1>3 DEF AllPassed

\* errhandler() neither.
LEMMA ErrReadPasses ==
  ASSUME AllHeld, AllPassed, NEW q \in Req, ErrRead(q), UNCHANGED <<lpc, proto, nreq>>
  PROVE  AllPassed'
<1>1. UNCHANGED <<spc, opc, nrec, stdout, got, out, rec, whole>>
  BY DEF ErrRead, hist
<1>2. Streams'
  BY <1>1 DEF AllPassed, Streams
<1>3. ASSUME NEW r \in Req PROVE Passed(r)'
  <2>1. "outo" \in files'[r] <=> "outo" \in files[r]
    BY DEF ErrRead, Closes, AllHeld, Shape
  <2>2. InHand(r)' = InHand(r)
    BY <1>1, <2>1 DEF InHand
  <2> QED BY <1>1, <2>1, <2>2, OtherPassed DEF AllPassed
<1> QED BY <1>2, <1>3 DEF AllPassed

\* ConcatAssociative as a formula, for the units of an answer.
LEMMA Associative ==
  \A s, t, u \in Seq(Nat) : (s \o t) \o u = s \o (t \o u)
BY ConcatAssociative

\* A unit goes from the pipe to the client.
LEMMA TakeOne ==
  ASSUME NEW g \in Seq(Nat), NEW o \in Seq(Nat), NEW i \in Seq(Nat), o # <<>>
  PROVE  g \o (o \o i) = Append(g, Head(o)) \o (Tail(o) \o i)
<1> DEFINE h == <<Head(o)>>
           t == Tail(o)
<1>1. Head(o) \in Nat /\ t \in Seq(Nat) /\ h \in Seq(Nat)
  BY HeadTailProperties
<1>2. o = h \o t
  <2>1. Len(o) \in Nat \ {0}
    BY EmptySeq
  <2>2. SubSeq(o, 1, Len(o)) = <<o[1]>> \o SubSeq(o, 1 + 1, Len(o))
    BY <2>1, SubSeqRecursiveFirst
  <2>3. t = SubSeq(o, 2, Len(o))
    BY TailIsSubSeq
  <2> QED BY <2>2, <2>3, SubSeqFull
<1>3. Append(g, Head(o)) = g \o h
  BY <1>1, AppendIsConcat
<1> HIDE DEF h, t
<1>4. o \o i = h \o (t \o i)
  BY <1>1, <1>2, Associative
<1>5. t \o i \in Seq(Nat)
  BY <1>1, ConcatProperties
<1>6. g \o (h \o (t \o i)) = (g \o h) \o (t \o i)
  BY <1>1, <1>5, Associative
<1> QED BY <1>3, <1>4, <1>6 DEF t

\* serve() of callfcgi moves a unit of the answer from the pipe to the client, or leaves.
LEMMA PipePasses ==
  ASSUME AllHeld, AllPassed, NEW q \in Req, PassPipe(q), UNCHANGED <<lpc, proto, nreq>>
  PROVE  AllPassed'
<1>1. UNCHANGED <<opc, nrec, rec, stdout>> /\ proto = "fcgi" /\ spc[q] \in {"resp", "pass"}
  BY DEF PassPipe
<1>2. /\ stdout[q] \in Seq(Nat) /\ got[q] \in Seq(Nat) /\ out[q] \in Seq(Nat)
      /\ InHand(q) \in Seq(Nat)
      /\ ~whole[q]
      /\ stdout[q] = got[q] \o (out[q] \o InHand(q))
  <2>1. stdout[q] \in Seq(Nat) /\ got[q] \in Seq(Nat) /\ out[q] \in Seq(Nat)
    BY DEF AllPassed, Streams
  <2>2. rec[q].n \in Nat
    BY DEF AllPassed, Streams
  <2>3. InHand(q) \in Seq(Nat)
    BY <2>2 DEF InHand
  <2> QED BY <1>1, <2>1, <2>3 DEF AllPassed, Passed
<1>3. ASSUME NEW r \in Req PROVE "outo" \in files'[r] <=> "outo" \in files[r]
  BY DEF PassPipe, Gives, AnswerEnds, Stays, Leaves, Closes, AllHeld, Shape
<1>4. ASSUME NEW r \in Req PROVE InHand(r)' = InHand(r)
  BY <1>1, <1>3 DEF InHand
<1>5. CASE /\ out[q] # <<>>
           /\ out' = [out EXCEPT ![q] = Tail(@)]
           /\ Gives(q, Head(out[q]))
           /\ UNCHANGED whole
  <2>1. /\ Head(out[q]) \in Nat /\ Tail(out[q]) \in Seq(Nat) /\ Append(got[q], Head(out[q])) \in Seq(Nat)
        /\ stdout[q] = Append(got[q], Head(out[q])) \o (Tail(out[q]) \o InHand(q))
    <3> DEFINE g == got[q]
               o == out[q]
               i == InHand(q)
    <3>1. g \in Seq(Nat) /\ o \in Seq(Nat) /\ i \in Seq(Nat) /\ o # <<>> /\ stdout[q] = g \o (o \o i)
      BY <1>2, <1>5
    <3> HIDE DEF g, o, i
    <3>2. Head(o) \in Nat /\ Tail(o) \in Seq(Nat)
      BY <3>1, HeadTailProperties
    <3>3. Append(g, Head(o)) \in Seq(Nat)
      BY <3>1, <3>2, AppendProperties
    <3>4. stdout[q] = Append(g, Head(o)) \o (Tail(o) \o i)
      BY <3>1, TakeOne
    <3> QED BY <3>2, <3>3, <3>4 DEF g, o, i
  <2>2. got' = [got EXCEPT ![q] = Append(@, Head(out[q]))] \/ got' = got
    BY <1>5 DEF Gives, Put
  <2>3. Streams'
    <3>1. got' \in [Req -> Seq(Nat)]
      BY <2>1, <2>2 DEF AllPassed, Streams
    <3>2. out' \in [Req -> Seq(Nat)]
      BY <1>5, <2>1 DEF AllPassed, Streams
    <3> QED BY <1>1, <1>5, <3>1, <3>2 DEF AllPassed, Streams
  <2>4. ASSUME NEW r \in Req PROVE Passed(r)'
    <3>1. CASE r # q
      <4>1. spc'[r] = spc[r] /\ got'[r] = got[r] /\ out'[r] = out[r]
        BY <1>5, <2>2, <3>1 DEF Gives, Stays, Leaves, ServeAt, AllHeld, Shape, AllPassed, Streams
      <4> QED BY <1>1, <1>3, <1>4, <1>5, <4>1, OtherPassed DEF AllPassed
    <3>2. CASE r = q
      <4>1. out'[r] = Tail(out[r]) /\ whole'[r] = FALSE /\ stdout'[r] = stdout[r]
        BY <1>1, <1>2, <1>5, <3>2 DEF AllPassed, Streams
      <4>2. CASE got' = Put(got, q, Head(out[q])) /\ Stays(q, "pass")
        <5>1. got'[r] = Append(got[r], Head(out[r]))
          BY <3>2, <4>2 DEF Put, AllPassed, Streams
        <5>2. Tail(out[r]) \o InHand(r) \in Seq(Nat)
          BY <1>2, <2>1, <3>2, ConcatProperties
        <5> QED BY <1>1, <1>4, <2>1, <3>2, <4>1, <5>1, <5>2 DEF Passed
      <4>3. CASE Leaves(q) /\ UNCHANGED got
        <5>1. spc'[r] = "flush"
          BY <3>2, <4>3 DEF Leaves, ServeAt, AllHeld, Shape
        <5>2. got'[r] = got[r]
          BY <4>3
        <5>3. PICK rest \in Seq(Nat) : stdout[r] = got[r] \o rest
          BY DEF AllPassed, Passed
        <5> QED BY <1>1, <4>1, <5>1, <5>2, <5>3 DEF Passed
      <4> QED BY <1>5, <4>2, <4>3 DEF Gives
    <3> QED BY <3>1, <3>2
  <2> QED BY <2>3, <2>4 DEF AllPassed
<1>6. CASE /\ out[q] = <<>>
           /\ "outo" \notin files[q]
           /\ AnswerEnds(q)
           /\ UNCHANGED <<out, got>>
  <2> DEFINE w == spc[q] = "pass"
  <2>1. w \in BOOLEAN /\ whole' = [whole EXCEPT ![q] = w]
    BY <1>6 DEF AnswerEnds
  <2> HIDE DEF w
  <2>2. Streams'
    BY <1>1, <1>6, <2>1 DEF AllPassed, Streams
  <2>3. ASSUME NEW r \in Req PROVE Passed(r)'
    <3>1. CASE r # q
      <4>1. spc'[r] = spc[r] /\ whole'[r] = whole[r]
        BY <1>6, <2>1, <3>1 DEF AnswerEnds, Leaves, ServeAt, AllHeld, Shape, AllPassed, Streams
      <4> QED BY <1>1, <1>3, <1>4, <1>6, <4>1, OtherPassed DEF AllPassed
    <3>2. CASE r = q
      <4>1. spc'[r] = "flush"
        BY <1>6, <3>2 DEF AnswerEnds, Leaves, ServeAt, AllHeld, Shape
      <4>2. InHand(r) = <<>>
        BY <1>6, <3>2 DEF InHand
      <4>3. stdout[r] = got[r]
        BY <1>2, <1>6, <3>2, <4>2, ConcatEmptySeq, EmptySeq
      <4>4. "outo" \notin files'[r]
        BY <1>3, <1>6, <3>2
      <4>5. Passed(r)
        BY DEF AllPassed
      <4> QED BY <1>1, <1>6, <4>1, <4>3, <4>4, <4>5 DEF Passed
    <3> QED BY <3>1, <3>2
  <2> QED BY <2>2, <2>3 DEF AllPassed
<1> QED BY <1>5, <1>6 DEF PassPipe

\* serve() of callscgi passes a unit on as it comes.
LEMMA SocketPasses ==
  ASSUME AllHeld, AllPassed, NEW q \in Req, PassSocket(q), UNCHANGED <<lpc, proto, nreq>>
  PROVE  AllPassed'
<1>1. UNCHANGED <<opc, rec, out>> /\ proto = "scgi" /\ spc[q] \in {"resp", "pass"}
  BY DEF PassSocket
<1>2. /\ got[q] \in Seq(Nat) /\ stdout[q] = got[q]
      /\ out[q] = <<>> /\ InHand(q) = <<>> /\ InHand(q)' = <<>>
      /\ ~whole[q]
  <2>1. out[q] = <<>> /\ got[q] \in Seq(Nat) /\ ~whole[q] /\ stdout[q] = got[q] \o (out[q] \o InHand(q))
    BY <1>1 DEF AllPassed, Streams, Passed
  <2>2. InHand(q) = <<>> /\ InHand(q)' = <<>>
    BY <1>1 DEF AllHeld, Held, InHand
  <2>3. <<>> \o <<>> = <<>> /\ got[q] \o <<>> = got[q]
    BY <2>1, ConcatEmptySeq, EmptySeq
  <2> QED BY <2>1, <2>2, <2>3
<1>3. PICK n \in Nat : /\ nrec' \in Nat
                       /\ \/ /\ stdout' = Put(stdout, q, n)
                             /\ Gives(q, n)
                             /\ UNCHANGED whole
                          \/ AnswerEnds(q) /\ UNCHANGED <<stdout, got>>
                          \/ Leaves(q) /\ UNCHANGED hist
  <2>1. nrec \in Nat /\ nrec + 1 \in Nat
    BY DEF AllPassed, Streams
  <2> QED BY <2>1 DEF PassSocket
<1> DEFINE w == spc[q] = "pass"
<1>4. w \in BOOLEAN /\ whole' \in {whole, [whole EXCEPT ![q] = w]}
  BY <1>3 DEF AnswerEnds, hist
<1> HIDE DEF w
<1>5. Append(got[q], n) \in Seq(Nat) /\ <<n>> \in Seq(Nat) /\ Append(got[q], n) = got[q] \o <<n>>
  BY <1>2, OneMore
<1>6. /\ stdout' = stdout \/ stdout' = [stdout EXCEPT ![q] = Append(@, n)]
      /\ got' = got \/ got' = [got EXCEPT ![q] = Append(@, n)]
  BY <1>3 DEF AnswerEnds, Gives, Put, hist
<1>7. Streams'
  <2>1. stdout' \in [Req -> Seq(Nat)] /\ got' \in [Req -> Seq(Nat)]
    BY <1>2, <1>5, <1>6 DEF AllPassed, Streams
  <2>2. whole' \in [Req -> BOOLEAN]
    BY <1>4 DEF AllPassed, Streams
  <2> QED BY <1>1, <1>3, <2>1, <2>2 DEF AllPassed, Streams
<1>8. ASSUME NEW r \in Req, r # q PROVE Passed(r)'
  <2>1. /\ stdout'[r] = stdout[r] /\ got'[r] = got[r] /\ whole'[r] = whole[r]
    BY <1>4, <1>6, <1>8 DEF AllPassed, Streams
  <2>2. spc'[r] = spc[r] /\ files'[r] = files[r]
    BY <1>3, <1>8 DEF AnswerEnds, Gives, Stays, Leaves, Closes, ServeAt, AllHeld, Shape
  <2>3. InHand(r)' = InHand(r)
    BY <1>1, <2>2 DEF InHand
  <2> QED BY <1>1, <2>1, <2>2, <2>3, OtherPassed DEF AllPassed
<1>9. Passed(q)'
  <2>1. out'[q] = <<>> /\ proto' = "scgi"
    BY <1>1, <1>2
  <2>2. <<>> \in Seq(Nat) /\ <<>> \o <<>> = <<>>
    BY ConcatEmptySeq, EmptySeq
  <2>3. \A s \in Seq(Nat) : s \o <<>> = s
    BY ConcatEmptySeq
  <2>4. CASE stdout' = Put(stdout, q, n) /\ Gives(q, n) /\ UNCHANGED whole
    <3>1. stdout'[q] = Append(got[q], n) /\ whole'[q] = FALSE
      BY <1>2, <2>4 DEF Put, AllPassed, Streams
    <3>2. CASE got' = Put(got, q, n)
      <4>1. got'[q] = Append(got[q], n)
        BY <3>2 DEF Put, AllPassed, Streams
      <4> QED BY <1>2, <1>5, <2>1, <2>2, <2>3, <3>1, <4>1 DEF Passed
    <3>3. CASE Leaves(q) /\ UNCHANGED got
      <4>1. spc'[q] = "flush" /\ got'[q] = got[q]
        BY <3>3 DEF Leaves, ServeAt, AllHeld, Shape
      <4> QED BY <1>5, <2>1, <3>1, <4>1 DEF Passed
    <3> QED BY <2>4, <3>2, <3>3 DEF Gives
  <2>5. CASE Leaves(q) /\ UNCHANGED <<stdout, got>>
    <3>1. spc'[q] = "flush" /\ stdout'[q] = got'[q] /\ got'[q] = got[q]
      BY <1>2, <2>5 DEF Leaves, ServeAt, AllHeld, Shape
    <3> QED BY <1>2, <2>1, <2>2, <2>3, <3>1 DEF Passed
  <2> QED BY <1>3, <2>4, <2>5 DEF AnswerEnds, hist
<1> QED BY <1>7, <1>8, <1>9 DEF AllPassed

\* What outplex() reads is in its hands.
LEMMA RecvPasses ==
  ASSUME AllHeld, AllPassed, NEW q \in Req, OutRecv(q), UNCHANGED <<lpc, proto, nreq>>
  PROVE  AllPassed'
<1>1. UNCHANGED <<spc, out, got, whole>> /\ opc[q] = "recv" /\ proto = "fcgi"
  <2>1. UNCHANGED <<spc, out, got, whole>> /\ opc[q] = "recv"
    BY DEF OutRecv
  <2> QED BY <2>1 DEF AllHeld, Shape, Held
<1>2. InHand(q) = <<>> /\ Passed(q)
  BY <1>1 DEF InHand, AllPassed
<1>3. nrec \in Nat /\ nrec + 1 \in Nat /\ nrec' \in Nat
  <2>1. nrec \in Nat
    BY DEF AllPassed, Streams
  <2> QED BY <2>1 DEF OutRecv
<1>4. CASE OutEnds(q) /\ UNCHANGED <<rec, nrec, stdout>>
  <2>1. Streams'
    BY <1>1, <1>4 DEF AllPassed, Streams
  <2>2. ASSUME NEW r \in Req PROVE Passed(r)'
    <3>1. InHand(r)' = InHand(r) /\ ("outo" \in files'[r] => "outo" \in files[r])
      <4>1. CASE r = q
        BY <1>2, <1>4, <4>1 DEF OutEnds, OutplexAt, Closes, InHand, AllHeld, Shape
      <4>2. CASE r # q
        <5>1. files'[r] = files[r] /\ opc'[r] = opc[r]
          BY <1>4, <4>2 DEF OutEnds, OutplexAt, Closes, AllHeld, Shape
        <5> QED BY <1>4, <5>1 DEF InHand
      <4> QED BY <4>1, <4>2
    <3> QED BY <1>1, <1>4, <3>1, OtherPassed DEF AllPassed
  <2> QED BY <2>1, <2>2 DEF AllPassed
<1>5. ASSUME NEW t \in Types,
             rec' = [rec EXCEPT ![q] = [type |-> t, n |-> nrec + 1]],
             stdout' = IF t = "stdout" /\ "outo" \in files[q] THEN Put(stdout, q, nrec + 1) ELSE stdout,
             OutplexAt(q, "pass"), UNCHANGED files
      PROVE  AllPassed'
  <2> DEFINE n == nrec + 1
  <2>1. n \in Nat
    BY <1>3
  <2>2. rec'[q].type = t /\ rec'[q].n = n /\ opc'[q] = "pass"
    BY <1>5 DEF OutplexAt, AllHeld, Shape, AllPassed, Streams
  <2>3. rec' \in [Req -> [type : Types \cup {"none"}, n : Nat]]
    BY <1>3, <1>5 DEF AllPassed, Streams
  <2>4. stdout' = stdout \/ stdout' = [stdout EXCEPT ![q] = Append(@, n)]
    BY <1>5 DEF Put
  <2> HIDE DEF n
  <2>5. Streams'
    <3>1. stdout' \in [Req -> Seq(Nat)]
      <4>1. stdout[q] \in Seq(Nat)
        BY DEF AllPassed, Streams
      <4>2. Append(stdout[q], n) \in Seq(Nat)
        BY <2>1, <4>1, AppendProperties
      <4> QED BY <2>4, <4>2 DEF AllPassed, Streams
    <3> QED BY <1>1, <1>3, <2>3, <3>1 DEF AllPassed, Streams
  <2>6. ASSUME NEW r \in Req, r # q PROVE Passed(r)'
    <3>1. stdout'[r] = stdout[r] /\ rec'[r] = rec[r] /\ opc'[r] = opc[r] /\ files'[r] = files[r]
      BY <1>5, <2>4, <2>6 DEF OutplexAt, AllHeld, Shape, AllPassed, Streams
    <3>2. InHand(r)' = InHand(r)
      BY <3>1 DEF InHand
    <3> QED BY <1>1, <3>1, <3>2, OtherPassed DEF AllPassed
  <2>7. Passed(q)'
    <3>1. CASE t = "stdout" /\ "outo" \in files[q]
      <4>1. InHand(q)' = <<n>>
        BY <1>5, <2>2, <3>1 DEF InHand
      <4>2. stdout'[q] = Append(stdout[q], n)
        BY <1>5, <3>1 DEF Put, AllPassed, Streams, n
      <4>3. got[q] \in Seq(Nat) /\ out[q] \in Seq(Nat)
        BY DEF AllPassed, Streams
      <4>4. ASSUME NEW x \in Seq(Nat), stdout[q] = got[q] \o x
            PROVE  Append(x, n) \in Seq(Nat) /\ stdout'[q] = got[q] \o Append(x, n)
        <5>1. Append(x, n) \in Seq(Nat) /\ Append(got[q] \o x, n) = got[q] \o Append(x, n)
          BY <2>1, <4>3, <4>4, OneMore
        <5> QED BY <4>2, <4>4, <5>1
      <4>5. out[q] \o <<>> = out[q] /\ Append(out[q], n) = out[q] \o <<n>>
        BY <2>1, <4>3, ConcatEmptySeq, AppendIsConcat
      <4>6. spc[q] \in {"none", "send", "resp", "pass"} => stdout[q] = got[q] \o out[q] /\ ~whole[q]
        BY <1>2, <4>5 DEF Passed
      <4>7. spc[q] \in {"none", "send", "resp", "pass"} => stdout'[q] = got[q] \o (out[q] \o <<n>>)
        BY <4>3, <4>4, <4>5, <4>6
      <4>8. \E rest \in Seq(Nat) : stdout'[q] = got[q] \o rest
        BY <1>2, <4>4 DEF Passed
      <4>9. ~whole[q]
        BY <1>1, <1>2, <3>1 DEF Passed
      <4> QED BY <1>1, <4>1, <4>7, <4>8, <4>9 DEF Passed
    <3>2. CASE ~(t = "stdout" /\ "outo" \in files[q])
      <4>1. InHand(q)' = <<>> /\ stdout' = stdout
        BY <1>5, <2>2, <3>2 DEF InHand
      <4> QED BY <1>1, <1>2, <1>5, <4>1, OtherPassed
    <3> QED BY <3>1, <3>2
  <2> QED BY <2>5, <2>6, <2>7 DEF AllPassed
<1> QED BY <1>4, <1>5 DEF OutRecv

\* outplex() puts it into the pipe, unless serve() has left.
LEMMA OutPassPasses ==
  ASSUME AllHeld, AllPassed, NEW q \in Req, OutPass(q), UNCHANGED <<lpc, proto, nreq>>
  PROVE  AllPassed'
<1> DEFINE n == rec[q].n
<1>1. UNCHANGED <<spc, nrec, stdout, got, whole>> /\ opc[q] = "pass" /\ proto = "fcgi"
  <2>1. UNCHANGED <<spc, nrec, stdout, got, whole>> /\ opc[q] = "pass"
    BY DEF OutPass, hist
  <2> QED BY <2>1 DEF AllHeld, Shape, Held
<1>2. /\ Passed(q) /\ n \in Nat /\ rec[q].type \in Types \cup {"none"}
      /\ got[q] \in Seq(Nat) /\ out[q] \in Seq(Nat)
  BY DEF AllPassed, Streams
<1>3. /\ rec' = [rec EXCEPT ![q] = NoRec]
      /\ OutplexAt(q, "recv") \/ OutEnds(q)
      /\ \/ UNCHANGED files
         \/ Closes(q, {"outo"})
         \/ Closes(q, {"erro"})
         \/ OutEnds(q)
  <2>1. rec[q].type \in {"outend", "errend"} => Stream(rec[q].type) \in {"outo", "erro"}
    BY DEF Stream
  <2> QED BY <2>1 DEF OutPass
<1>4. /\ rec' \in [Req -> [type : Types \cup {"none"}, n : Nat]]
      /\ \A r \in Req : r # q => opc'[r] = opc[r] /\ rec'[r] = rec[r] /\ files'[r] = files[r]
      /\ \A r \in Req : files'[r] \subseteq files[r]
      /\ opc'[q] # "pass"
  <2>1. rec' \in [Req -> [type : Types \cup {"none"}, n : Nat]]
    <3>1. NoRec \in [type : Types \cup {"none"}, n : Nat]
      BY DEF NoRec
    <3> QED BY <1>3, <3>1 DEF AllPassed, Streams
  <2>2. opc'[q] # "pass" /\ \A r \in Req : r # q => opc'[r] = opc[r]
    BY <1>3 DEF OutplexAt, OutEnds, AllHeld, Shape
  <2>3. \A r \in Req : r # q => rec'[r] = rec[r]
    BY <1>3 DEF AllPassed, Streams
  <2>4. \A r \in Req : (r # q => files'[r] = files[r]) /\ files'[r] \subseteq files[r]
    BY <1>3 DEF OutEnds, Closes, AllHeld, Shape
  <2> QED BY <2>1, <2>2, <2>3, <2>4
<1>5. InHand(q)' = <<>>
  BY <1>4 DEF InHand
\* Either the unit in hand goes into the pipe, or there is none, or nobody to read it.
<1>6. \/ out' = [out EXCEPT ![q] = Append(@, n)] /\ InHand(q) = <<n>>
      \/ out' = out /\ InHand(q) = <<>>
      \/ out' = out /\ spc[q] \in {"flush", "ended"}
  <2>1. rec[q].type # "stdout" => InHand(q) = <<>>
    BY DEF InHand
  <2>2. Stream("stdout") = "outo" /\ Stream("stderr") = "erro"
    BY DEF Stream
  <2>3. "outo" \notin files[q] => InHand(q) = <<>>
    BY DEF InHand
  <2>4. rec[q].type = "stdout" /\ "outo" \in files[q] => InHand(q) = <<n>>
    BY <1>1 DEF InHand
  <2>5. "outi" \notin files[q] => spc[q] \in {"flush", "ended"}
    BY <1>1 DEF AllHeld, Shape, Held
  <2>6. CASE Stream(rec[q].type) \notin files[q]
    BY <2>1, <2>2, <2>3, <2>6 DEF OutPass
  <2>7. CASE rec[q].type \in {"outend", "errend"} /\ UNCHANGED out
    BY <2>1, <2>7
  <2>8. CASE /\ rec[q].type \in {"stdout", "stderr"}
             /\ Stream(rec[q].type) \in files[q]
             /\ IF Stream(rec[q].type) = "outo" THEN out' = Put(out, q, n) ELSE UNCHANGED out
    BY <2>1, <2>2, <2>4, <2>8 DEF Put
  <2>9. CASE /\ rec[q].type \in {"stdout", "stderr"}
             /\ (IF Stream(rec[q].type) = "outo" THEN "outi" ELSE "erri") \notin files[q]
             /\ UNCHANGED out
    BY <2>1, <2>2, <2>5, <2>9
  <2> QED BY <2>6, <2>7, <2>8, <2>9 DEF OutPass
<1> HIDE DEF n
<1>7. Append(out[q], n) \in Seq(Nat) /\ Append(out[q], n) = out[q] \o <<n>>
  BY <1>2, AppendProperties, AppendIsConcat
<1>8. Streams'
  <2>1. out' \in [Req -> Seq(Nat)]
    BY <1>6, <1>7 DEF AllPassed, Streams
  <2> QED BY <1>1, <1>4, <2>1 DEF AllPassed, Streams
<1>9. ASSUME NEW r \in Req, r # q PROVE Passed(r)'
  <2>1. out'[r] = out[r]
    BY <1>6, <1>9 DEF AllPassed, Streams
  <2>2. InHand(r)' = InHand(r)
    BY <1>4, <1>9 DEF InHand
  <2> QED BY <1>1, <1>4, <1>9, <2>1, <2>2, OtherPassed DEF AllPassed
<1>10. Passed(q)'
  <2>1. spc[q] \in {"none", "send", "resp", "pass"} => out'[q] \o <<>> = out[q] \o InHand(q)
    <3>1. CASE out' = [out EXCEPT ![q] = Append(@, n)] /\ InHand(q) = <<n>>
      <4>1. out'[q] = Append(out[q], n)
        BY <3>1 DEF AllPassed, Streams
      <4>2. out'[q] \o <<>> = out'[q]
        BY <1>7, <4>1, ConcatEmptySeq
      <4> QED BY <1>7, <3>1, <4>1, <4>2
    <3> QED BY <1>6, <3>1
  <2> QED BY <1>1, <1>2, <1>4, <1>5, <2>1 DEF Passed
<1> QED BY <1>8, <1>9, <1>10 DEF AllPassed

\* The invariant of the answers, whatever the handlers and the clients do.
THEOREM AlwaysPassed == Spec => []AllPassed
<1>1. Init => AllPassed
  <2> SUFFICES ASSUME Init PROVE AllPassed
    OBVIOUS
  <2>1. <<>> \in Seq(Nat) /\ <<>> \o <<>> = <<>>
    BY ConcatEmptySeq, EmptySeq
  <2>2. Streams
    BY <2>1 DEF Init, Streams, NoRec
  <2>3. ASSUME NEW r \in Req PROVE Passed(r)
    BY <2>1 DEF Init, Passed, InHand
  <2> QED BY <2>2, <2>3 DEF AllPassed
<1>2. AllHeld /\ AllPassed /\ [Next]_vars => AllPassed'
  <2> SUFFICES ASSUME AllHeld, AllPassed, [Next]_vars PROVE AllPassed'
    OBVIOUS
  <2>1. CASE Recv \/ Lost \/ Start
    BY <2>1, ListenPasses
  <2>2. CASE UNCHANGED <<proto, pcs, pipes, nrec, hist>>
    BY <2>2 DEF pcs, pipes, hist, AllPassed, Streams, Passed, InHand
  <2>3. CASE Connects \/ Stop \/ Finish \/ Elsewhere
    BY <2>2, <2>3 DEF Connects, Stop, Finish, Elsewhere
  <2>4. ASSUME NEW q \in Req, Runs(Serve(q)) \/ Runs(Outplex(q)) \/ Runs(ErrRead(q)) PROVE AllPassed'
    <3>1. UNCHANGED <<lpc, proto, nreq>>
      BY <2>4 DEF Runs, cvars
    <3>2. CASE Serve(q)
      BY <3>1, <3>2, SendPasses, PipePasses, SocketPasses DEF Serve
    <3>3. CASE Outplex(q)
      BY <3>1, <3>3, RecvPasses, OutPassPasses DEF Outplex
    <3>4. CASE ErrRead(q)
      BY <3>1, <3>4, ErrReadPasses
    <3> QED BY <2>4, <3>2, <3>3, <3>4 DEF Runs
  <2>5. CASE UNCHANGED vars
    BY <2>2, <2>5 DEF vars
  <2> QED BY <2>1, <2>2, <2>3, <2>4, <2>5 DEF Next, CutOff
<1> QED BY <1>1, <1>2, AlwaysHeld, PTL DEF Spec

\* Every client is sent the beginning of its own request's answer, and all of it when
\* passdata() comes to an end.
THEOREM AnswersAlwaysOwn == Spec => []AnswerOwn
<1>1. AllPassed => AnswerOwn
  <2> SUFFICES ASSUME AllPassed, NEW q \in Req
               PROVE  IsPrefix(got[q], stdout[q]) /\ (whole[q] => got[q] = stdout[q])
    BY DEF AnswerOwn
  <2>1. PICK rest \in Seq(Nat) : stdout[q] = got[q] \o rest
    BY DEF AllPassed, Passed
  <2>2. got[q] \in Seq(Nat)
    BY DEF AllPassed, Streams
  <2> QED BY <2>1, <2>2, Beginning DEF AllPassed, Passed
<1> QED BY <1>1, AlwaysPassed, PTL

-----------------------------------------------------------------------------
(* Type correctness.                                                       *)

\* What the pipes and the histories of a request hold are units of records so far.
Fits(q) == /\ {out[q], err[q], stdout[q], got[q]} \subseteq Seq(1 .. nrec)
           /\ Len(out[q]) <= PipeMax /\ Len(err[q]) <= PipeMax
           /\ rec[q].type \in Types \cup {"none"}
           /\ rec[q].n \in 0 .. nrec
           /\ opc[q] = "pass" => rec[q].n > 0

Units == /\ nrec \in 0 .. MaxRec
         /\ err \in [Req -> Seq(Nat)]
         /\ \A q \in Req : Fits(q)

Typed == ConnectTypeOK /\ aborted \in BOOLEAN /\ Units

\* The connection manager's variables keep their types.
LEMMA ConnectTypes ==
  ASSUME ConnectTypeOK, Connecting \/ Others \/ Reconn \/ Loop \/ ListenEnds \/ Exit
  PROVE  ConnectTypeOK'
<1> USE ConnectAssumption
<1>1. CASE Reconn \/ Loop \/ ListenEnds
  BY <1>1 DEF ConnectTypeOK, Reconn, Loop, ListenEnds, Goto, world
<1>2. CASE Exit \/ SFailed
  BY <1>2 DEF ConnectTypeOK, Exit, SFailed, KillCurAddr, Goto, world
<1>3. CASE Fail \/ SConnected
  BY <1>3 DEF ConnectTypeOK, Fail, SConnected, Goto, world
<1>4. CASE StartAnon \/ StartListen \/ StartNoListen
  <2>1. CASE StartAnon /\ ~Fail
    BY <2>1 DEF ConnectTypeOK, StartAnon, Forked, Goto
  <2>2. CASE StartListen /\ ~Fail
    <3>1. PICK p \in Proc : /\ Forked(p)
                            /\ at' = p /\ isanon' = FALSE /\ tries' = 0 /\ lpc' = "unlink"
                            /\ UNCHANGED <<mode, kind, curaddr, termed>>
      BY <2>2 DEF StartListen, Goto
    <3>2. isanon' \in BOOLEAN /\ at' \in Proc \cup {Server, NoAddr}
      BY <3>1
    <3>3. tries' \in 0 .. Retries
      BY <3>1
    <3>4. /\ child' \in Proc \cup {NoAddr}
          /\ up' \subseteq Proc \cup {Server}
          /\ started' \subseteq Proc
      BY <3>1 DEF Forked, ConnectTypeOK
    <3> QED BY <3>1, <3>2, <3>3, <3>4 DEF ConnectTypeOK
  <2>3. CASE StartNoListen /\ ~Fail
    BY <2>3 DEF ConnectTypeOK, StartNoListen, Forked, Goto
  <2> QED BY <1>3, <1>4, <2>1, <2>2, <2>3
<1>5. CASE StartNone \/ Unlink
  BY <1>3, <1>5 DEF ConnectTypeOK, StartNone, Unlink, Goto, world
<1>6. CASE EConnected
  BY <1>6 DEF ConnectTypeOK, EConnected, Goto, world
<1>7. CASE EFailed
  <2>1. CASE tries < NoListen /\ tries' = tries + 1 /\ Goto("unlink")
             /\ UNCHANGED <<mode, kind, curaddr, isanon, child, started, termed, world>>
    <3>1. tries' \in 0 .. Retries
      <4>1. tries \in 0 .. Retries /\ tries' = tries + 1 /\ tries < NoListen
        BY <2>1 DEF ConnectTypeOK
      <4>2. NoListen \in 0 .. Retries
        BY DEF NoListen
      <4> QED BY <4>1, <4>2
    <3> QED BY <2>1, <3>1 DEF ConnectTypeOK, Goto, world
  <2> QED BY <1>3, <1>7, <2>1 DEF EFailed
<1>8. CASE Others
  BY <1>8 DEF ConnectTypeOK, Others, ServerStarts, Dies, Binds
<1> QED BY <1>1, <1>2, <1>3, <1>4, <1>5, <1>6, <1>7, <1>8 DEF Connecting

\* With more records there are more units.
LEMMA MoreUnits ==
  ASSUME NEW m \in Nat, NEW n \in Nat, m <= n, NEW s \in Seq(1 .. m)
  PROVE  s \in Seq(1 .. n)
<1>1. 1 .. m \subseteq 1 .. n
  OBVIOUS
<1> QED BY <1>1, SeqMonotonic

\* A request that a step does not concern.
LEMMA OtherFits ==
  ASSUME NEW r, Fits(r), nrec \in Nat, nrec' \in Nat, nrec <= nrec',
         out'[r] = out[r], err'[r] = err[r], stdout'[r] = stdout[r], got'[r] = got[r], rec'[r] = rec[r],
         opc'[r] = opc[r]
  PROVE  Fits(r)'
BY MoreUnits DEF Fits

\* A record, or callscgi's next unit, brings one unit more.
LEMMA OneUnitMore ==
  ASSUME NEW n \in Nat, NEW s \in Seq(1 .. n)
  PROVE  Append(s, n + 1) \in Seq(1 .. n + 1)
<1>1. s \in Seq(1 .. n + 1)
  BY MoreUnits
<1> QED BY <1>1, AppendProperties

\* One that leaves a pipe makes room.
LEMMA OneUnitLess ==
  ASSUME NEW n \in Nat, NEW s \in Seq(1 .. n), s # <<>>, Len(s) <= PipeMax
  PROVE  Head(s) \in 1 .. n /\ Tail(s) \in Seq(1 .. n) /\ Len(Tail(s)) <= PipeMax
<1>1. Head(s) \in 1 .. n /\ Tail(s) \in Seq(1 .. n) /\ Len(Tail(s)) = Len(s) - 1
  BY HeadTailProperties
<1>2. Len(s) \in Nat
  BY LenProperties
<1> QED BY <1>1, <1>2, FcgiAssumption

\* serve() of callfcgi moves units.
LEMMA PipeTypes == ASSUME AllHeld, AllPassed, Units, NEW q \in Req, PassPipe(q) PROVE Units'
<1>1. UNCHANGED <<opc, err, rec, nrec, stdout>> /\ nrec \in Nat
  BY FcgiAssumption DEF PassPipe, Units
<1>2. \/ out' = out /\ got' = got
      \/ /\ out[q] # <<>>
         /\ out' = [out EXCEPT ![q] = Tail(@)]
         /\ got' = got \/ got' = [got EXCEPT ![q] = Append(@, Head(out[q]))]
  BY DEF PassPipe, Gives, Put
<1>3. ASSUME NEW r \in Req, r # q PROVE Fits(r)'
  <2>1. out'[r] = out[r] /\ got'[r] = got[r]
    BY <1>2, <1>3 DEF AllPassed, Streams
  <2> QED BY <1>1, <2>1, OtherFits DEF Units
<1>4. Fits(q)'
  <2>1. CASE out' = out /\ got' = got
    BY <1>1, <2>1, OtherFits DEF Units
  <2>2. CASE /\ out[q] # <<>>
             /\ out' = [out EXCEPT ![q] = Tail(@)]
             /\ got' = got \/ got' = [got EXCEPT ![q] = Append(@, Head(out[q]))]
    <3>1. /\ Head(out[q]) \in 1 .. nrec
          /\ Tail(out[q]) \in Seq(1 .. nrec)
          /\ Len(Tail(out[q])) <= PipeMax
      <4>1. out[q] \in Seq(1 .. nrec) /\ Len(out[q]) <= PipeMax
        BY DEF Units, Fits
      <4> QED BY <1>1, <2>2, <4>1, OneUnitLess
    <3>2. got'[q] \in Seq(1 .. nrec)
      <4>1. got[q] \in Seq(1 .. nrec)
        BY DEF Units, Fits
      <4>2. Append(got[q], Head(out[q])) \in Seq(1 .. nrec)
        BY <3>1, <4>1, AppendProperties
      <4> QED BY <2>2, <4>1, <4>2 DEF AllPassed, Streams
    <3>3. out'[q] = Tail(out[q])
      BY <2>2 DEF AllPassed, Streams
    <3> QED BY <1>1, <3>1, <3>2, <3>3 DEF Units, Fits
  <2> QED BY <1>2, <2>1, <2>2
<1> QED BY <1>1, <1>3, <1>4 DEF Units

\* serve() of callscgi, and outplex(), get new ones.
LEMMA ReceiveTypes ==
  ASSUME AllHeld, AllPassed, Units, NEW q \in Req, PassSocket(q) \/ OutRecv(q)
  PROVE  Units'
<1> USE FcgiAssumption
<1>1. UNCHANGED <<err, out>>
  BY DEF PassSocket, OutRecv
<1>2. nrec \in Nat
  BY DEF Units
<1> DEFINE n == nrec + 1
<1>3. \/ nrec' = nrec /\ stdout' = stdout /\ got' = got /\ rec' = rec /\ opc'[q] \in {opc[q], "ended"}
      \/ /\ nrec' = n /\ n \in 0 .. MaxRec
         /\ stdout' = stdout \/ stdout' = [stdout EXCEPT ![q] = Append(@, n)]
         /\ got' = got \/ got' = [got EXCEPT ![q] = Append(@, n)]
         /\ \/ rec' = rec /\ opc' = opc
            \/ \E t \in Types : rec' = [rec EXCEPT ![q] = [type |-> t, n |-> n]]
  <2>1. CASE PassSocket(q)
    BY <1>2, <2>1 DEF PassSocket, Gives, AnswerEnds, Put, hist, Units
  <2>2. CASE OutRecv(q)
    BY <1>2, <2>2 DEF OutRecv, OutEnds, OutplexAt, Put, Units, AllHeld, Shape
  <2> QED BY <2>1, <2>2
<1>4. \A r \in Req : r # q => opc'[r] = opc[r]
  BY DEF PassSocket, OutRecv, OutEnds, OutplexAt, AllHeld, Shape
<1>5. nrec' \in 0 .. MaxRec /\ nrec' \in Nat /\ nrec <= nrec'
  BY <1>2, <1>3 DEF Units
<1>6. ASSUME NEW r \in Req, r # q PROVE Fits(r)'
  <2>1. stdout'[r] = stdout[r] /\ got'[r] = got[r] /\ rec'[r] = rec[r]
    BY <1>3, <1>6 DEF AllPassed, Streams
  <2> QED BY <1>1, <1>2, <1>4, <1>5, <1>6, <2>1, OtherFits DEF Units
<1>7. Fits(q)'
  <2>1. CASE nrec' = nrec /\ stdout' = stdout /\ got' = got /\ rec' = rec /\ opc'[q] \in {opc[q], "ended"}
    BY <1>1, <2>1 DEF Units, Fits
  <2>2. CASE /\ nrec' = n
             /\ stdout' = stdout \/ stdout' = [stdout EXCEPT ![q] = Append(@, n)]
             /\ got' = got \/ got' = [got EXCEPT ![q] = Append(@, n)]
             /\ \/ rec' = rec /\ opc' = opc
                \/ \E t \in Types : rec' = [rec EXCEPT ![q] = [type |-> t, n |-> n]]
    <3>1. {out[q], err[q], stdout[q], got[q]} \subseteq Seq(1 .. nrec)
      BY DEF Units, Fits
    <3>2. {out[q], err[q], stdout[q], got[q]} \subseteq Seq(1 .. n)
      BY <1>2, <3>1, MoreUnits
    <3>3. Append(stdout[q], n) \in Seq(1 .. n) /\ Append(got[q], n) \in Seq(1 .. n)
      BY <1>2, <3>1, OneUnitMore
    <3>4. stdout'[q] \in Seq(1 .. n) /\ got'[q] \in Seq(1 .. n)
      BY <2>2, <3>2, <3>3 DEF AllPassed, Streams
    <3>5. rec'[q].type \in Types \cup {"none"} /\ rec'[q].n \in 0 .. n /\ (opc'[q] = "pass" => rec'[q].n > 0)
      BY <1>2, <2>2 DEF AllPassed, Streams, Units, Fits
    <3> QED BY <1>1, <2>2, <3>2, <3>4, <3>5 DEF Units, Fits
  <2> QED BY <1>3, <2>1, <2>2
<1> QED BY <1>1, <1>5, <1>6, <1>7 DEF Units

\* outplex() puts one into a pipe that has room.
LEMMA OutPassTypes == ASSUME AllHeld, AllPassed, Units, NEW q \in Req, OutPass(q) PROVE Units'
<1> DEFINE n == rec[q].n
<1>1. UNCHANGED <<nrec, stdout, got>> /\ nrec \in Nat
  BY FcgiAssumption DEF OutPass, Units, hist
<1>2. rec' = [rec EXCEPT ![q] = NoRec] /\ opc'[q] # "pass" /\ \A r \in Req : r # q => opc'[r] = opc[r]
  BY DEF OutPass, OutEnds, OutplexAt, AllHeld, Shape
<1>3. /\ n \in 1 .. nrec
      /\ out[q] \in Seq(1 .. nrec) /\ Len(out[q]) <= PipeMax
      /\ err[q] \in Seq(1 .. nrec) /\ Len(err[q]) <= PipeMax
  BY <1>1 DEF OutPass, Units, Fits
<1>4. \/ out' = out /\ err' = err
      \/ Len(out[q]) < PipeMax /\ out' = [out EXCEPT ![q] = Append(@, n)] /\ err' = err
      \/ Len(err[q]) < PipeMax /\ err' = [err EXCEPT ![q] = Append(@, n)] /\ out' = out
  BY DEF OutPass, Put
<1>5. /\ Append(err[q], n) \in Seq(1 .. nrec) /\ Append(err[q], n) \in Seq(Nat)
      /\ Len(err[q]) < PipeMax => Len(Append(err[q], n)) <= PipeMax
      /\ Append(out[q], n) \in Seq(1 .. nrec)
      /\ Len(out[q]) < PipeMax => Len(Append(out[q], n)) <= PipeMax
  <2> HIDE DEF n
  <2>1. err[q] \in Seq(Nat) /\ n \in Nat
    BY <1>3 DEF Units
  <2>2. /\ Append(err[q], n) \in Seq(1 .. nrec) /\ Len(Append(err[q], n)) = Len(err[q]) + 1
        /\ Append(out[q], n) \in Seq(1 .. nrec) /\ Len(Append(out[q], n)) = Len(out[q]) + 1
        /\ Append(err[q], n) \in Seq(Nat)
    BY <1>3, <2>1, AppendProperties
  <2>3. Len(err[q]) \in Nat /\ Len(out[q]) \in Nat
    BY <1>3, LenProperties
  <2> QED BY <2>2, <2>3, FcgiAssumption
<1> HIDE DEF n
<1>6. err' \in [Req -> Seq(Nat)]
  BY <1>4, <1>5 DEF Units
<1>7. ASSUME NEW r \in Req, r # q PROVE Fits(r)'
  <2>1. out'[r] = out[r] /\ err'[r] = err[r] /\ rec'[r] = rec[r] /\ opc'[r] = opc[r]
    BY <1>2, <1>4, <1>7 DEF AllPassed, Streams, Units
  <2> QED BY <1>1, <2>1, OtherFits DEF Units
<1>8. Fits(q)'
  <2>1. rec'[q] = NoRec
    BY <1>2 DEF AllPassed, Streams
  <2>2. /\ out'[q] \in Seq(1 .. nrec) /\ Len(out'[q]) <= PipeMax
        /\ err'[q] \in Seq(1 .. nrec) /\ Len(err'[q]) <= PipeMax
    BY <1>3, <1>4, <1>5 DEF AllPassed, Streams, Units
  <2> QED BY <1>1, <1>2, <2>1, <2>2 DEF Units, Fits, NoRec
<1> QED BY <1>1, <1>6, <1>7, <1>8 DEF Units

\* errhandler() takes one out.
LEMMA ErrReadTypes == ASSUME AllHeld, AllPassed, Units, NEW q \in Req, ErrRead(q) PROVE Units'
<1>1. UNCHANGED <<opc, out, rec, nrec, stdout, got>> /\ nrec \in Nat
  BY FcgiAssumption DEF ErrRead, Units, hist
<1>2. CASE err' = err
  BY <1>1, <1>2, OtherFits DEF Units
<1>3. CASE err[q] # <<>> /\ err' = [err EXCEPT ![q] = Tail(@)]
  <2>1. Tail(err[q]) \in Seq(1 .. nrec) /\ Len(Tail(err[q])) <= PipeMax /\ Tail(err[q]) \in Seq(Nat)
    <3>1. err[q] \in Seq(1 .. nrec) /\ Len(err[q]) <= PipeMax /\ err[q] \in Seq(Nat)
      BY DEF Units, Fits
    <3> QED BY <1>1, <1>3, <3>1, OneUnitLess, HeadTailProperties
  <2>2. err' \in [Req -> Seq(Nat)]
    BY <1>3, <2>1 DEF Units
  <2>3. ASSUME NEW r \in Req, r # q PROVE Fits(r)'
    <3>1. err'[r] = err[r]
      BY <1>3, <2>3 DEF Units
    <3> QED BY <1>1, <3>1, OtherFits DEF Units
  <2>4. err'[q] = Tail(err[q])
    BY <1>3 DEF Units
  <2>5. Fits(q)'
    BY <1>1, <2>1, <2>4 DEF Units, Fits
  <2> QED BY <1>1, <2>2, <2>3, <2>5 DEF Units
<1> QED BY <1>2, <1>3 DEF ErrRead

\* No descriptor, pipe or process of callfcgi and callscgi is ever anything but what
\* its type says, and no pipe holds more than fits into it.
THEOREM AlwaysTyped == Spec => []TypeOK
<1> USE FcgiAssumption
<1>1. Init => Typed
  <2> SUFFICES ASSUME Init PROVE Typed
    OBVIOUS
  <2>1. PICK c \in Calls : mode = c[1] /\ kind = c[2]
    BY DEF Init, ConnectInit
  <2>2. <<mode, kind>> = c
    BY <2>1, ConnectAssumption
  <2>3. ConnectTypeOK
    <3>1. isanon \in BOOLEAN
      BY DEF Init, ConnectInit
    <3>2. lpc = "wait" /\ curaddr = NoAddr /\ child = NoAddr /\ tries = 0 /\ at = NoAddr
          /\ up = {} /\ started = {} /\ termed = {}
      BY DEF Init, ConnectInit
    <3> QED BY <2>2, <3>1, <3>2, ConnectAssumption DEF ConnectTypeOK
  <2>4. \A S : <<>> \in Seq(S)
    BY EmptySeq
  <2>5. nrec \in 0 .. MaxRec /\ err \in [Req -> Seq(Nat)]
    BY <2>4 DEF Init
  <2>6. aborted \in BOOLEAN
    BY DEF Init
  <2>7. ASSUME NEW q \in Req PROVE Fits(q)
    <3>1. Len(<<>>) = 0
      BY EmptySeq
    <3> QED BY <2>4, <3>1 DEF Init, Fits, NoRec
  <2> QED BY <2>3, <2>5, <2>6, <2>7 DEF Typed, Units
<1>2. AllHeld /\ AllPassed /\ Typed /\ [Next]_vars => Typed'
  <2> SUFFICES ASSUME AllHeld, AllPassed, Typed, [Next]_vars PROVE Typed'
    OBVIOUS
  <2>1. ConnectTypeOK'
    <3>1. CASE UNCHANGED cvars
      BY <3>1 DEF Typed, ConnectTypeOK, cvars, world
    <3>2. CASE Connecting \/ Others \/ Reconn \/ Loop \/ ListenEnds \/ Exit
      BY <3>2, ConnectTypes DEF Typed
    <3> QED BY <3>1, <3>2
            DEF Next, Recv, Connects, Lost, Start, Stop, Finish, Elsewhere, Runs, CutOff, vars
  <2>2. aborted' \in BOOLEAN
    BY DEF Typed, Next, Recv, Connects, Lost, Start, Stop, Finish, Elsewhere, Runs, CutOff, Alive, vars
  <2>3. Units'
    <3>1. CASE UNCHANGED <<opc, out, err, rec, nrec, stdout, got>>
      <4>1. nrec \in Nat /\ nrec' = nrec
        BY <3>1 DEF Typed, Units
      <4> QED BY <3>1, <4>1, OtherFits DEF Typed, Units
    <3>2. CASE Recv \/ Connects \/ Lost \/ Stop \/ Finish \/ Elsewhere \/ UNCHANGED vars
      BY <3>1, <3>2 DEF Recv, Connects, Lost, Stop, Finish, Elsewhere, vars, pcs, pipes, hist
    <3>3. CASE Start
      <4>1. UNCHANGED <<out, err, rec, nrec, stdout, got>> /\ nrec \in Nat
        BY <3>3 DEF Start, hist, Typed, Units
      <4>2. ASSUME NEW r \in Req, opc'[r] # "pass" PROVE Fits(r)'
        BY <4>1, <4>2 DEF Typed, Units, Fits
      <4>3. ASSUME NEW r \in Req, opc'[r] = "pass" PROVE opc'[r] = opc[r]
        BY <3>3, <4>3 DEF Start, OutplexAt, AllHeld, Shape
      <4>4. ASSUME NEW r \in Req PROVE Fits(r)'
        BY <4>1, <4>2, <4>3, OtherFits DEF Typed, Units
      <4> QED BY <4>1, <4>4 DEF Typed, Units
    <3>4. ASSUME NEW q \in Req, Runs(Serve(q)) \/ Runs(Outplex(q)) \/ Runs(ErrRead(q)) \/ CutOff(q)
          PROVE  Units'
      <4>1. CASE Send(q) \/ Flush(q) \/ CutOff(q)
        BY <3>1, <4>1 DEF Send, Flush, CutOff, pcs, pipes, hist
      <4>2. CASE PassPipe(q) \/ PassSocket(q) \/ OutRecv(q) \/ OutPass(q) \/ ErrRead(q)
        BY <4>2, PipeTypes, ReceiveTypes, OutPassTypes, ErrReadTypes DEF Typed
      <4> QED BY <3>4, <4>1, <4>2 DEF Runs, Serve, Outplex
    <3> QED BY <3>2, <3>3, <3>4 DEF Next
  <2> QED BY <2>1, <2>2, <2>3 DEF Typed
<1>3. AllHeld /\ AllPassed /\ Typed => TypeOK
  BY DEF AllHeld, Shape, AllPassed, Streams, Typed, Units, Fits, TypeOK
<1> QED BY <1>1, <1>2, <1>3, AlwaysHeld, AlwaysPassed, PTL DEF Spec
=============================================================================
