---------------------------- MODULE MuthProofs ----------------------------
(***************************************************************************)
(* Proofs about the muths, the event loop, the pipe and htparser, for      *)
(* every set of muths and every value of the other constants:              *)
(*   - the chain of nested resumes of lib/mt.c: one lemma per operator of  *)
(*     Mt says that it keeps it;                                           *)
(*   - the pipe of lib/mtio.c: NoLostWakeup, MemorySafe, and that it       *)
(*     implements ByteStream;                                              *)
(*   - the heap of times: adding and removing an element keep it in order; *)
(*   - lists of blockers, and the event loop of lib/mtio-epoll.c:          *)
(*     ListsAgree, TimeoutsOrdered and WalksSafe;                          *)
(*   - the muths of htparser: the order in which they, main() and the      *)
(*     signals shut the program down.                                      *)
(* ratequeue has no muths, but it has the same heap of times:              *)
(*   - its buckets are those in the heap and in the hash table, and it     *)
(*     implements LeakyBucket;                                             *)
(*   - no source gets more than its rate, and each of its requests is in   *)
(*     one place, behind those that came before.                           *)
(***************************************************************************)
EXTENDS MtPipe, MtioEpoll, HtParser, RateQueue, SequenceTheorems, FiniteSetTheorems,
        WellFoundedInduction, TLAPS

-----------------------------------------------------------------------------
(* The chain of resumes.                                                   *)

\* The muths with a non-NULL `last' form one chain from the running context
\* down to the main context: no two muths were entered from the same context,
\* and the running context entered none that has not yet come back.
Chain == /\ current # NULL => last[current] # NULL
         /\ \A m \in Muth : last[m] # NULL => running[m]
         /\ \A m \in Muth : last[m] \in Muth => last[last[m]] # NULL
         /\ \A m, n \in Muth : last[m] # NULL /\ last[m] = last[n] => m = n
         /\ \A m \in Muth : last[m] # Here

MtInv == MtTypeOK /\ ~aborted /\ Chain

\* Before any mustart() only the main context exists.
LEMMA MtInitInv == MtInit => MtInv
  BY MtAssumption DEF MtInit, MtInv, MtTypeOK, Chain, Here

\* A step without a call into mt.c keeps the chain.
LEMMA GoOnInv == MtInv /\ GoOn => MtInv'
  BY DEF MtInv, MtTypeOK, Chain, Here, GoOn, mtvars

\* yield() of a running muth succeeds and goes back to the context below it.
LEMMA YieldInv ==
  ASSUME MtInv, Yield, current # NULL
  PROVE  /\ MtInv'
         /\ last' = [last EXCEPT ![current] = NULL]
         /\ running' = running
         /\ current' # NULL => current' \in Muth /\ current' = last[current]
  <1>1. last[current] # NULL /\ current \in Muth
    BY DEF MtInv, MtTypeOK, Chain
  <1>2. /\ current' = MuthOf(last[current])
        /\ last' = [last EXCEPT ![current] = NULL]
        /\ aborted' = aborted
        /\ running' = running
    BY <1>1 DEF Yield
  <1>3. last[current] \in Muth \cup {MainCtxt} /\ last[current] # current
    BY <1>1 DEF MtInv, MtTypeOK, Chain, Here
  <1>4. MtTypeOK' /\ ~aborted'
    BY <1>1, <1>2, <1>3, MtAssumption DEF MtInv, MtTypeOK, MuthOf
  <1>5. Here' = last[current]
    BY <1>2, <1>3, MtAssumption DEF Here, MuthOf
  <1>6. \A m \in Muth : last'[m] # NULL => m # current /\ last'[m] = last[m]
    BY <1>2 DEF MtInv, MtTypeOK
  <1>7. \A m \in Muth : m # current => last'[m] = last[m]
    BY <1>2 DEF MtInv, MtTypeOK
  <1>8. Chain'
    <2>1. (current # NULL => last[current] # NULL)'
      BY <1>1, <1>2, <1>3, <1>7, MtAssumption DEF MtInv, Chain, MuthOf
    <2>2. (\A m \in Muth : last[m] # NULL => running[m])'
      BY <1>2, <1>6 DEF MtInv, Chain
    <2>3. (\A m \in Muth : last[m] \in Muth => last[last[m]] # NULL)'
      BY <1>1, <1>6, <1>7, MtAssumption DEF MtInv, Chain, Here
    <2>4. (\A m, n \in Muth : last[m] # NULL /\ last[m] = last[n] => m = n)'
      BY <1>6 DEF MtInv, Chain
    <2>5. (\A m \in Muth : last[m] # Here)'
      BY <1>1, <1>5, <1>6 DEF MtInv, Chain
    <2> QED BY <2>1, <2>2, <2>3, <2>4, <2>5 DEF Chain
  <1> QED BY <1>2, <1>3, <1>4, <1>8, MtAssumption DEF MtInv, MuthOf

\* resume() of a live muth that has yielded succeeds and enters it.
LEMMA ResumeInv ==
  ASSUME MtInv, NEW m \in Muth, Resume(m), last[m] = NULL, running[m]
  PROVE  /\ MtInv'
         /\ last' = [last EXCEPT ![m] = Here]
         /\ current' = m
         /\ running' = running
  <1>1. /\ last' = [last EXCEPT ![m] = Here]
        /\ current' = m
        /\ aborted' = aborted
        /\ running' = running
    BY DEF Resume
  <1>2. Here \in Muth \cup {MainCtxt} /\ Here # NULL /\ Here # m
    BY MtAssumption DEF MtInv, MtTypeOK, Chain, Here
  <1>3. MtTypeOK' /\ ~aborted'
    BY <1>1, <1>2 DEF MtInv, MtTypeOK
  <1>4. Here' = m
    BY <1>1, MtAssumption DEF Here
  <1>5. last'[m] = Here /\ \A n \in Muth : n # m => last'[n] = last[n]
    BY <1>1 DEF MtInv, MtTypeOK
  <1>6. \A n \in Muth : last[n] # m
    BY DEF MtInv, Chain
  <1>7. Here \in Muth => last[Here] # NULL
    BY MtAssumption DEF MtInv, MtTypeOK, Chain, Here
  <1>8. Chain'
    <2>1. (current # NULL => last[current] # NULL)'
      BY <1>1, <1>2, <1>5
    <2>2. (\A n \in Muth : last[n] # NULL => running[n])'
      BY <1>1, <1>5 DEF MtInv, Chain
    <2>3. (\A n \in Muth : last[n] \in Muth => last[last[n]] # NULL)'
      BY <1>2, <1>5, <1>6, <1>7 DEF MtInv, Chain
    <2>4. (\A n, o \in Muth : last[n] # NULL /\ last[n] = last[o] => n = o)'
      BY <1>5 DEF MtInv, Chain
    <2>5. (\A n \in Muth : last[n] # Here)'
      BY <1>2, <1>4, <1>5, <1>6
    <2> QED BY <2>1, <2>2, <2>3, <2>4, <2>5 DEF Chain
  <1> QED BY <1>1, <1>3, <1>8 DEF MtInv

\* mustart() enters the new muth.
LEMMA MuStartInv ==
  ASSUME MtInv, NEW m \in Muth, MuStart(m)
  PROVE  /\ MtInv'
         /\ last[m] = NULL
         /\ last' = [last EXCEPT ![m] = Here]
         /\ current' = m
         /\ running' = [running EXCEPT ![m] = TRUE]
  <1>1. /\ last' = [last EXCEPT ![m] = Here]
        /\ current' = m
        /\ aborted' = aborted
        /\ running' = [running EXCEPT ![m] = TRUE]
        /\ ~running[m]
    BY DEF MuStart
  <1>0. last[m] = NULL
    BY <1>1 DEF MtInv, Chain
  <1>2. Here \in Muth \cup {MainCtxt} /\ Here # NULL /\ Here # m
    BY <1>0, MtAssumption DEF MtInv, MtTypeOK, Chain, Here
  <1>3. MtTypeOK' /\ ~aborted'
    BY <1>1, <1>2 DEF MtInv, MtTypeOK
  <1>4. Here' = m
    BY <1>1, MtAssumption DEF Here
  <1>5. last'[m] = Here /\ \A n \in Muth : n # m => last'[n] = last[n]
    BY <1>1 DEF MtInv, MtTypeOK
  <1>6. \A n \in Muth : last[n] # m
    BY <1>0 DEF MtInv, Chain
  <1>7. Here \in Muth => last[Here] # NULL
    BY MtAssumption DEF MtInv, MtTypeOK, Chain, Here
  <1>8. Chain'
    <2>1. (current # NULL => last[current] # NULL)'
      BY <1>1, <1>2, <1>5
    <2>2. (\A n \in Muth : last[n] # NULL => running[n])'
      BY <1>1, <1>5 DEF MtInv, MtTypeOK, Chain
    <2>3. (\A n \in Muth : last[n] \in Muth => last[last[n]] # NULL)'
      BY <1>2, <1>5, <1>6, <1>7 DEF MtInv, Chain
    <2>4. (\A n, o \in Muth : last[n] # NULL /\ last[n] = last[o] => n = o)'
      BY <1>5 DEF MtInv, Chain
    <2>5. (\A n \in Muth : last[n] # Here)'
      BY <1>2, <1>4, <1>5, <1>6
    <2> QED BY <2>1, <2>2, <2>3, <2>4, <2>5 DEF Chain
  <1> QED BY <1>0, <1>1, <1>3, <1>8 DEF MtInv

\* The end of a muth's entry function goes back to the context below it.
LEMMA ReturnInv ==
  ASSUME MtInv, Return
  PROVE  /\ MtInv'
         /\ last' = [last EXCEPT ![current] = NULL]
         /\ running' = [running EXCEPT ![current] = FALSE]
         /\ current' # NULL => current' \in Muth /\ current' = last[current]
  <1>1. last[current] # NULL /\ current \in Muth
    BY DEF MtInv, MtTypeOK, Chain, Return
  <1>2. /\ current' = MuthOf(last[current])
        /\ last' = [last EXCEPT ![current] = NULL]
        /\ aborted' = aborted
        /\ running' = [running EXCEPT ![current] = FALSE]
    BY <1>1 DEF Return
  <1>3. last[current] \in Muth \cup {MainCtxt} /\ last[current] # current
    BY <1>1, MtAssumption DEF MtInv, MtTypeOK, Chain, Here
  <1>4. MtTypeOK' /\ ~aborted'
    BY <1>1, <1>2, <1>3, MtAssumption DEF MtInv, MtTypeOK, MuthOf
  <1>5. Here' = last[current]
    BY <1>2, <1>3, MtAssumption DEF Here, MuthOf
  <1>6. \A m \in Muth : last'[m] # NULL => m # current /\ last'[m] = last[m]
    BY <1>2 DEF MtInv, MtTypeOK
  <1>7. \A m \in Muth : m # current => last'[m] = last[m] /\ running'[m] = running[m]
    BY <1>2 DEF MtInv, MtTypeOK
  <1>8. Chain'
    <2>1. (current # NULL => last[current] # NULL)'
      BY <1>1, <1>2, <1>3, <1>7, MtAssumption DEF MtInv, Chain, MuthOf
    <2>2. (\A m \in Muth : last[m] # NULL => running[m])'
      BY <1>6, <1>7 DEF MtInv, Chain
    <2>3. (\A m \in Muth : last[m] \in Muth => last[last[m]] # NULL)'
      BY <1>1, <1>6, <1>7, MtAssumption DEF MtInv, Chain, Here
    <2>4. (\A m, n \in Muth : last[m] # NULL /\ last[m] = last[n] => m = n)'
      BY <1>6 DEF MtInv, Chain
    <2>5. (\A m \in Muth : last[m] # Here)'
      BY <1>1, <1>5, <1>6 DEF MtInv, Chain
    <2> QED BY <2>1, <2>2, <2>3, <2>4, <2>5 DEF Chain
  <1> QED BY <1>2, <1>3, <1>4, <1>8, MtAssumption DEF MtInv, MuthOf

-----------------------------------------------------------------------------
(* The pipe and its users.                                                 *)

\* How a muth's place in the code relates to the chain of resumes: a muth in
\* its own code has not yielded, one that waits elsewhere has, and one in the
\* yield() of a pipe call has unless it was resumed just now; only code that
\* is not inside a yield() has resumed anyone.
Users ==
  \A m \in Muth :
    /\ running[m] <=> pc[m] \notin {"unborn", "ended"}
    /\ pc[m] = "own" => last[m] # NULL
    /\ pc[m] = "else" => last[m] = NULL
    /\ pc[m] \in {"rwait", "wwait"} /\ last[m] # NULL => current = m
    /\ last[m] \in Muth => pc[last[m]] = "own"

\* p->r and p->w name exactly the muths inside the yield()s.
Waiters == \A m \in Muth : /\ pc[m] = "rwait" <=> r = m
                           /\ pc[m] = "wwait" <=> w = m

\* How p->closed and the memory of the pipe relate to the two FILEs.
Files == /\ "r" \in closed => "r" \notin ends
         /\ "w" \in closed => "w" \notin ends
         /\ "r" \notin ends => freed \/ "r" \in closed
         /\ "w" \notin ends => freed \/ "w" \in closed
         /\ freed <=> ends = {}
         /\ \A m \in Muth : /\ pc[m] = "rwait" => "r" \in ends
                            /\ pc[m] = "wwait" => "w" \in ends

\* The buffer holds what was sent and not yet received.
Buffer == /\ sent = rcvd \o data
          /\ Len(data) <= BufMax

IInv == TypeOK /\ MtInv /\ Users /\ Waiters /\ Files /\ Buffer /\ NoLostWakeup

\* The state that mtiopipe() makes satisfies the invariant.
LEMMA InitIInv == Init => IInv
  <1> SUFFICES ASSUME Init PROVE IInv
    OBVIOUS
  <1>1. MtInv
    BY MtInitInv DEF Init
  <1>2. \A S : <<>> \in Seq(S)
    BY EmptySeq
  <1>3. TypeOK
    BY <1>1, <1>2 DEF Init, PipeInit, TypeOK, MtInv, Places
  <1>4. Users /\ Waiters /\ Files /\ NoLostWakeup
    BY MtAssumption DEF Init, MtInit, PipeInit, Users, Waiters, Files, NoLostWakeup
  <1>5. Buffer
    <2>1. <<>> \o <<>> = <<>>
      BY ConcatEmptySeq, EmptySeq
    <2> QED BY <2>1, PipeAssumption, EmptySeq DEF Init, PipeInit, Buffer
  <1> QED BY <1>1, <1>3, <1>4, <1>5 DEF IInv

\* ConcatAssociative as a formula, for the bytes of the pipe.
LEMMA Associative ==
  \A s, t, u \in Seq(Byte) : (s \o t) \o u = s \o (t \o u)
  BY ConcatAssociative, SMT

\* What piperead() takes off the front of the buffer.
LEMMA TakeFront ==
  ASSUME NEW len \in ReadLen, data \in Seq(Byte), data # <<>>, rcvd \in Seq(Byte),
         NEW ret, ret = Min(len, Len(data))
  PROVE  /\ SubSeq(data, 1, ret) \in Seq(Byte)
         /\ SubSeq(data, ret + 1, Len(data)) \in Seq(Byte)
         /\ rcvd \o SubSeq(data, 1, ret) \in Seq(Byte)
         /\ Len(SubSeq(data, 1, ret)) >= 1
         /\ Len(SubSeq(data, ret + 1, Len(data))) < Len(data)
         /\ (rcvd \o SubSeq(data, 1, ret)) \o SubSeq(data, ret + 1, Len(data)) = rcvd \o data
  <1>1. Len(data) \in Nat \ {0}
    BY EmptySeq
  <1>2. ret \in 1 .. Len(data)
    BY <1>1, PipeAssumption DEF Min
  <1>3. \A i \in 1 .. Len(data) : data[i] \in Byte
    BY ElementOfSeq
  <1>4. /\ SubSeq(data, 1, ret) \in Seq(Byte)
        /\ Len(SubSeq(data, 1, ret)) = ret
    <2>1. \A i \in 1 .. ret : data[i] \in Byte
      BY <1>1, <1>2, <1>3
    <2> QED BY <2>1, <1>1, <1>2, SubSeqProperties
  <1>5. /\ SubSeq(data, ret + 1, Len(data)) \in Seq(Byte)
        /\ Len(SubSeq(data, ret + 1, Len(data))) = Len(data) - ret
    <2>1. \A i \in ret + 1 .. Len(data) : data[i] \in Byte
      BY <1>1, <1>2, <1>3
    <2>2. ret + 1 \in Int /\ Len(data) \in Int
      BY <1>1, <1>2
    <2>3. /\ SubSeq(data, ret + 1, Len(data)) \in Seq(Byte)
          /\ Len(SubSeq(data, ret + 1, Len(data)))
               = IF ret + 1 <= Len(data) THEN Len(data) - (ret + 1) + 1 ELSE 0
      BY <2>1, <2>2, SubSeqProperties
    <2> QED BY <2>3, <1>1, <1>2
  <1>6. SubSeq(data, 1, ret) \o SubSeq(data, ret + 1, Len(data)) = data
    <2>1. /\ 1 \in 1 .. Len(data) + 1
          /\ ret \in 1 - 1 .. Len(data)
          /\ Len(data) \in ret .. Len(data)
      BY <1>1, <1>2
    <2>2. SubSeq(data, 1, ret) \o SubSeq(data, ret + 1, Len(data)) = SubSeq(data, 1, Len(data))
      BY <2>1, ConcatAdjacentSubSeq
    <2> QED BY <2>2, SubSeqFull
  <1>7. rcvd \o SubSeq(data, 1, ret) \in Seq(Byte)
    BY <1>4, ConcatProperties
  <1>8. (rcvd \o SubSeq(data, 1, ret)) \o SubSeq(data, ret + 1, Len(data))
          = rcvd \o (SubSeq(data, 1, ret) \o SubSeq(data, ret + 1, Len(data)))
    <2> DEFINE front == SubSeq(data, 1, ret)
               back  == SubSeq(data, ret + 1, Len(data))
    <2>2. front \in Seq(Byte) /\ back \in Seq(Byte)
      BY <1>4, <1>5
    <2> HIDE DEF front, back
    <2>3. (rcvd \o front) \o back = rcvd \o (front \o back)
      BY <2>2, Associative, Zenon
    <2> QED BY <2>3, Zenon DEF front, back
  <1>9. /\ Len(SubSeq(data, 1, ret)) >= 1
        /\ Len(SubSeq(data, ret + 1, Len(data))) < Len(data)
    BY <1>1, <1>2, <1>4, <1>5
  <1> QED BY <1>4, <1>5, <1>6, <1>7, <1>8, <1>9

\* What pipewrite() puts at the end of the buffer.
LEMMA PutBack ==
  ASSUME NEW buf \in Chunk, data \in Seq(Byte), Len(data) < BufMax,
         rcvd \in Seq(Byte), sent = rcvd \o data,
         NEW ret, ret = Min(Len(buf), BufMax - Len(data))
  PROVE  /\ SubSeq(buf, 1, ret) \in Seq(Byte)
         /\ Len(SubSeq(buf, 1, ret)) >= 1
         /\ data \o SubSeq(buf, 1, ret) \in Seq(Byte)
         /\ sent \o SubSeq(buf, 1, ret) \in Seq(Byte)
         /\ Len(data \o SubSeq(buf, 1, ret)) <= BufMax
         /\ sent \o SubSeq(buf, 1, ret) = rcvd \o (data \o SubSeq(buf, 1, ret))
  <1>1. buf \in Seq(Byte) /\ Len(buf) \in Nat \ {0} /\ Len(data) \in Nat /\ BufMax \in Nat
    BY PipeAssumption, EmptySeq, LenProperties
  <1>2. ret \in 1 .. Len(buf) /\ ret <= BufMax - Len(data)
    BY <1>1 DEF Min
  <1>3. /\ SubSeq(buf, 1, ret) \in Seq(Byte)
        /\ Len(SubSeq(buf, 1, ret)) = ret
    <2>1. \A i \in 1 .. ret : buf[i] \in Byte
      BY <1>1, <1>2, ElementOfSeq
    <2> QED BY <2>1, <1>1, <1>2, SubSeqProperties
  <1>4. /\ data \o SubSeq(buf, 1, ret) \in Seq(Byte)
        /\ Len(data \o SubSeq(buf, 1, ret)) = Len(data) + ret
    BY <1>3, ConcatProperties
  <1>5. sent \in Seq(Byte)
    BY ConcatProperties
  <1>6. sent \o SubSeq(buf, 1, ret) \in Seq(Byte)
    BY <1>3, <1>5, ConcatProperties
  <1>7. (rcvd \o data) \o SubSeq(buf, 1, ret) = rcvd \o (data \o SubSeq(buf, 1, ret))
    <2> DEFINE front == SubSeq(buf, 1, ret)
    <2>2. front \in Seq(Byte)
      BY <1>3
    <2> HIDE DEF front
    <2>3. (rcvd \o data) \o front = rcvd \o (data \o front)
      BY <2>2, Associative, Zenon
    <2> QED BY <2>3, Zenon DEF front
  <1>8. Len(SubSeq(buf, 1, ret)) >= 1 /\ Len(data \o SubSeq(buf, 1, ret)) <= BufMax
    BY <1>1, <1>2, <1>3, <1>4
  <1> QED BY <1>3, <1>4, <1>6, <1>7, <1>8

-----------------------------------------------------------------------------
(* The four pipe functions keep the invariant.                             *)

\* A muth that calls a pipe function, or that returns from the yield() of one.
At(m, where) == current = m /\ last[m] # NULL /\ pc[m] \in {"own", where}

\* Once p->r is rr, it names no muth but the ones asleep in piperead().
LEMMA ReadStepInv ==
  ASSUME IInv, NEW m \in Readers, At(m, "rwait"), "r" \in ends,
         NEW len \in ReadLen, NEW rr \in Readers \cup {NULL}, rr # m,
         \A n \in Muth \ {m} : pc[n] = "rwait" <=> rr = n,
         ReadStep(m, len, rr)
  PROVE  IInv'
  <1> USE DEF At
  <1>0. m \in Muth /\ m # NULL /\ ~freed
    BY PipeAssumption, MtAssumption DEF IInv, Files
  <1>1. CASE /\ data = <<>>
             /\ \/ "w" \in closed
                \/ "w" \notin closed /\ rr # NULL
             /\ r' = rr
             /\ eof' \in BOOLEAN
             /\ Ends(m)
             /\ GoOn
             /\ UNCHANGED <<data, closed, w, freed, ends, sent, rcvd, epipe>>
    <2>1. MtInv'
      BY <1>1, GoOnInv DEF IInv
    <2>2. UNCHANGED mtvars /\ pc' = [pc EXCEPT ![m] = "own"]
      BY <1>1 DEF GoOn, Ends
    <2>3. TypeOK'
      BY <1>0, <1>1, <2>1, PipeAssumption DEF IInv, TypeOK, MtInv, Ends, Places
    <2>4. Users'
      BY <1>0, <2>2 DEF IInv, TypeOK, Users, Places, mtvars
    <2>5. Waiters'
      BY <1>0, <1>1, <2>2 DEF IInv, TypeOK, Waiters, Places
    <2>6. Files'
      BY <1>0, <1>1, <2>2 DEF IInv, TypeOK, Files, Places
    <2>7. Buffer'
      BY <1>1 DEF IInv, Buffer
    <2>8. NoLostWakeup'
      BY <1>0, <1>1, <2>2, <2>5 DEF IInv, TypeOK, NoLostWakeup, Asleep, Waiters, Places, mtvars
    <2> QED BY <2>1, <2>3, <2>4, <2>5, <2>6, <2>7, <2>8 DEF IInv
  <1>2. CASE /\ data = <<>>
             /\ "w" \notin closed
             /\ rr = NULL
             /\ r' = m
             /\ pc' = [pc EXCEPT ![m] = "rwait"]
             /\ rlen' = [rlen EXCEPT ![m] = len]
             /\ Yield
             /\ UNCHANGED <<wbuf, data, closed, w, freed, ends, hvars>>
    <2>1. /\ MtInv'
          /\ last' = [last EXCEPT ![m] = NULL]
          /\ running' = running
          /\ current' # NULL => current' \in Muth /\ current' = last[m]
      BY <1>0, <1>2, YieldInv DEF IInv
    <2>2. TypeOK'
      BY <1>0, <1>2, <2>1, PipeAssumption DEF IInv, TypeOK, MtInv, Places, hvars
    <2>3. Users'
      BY <1>0, <1>2, <2>1, MtAssumption DEF IInv, TypeOK, MtInv, MtTypeOK, Chain, Here, Users, Places
    <2>4. Waiters'
      BY <1>0, <1>2, MtAssumption DEF IInv, TypeOK, Waiters, Places
    <2>5. Files'
      BY <1>0, <1>2 DEF IInv, TypeOK, Files, Places
    <2>6. Buffer'
      BY <1>2 DEF IInv, Buffer, hvars
    <2>7. NoLostWakeup'
      BY <1>0, <1>2, <2>1, <2>4 DEF IInv, TypeOK, MtInv, MtTypeOK, NoLostWakeup, Asleep, Waiters, Places
    <2> QED BY <2>1, <2>2, <2>3, <2>4, <2>5, <2>6, <2>7 DEF IInv
  <1>3. CASE /\ data # <<>>
             /\ LET ret == Min(len, Len(data)) IN
                  /\ rcvd' = rcvd \o SubSeq(data, 1, ret)
                  /\ data' = SubSeq(data, ret + 1, Len(data))
             /\ r' = rr
             /\ Ends(m)
             /\ WakeWriter
             /\ UNCHANGED <<closed, w, freed, ends, sent, eof, epipe>>
    <2>1. /\ data' \in Seq(Byte) /\ rcvd' \in Seq(Byte)
          /\ Len(data') < Len(data)
          /\ rcvd' \o data' = rcvd \o data
      BY <1>3, TakeFront DEF IInv, TypeOK
    <2>2. Len(data) \in Nat /\ Len(data') \in Nat
      BY <2>1, LenProperties DEF IInv, TypeOK
    <2>3. Buffer'
      <3>1. sent' = rcvd' \o data'
        BY <1>3, <2>1, Zenon DEF IInv, Buffer
      <3>2. Len(data') <= BufMax
        BY <2>1, <2>2, PipeAssumption DEF IInv, Buffer
      <3> QED BY <3>1, <3>2 DEF Buffer
    <2>4. pc' = [pc EXCEPT ![m] = "own"]
      BY <1>3 DEF Ends
    <2>5. Waiters'
      BY <1>0, <1>3, <2>4 DEF IInv, TypeOK, Waiters, Places
    <2>6. Files'
      BY <1>0, <1>3, <2>4 DEF IInv, TypeOK, Files, Places
    <2>7. CASE w = NULL
      <3>1. GoOn
        BY <1>3, <2>7 DEF WakeWriter
      <3>2. MtInv' /\ UNCHANGED mtvars
        BY <3>1, GoOnInv DEF IInv, GoOn
      <3>3. TypeOK'
        BY <1>0, <1>3, <2>1, <3>2 DEF IInv, TypeOK, MtInv, Ends, Places
      <3>4. Users'
        BY <1>0, <2>4, <3>2 DEF IInv, TypeOK, Users, Places, mtvars
      <3>5. NoLostWakeup'
        BY <1>0, <1>3, <2>4, <2>7, <3>2, MtAssumption
           DEF IInv, TypeOK, NoLostWakeup, Asleep, Waiters, Places, mtvars
      <3> QED BY <2>3, <2>5, <2>6, <3>2, <3>3, <3>4, <3>5 DEF IInv
    <2>8. CASE w # NULL
      <3>1. w \in Muth /\ pc[w] = "wwait" /\ w # m
        BY <1>0, <2>8, PipeAssumption DEF IInv, TypeOK, Waiters
      <3>2. last[w] = NULL /\ running[w]
        BY <3>1 DEF IInv, Users
      <3>3. Resume(w)
        BY <1>3, <2>8 DEF WakeWriter
      <3>4. /\ MtInv'
            /\ last' = [last EXCEPT ![w] = Here]
            /\ current' = w
            /\ running' = running
        BY <3>1, <3>2, <3>3, ResumeInv DEF IInv
      <3>5. Here = m
        BY <1>0 DEF Here
      <3>6. TypeOK'
        BY <1>0, <1>3, <2>1, <3>4 DEF IInv, TypeOK, MtInv, Ends, Places
      <3>7. Users'
        BY <1>0, <2>4, <3>1, <3>4, <3>5 DEF IInv, TypeOK, MtInv, MtTypeOK, Users, Places
      <3>8. NoLostWakeup'
        BY <1>0, <1>3, <2>4, <3>1, <3>4, <3>5
           DEF IInv, TypeOK, MtInv, MtTypeOK, NoLostWakeup, Asleep, Waiters, Places
      <3> QED BY <2>3, <2>5, <2>6, <3>4, <3>6, <3>7, <3>8 DEF IInv
    <2> QED BY <2>7, <2>8
  <1> QED BY <1>1, <1>2, <1>3 DEF ReadStep, IInv, TypeOK, hvars

\* pipewrite() returning EPIPE once p->w is ww.
LEMMA WriteEpipeInv ==
  ASSUME IInv, NEW m \in Writers, At(m, "wwait"), "w" \in ends,
         NEW ww \in Writers \cup {NULL}, ww # m,
         \A n \in Muth \ {m} : pc[n] = "wwait" <=> ww = n,
         WriteEpipe(m, ww)
  PROVE  IInv'
  <1> USE DEF At
  <1>0. m \in Muth /\ m # NULL
    BY PipeAssumption, MtAssumption
  <1>1. MtInv' /\ UNCHANGED mtvars
    BY GoOnInv DEF IInv, WriteEpipe, GoOn
  <1>2. pc' = [pc EXCEPT ![m] = "own"]
    BY DEF WriteEpipe, Ends
  <1>3. TypeOK'
    BY <1>0, <1>1 DEF WriteEpipe, IInv, TypeOK, MtInv, Ends, Places
  <1>4. Users'
    BY <1>0, <1>1, <1>2 DEF IInv, TypeOK, Users, Places, mtvars
  <1>5. Waiters'
    BY <1>0, <1>2 DEF WriteEpipe, IInv, TypeOK, Waiters, Places
  <1>6. Files'
    BY <1>0, <1>2 DEF WriteEpipe, IInv, TypeOK, Files, Places
  <1>7. Buffer'
    BY DEF WriteEpipe, IInv, Buffer
  <1>8. NoLostWakeup'
    BY <1>0, <1>1, <1>2, <1>5
       DEF WriteEpipe, IInv, TypeOK, NoLostWakeup, Asleep, Waiters, Places, mtvars
  <1> QED BY <1>1, <1>3, <1>4, <1>5, <1>6, <1>7, <1>8 DEF IInv

\* Once p->w is ww, it names no muth but the ones asleep in pipewrite().
LEMMA WriteStepInv ==
  ASSUME IInv, NEW m \in Writers, At(m, "wwait"), "w" \in ends, "r" \notin closed,
         NEW buf \in Chunk, NEW ww \in Writers \cup {NULL}, ww # m,
         \A n \in Muth \ {m} : pc[n] = "wwait" <=> ww = n,
         WriteStep(m, buf, ww)
  PROVE  IInv'
  <1> USE DEF At
  <1>0. m \in Muth /\ m # NULL /\ ~freed
    BY PipeAssumption, MtAssumption DEF IInv, Files
  <1>1. CASE /\ Len(data) >= BufMax
             /\ ww # NULL
             /\ w' = ww
             /\ Ends(m)
             /\ GoOn
             /\ UNCHANGED <<data, closed, r, freed, ends, hvars>>
    <2>1. MtInv' /\ UNCHANGED mtvars
      BY <1>1, GoOnInv DEF IInv, GoOn
    <2>2. pc' = [pc EXCEPT ![m] = "own"]
      BY <1>1 DEF Ends
    <2>3. TypeOK'
      BY <1>0, <1>1, <2>1 DEF IInv, TypeOK, MtInv, Ends, Places, hvars
    <2>4. Users'
      BY <1>0, <2>1, <2>2 DEF IInv, TypeOK, Users, Places, mtvars
    <2>5. Waiters'
      BY <1>0, <1>1, <2>2 DEF IInv, TypeOK, Waiters, Places
    <2>6. Files'
      BY <1>0, <1>1, <2>2 DEF IInv, TypeOK, Files, Places
    <2>7. Buffer'
      BY <1>1 DEF IInv, Buffer, hvars
    <2>8. NoLostWakeup'
      BY <1>0, <1>1, <2>1, <2>2, <2>5 DEF IInv, TypeOK, NoLostWakeup, Asleep, Waiters, Places, mtvars
    <2> QED BY <2>1, <2>3, <2>4, <2>5, <2>6, <2>7, <2>8 DEF IInv
  <1>2. CASE /\ Len(data) >= BufMax
             /\ ww = NULL
             /\ w' = m
             /\ pc' = [pc EXCEPT ![m] = "wwait"]
             /\ wbuf' = [wbuf EXCEPT ![m] = buf]
             /\ Yield
             /\ UNCHANGED <<rlen, data, closed, r, freed, ends, hvars>>
    <2>1. /\ MtInv'
          /\ last' = [last EXCEPT ![m] = NULL]
          /\ running' = running
          /\ current' # NULL => current' \in Muth /\ current' = last[m]
      BY <1>0, <1>2, YieldInv DEF IInv
    <2>2. TypeOK'
      BY <1>0, <1>2, <2>1 DEF IInv, TypeOK, MtInv, Places, hvars
    <2>3. Users'
      BY <1>0, <1>2, <2>1, MtAssumption DEF IInv, TypeOK, MtInv, MtTypeOK, Chain, Here, Users, Places
    <2>4. Waiters'
      BY <1>0, <1>2, MtAssumption DEF IInv, TypeOK, Waiters, Places
    <2>5. Files'
      BY <1>0, <1>2 DEF IInv, TypeOK, Files, Places
    <2>6. Buffer'
      BY <1>2 DEF IInv, Buffer, hvars
    <2>7. NoLostWakeup'
      BY <1>0, <1>2, <2>1, <2>4 DEF IInv, TypeOK, MtInv, MtTypeOK, NoLostWakeup, Asleep, Waiters, Places
    <2> QED BY <2>1, <2>2, <2>3, <2>4, <2>5, <2>6, <2>7 DEF IInv
  <1>3. CASE /\ Len(data) < BufMax
             /\ LET ret == Min(Len(buf), BufMax - Len(data)) IN
                  /\ data' = data \o SubSeq(buf, 1, ret)
                  /\ sent' = sent \o SubSeq(buf, 1, ret)
             /\ w' = ww
             /\ Ends(m)
             /\ WakeReader
             /\ UNCHANGED <<closed, r, freed, ends, rcvd, eof, epipe>>
    <2>1. /\ data' \in Seq(Byte) /\ sent' \in Seq(Byte)
          /\ Len(data') <= BufMax
          /\ sent' = rcvd \o data'
      BY <1>3, PutBack DEF IInv, TypeOK, Buffer
    <2>2. Buffer'
      BY <1>3, <2>1, Zenon DEF Buffer
    <2>3. Len(data) \in Nat /\ BufMax \in Nat
      BY LenProperties, PipeAssumption DEF IInv, TypeOK
    <2>4. pc' = [pc EXCEPT ![m] = "own"]
      BY <1>3 DEF Ends
    <2>5. Waiters'
      BY <1>0, <1>3, <2>4 DEF IInv, TypeOK, Waiters, Places
    <2>6. Files'
      BY <1>0, <1>3, <2>4 DEF IInv, TypeOK, Files, Places
    <2>w. \A n \in Muth : pc[n] = "wwait" => last[n] # NULL
      BY <1>3, <2>3 DEF IInv, NoLostWakeup, Asleep
    <2>7. CASE r = NULL
      <3>1. GoOn
        BY <1>3, <2>7 DEF WakeReader
      <3>2. MtInv' /\ UNCHANGED mtvars
        BY <3>1, GoOnInv DEF IInv, GoOn
      <3>3. TypeOK'
        BY <1>0, <1>3, <2>1, <3>2 DEF IInv, TypeOK, MtInv, Ends, Places
      <3>4. Users'
        BY <1>0, <2>4, <3>2 DEF IInv, TypeOK, Users, Places, mtvars
      <3>5. NoLostWakeup'
        BY <1>0, <1>3, <2>4, <2>w, <2>7, <3>2, MtAssumption
           DEF IInv, TypeOK, NoLostWakeup, Asleep, Waiters, Places, mtvars
      <3> QED BY <2>2, <2>5, <2>6, <3>2, <3>3, <3>4, <3>5 DEF IInv
    <2>8. CASE r # NULL
      <3>1. r \in Muth /\ pc[r] = "rwait" /\ r # m
        BY <1>0, <2>8, PipeAssumption DEF IInv, TypeOK, Waiters
      <3>2. last[r] = NULL /\ running[r]
        BY <3>1 DEF IInv, Users
      <3>3. Resume(r)
        BY <1>3, <2>8 DEF WakeReader
      <3>4. /\ MtInv'
            /\ last' = [last EXCEPT ![r] = Here]
            /\ current' = r
            /\ running' = running
        BY <3>1, <3>2, <3>3, ResumeInv DEF IInv
      <3>5. Here = m
        BY <1>0 DEF Here
      <3>6. TypeOK'
        BY <1>0, <1>3, <2>1, <3>4 DEF IInv, TypeOK, MtInv, Ends, Places
      <3>7. Users'
        BY <1>0, <2>4, <3>1, <3>4, <3>5 DEF IInv, TypeOK, MtInv, MtTypeOK, Users, Places
      <3>8. NoLostWakeup'
        BY <1>0, <1>3, <2>4, <2>w, <3>1, <3>4, <3>5
           DEF IInv, TypeOK, MtInv, MtTypeOK, NoLostWakeup, Asleep, Waiters, Places
      <3> QED BY <2>2, <2>5, <2>6, <3>4, <3>6, <3>7, <3>8 DEF IInv
    <2> QED BY <2>7, <2>8
  <1> QED BY <1>1, <1>2, <1>3 DEF WriteStep

\* piperclose() keeps the invariant.
LEMMA RCloseInv ==
  ASSUME IInv, NEW m \in Muth, RClose(m)
  PROVE  IInv'
  <1>0. current = m /\ pc[m] = "own" /\ last[m] # NULL /\ m # NULL
    BY MtAssumption DEF RClose, InOwnCode, IInv, Users
  <1>1. CASE "w" \in closed
    <2>1. freed' = TRUE /\ GoOn /\ closed' = closed
      BY <1>1 DEF RClose
    <2>2. MtInv' /\ UNCHANGED mtvars
      BY <2>1, GoOnInv DEF IInv, GoOn
    <2>3. TypeOK' /\ Users' /\ Waiters' /\ Buffer'
      BY <2>1, <2>2 DEF RClose, IInv, TypeOK, MtInv, Users, Waiters, Buffer, mtvars, uvars, hvars
    <2>4. Files'
      BY <1>1, <2>1 DEF RClose, IInv, TypeOK, Files, uvars
    <2>5. NoLostWakeup'
      BY <2>1, <2>2 DEF RClose, IInv, NoLostWakeup, Asleep, mtvars, uvars
    <2> QED BY <2>2, <2>3, <2>4, <2>5 DEF IInv
  <1>2. CASE "w" \notin closed
    <2>1. closed' = closed \cup {"r"} /\ WakeWriter /\ freed' = freed
      BY <1>2 DEF RClose
    <2>2. Files'
      BY <1>2, <2>1 DEF RClose, IInv, TypeOK, Files, uvars
    <2>3. Waiters' /\ Buffer'
      BY DEF RClose, IInv, Waiters, Buffer, uvars, hvars
    <2>4. CASE w = NULL
      <3>1. GoOn
        BY <2>1, <2>4 DEF WakeWriter
      <3>2. MtInv' /\ UNCHANGED mtvars
        BY <3>1, GoOnInv DEF IInv, GoOn
      <3>3. TypeOK' /\ Users'
        BY <2>1, <3>2 DEF RClose, IInv, TypeOK, MtInv, Users, mtvars, uvars, hvars
      <3>4. \A n \in Muth : pc[n] # "wwait"
        BY <2>4, MtAssumption DEF IInv, Waiters
      <3>5. last' = last /\ pc' = pc /\ data' = data /\ r' = r /\ w' = w
        BY <3>2 DEF RClose, mtvars, uvars
      <3>6. NoLostWakeup'
        BY <2>1, <3>4, <3>5 DEF IInv, NoLostWakeup, Asleep
      <3> QED BY <2>2, <2>3, <3>2, <3>3, <3>6 DEF IInv
    <2>5. CASE w # NULL
      <3>1. w \in Muth /\ pc[w] = "wwait" /\ w # m
        BY <1>0, <2>5, PipeAssumption DEF IInv, TypeOK, Waiters
      <3>2. last[w] = NULL /\ running[w]
        BY <1>0, <3>1 DEF IInv, Users
      <3>3. Resume(w)
        BY <2>1, <2>5 DEF WakeWriter
      <3>4. /\ MtInv'
            /\ last' = [last EXCEPT ![w] = Here]
            /\ current' = w
            /\ running' = running
        BY <3>1, <3>2, <3>3, ResumeInv DEF IInv
      <3>5. Here = m
        BY <1>0 DEF Here
      <3>6. TypeOK'
        BY <2>1, <3>4 DEF RClose, IInv, TypeOK, MtInv, uvars, hvars
      <3>7. Users'
        BY <1>0, <3>1, <3>4, <3>5 DEF RClose, IInv, TypeOK, MtInv, MtTypeOK, Users, Places, uvars
      <3>8. NoLostWakeup'
        BY <1>0, <2>1, <3>1, <3>4, <3>5
           DEF RClose, IInv, TypeOK, MtInv, MtTypeOK, NoLostWakeup, Asleep, Waiters, uvars
      <3> QED BY <2>2, <2>3, <3>4, <3>6, <3>7, <3>8 DEF IInv
    <2> QED BY <2>4, <2>5
  <1> QED BY <1>1, <1>2

\* pipewclose() keeps the invariant.
LEMMA WCloseInv ==
  ASSUME IInv, NEW m \in Muth, WClose(m)
  PROVE  IInv'
  <1>0. current = m /\ pc[m] = "own" /\ last[m] # NULL /\ m # NULL
    BY MtAssumption DEF WClose, InOwnCode, IInv, Users
  <1>1. CASE "r" \in closed
    <2>1. freed' = TRUE /\ GoOn /\ closed' = closed
      BY <1>1 DEF WClose
    <2>2. MtInv' /\ UNCHANGED mtvars
      BY <2>1, GoOnInv DEF IInv, GoOn
    <2>3. TypeOK' /\ Users' /\ Waiters' /\ Buffer'
      BY <2>1, <2>2 DEF WClose, IInv, TypeOK, MtInv, Users, Waiters, Buffer, mtvars, uvars, hvars
    <2>4. Files'
      BY <1>1, <2>1 DEF WClose, IInv, TypeOK, Files, uvars
    <2>5. NoLostWakeup'
      BY <2>1, <2>2 DEF WClose, IInv, NoLostWakeup, Asleep, mtvars, uvars
    <2> QED BY <2>2, <2>3, <2>4, <2>5 DEF IInv
  <1>2. CASE "r" \notin closed
    <2>1. closed' = closed \cup {"w"} /\ WakeReader /\ freed' = freed
      BY <1>2 DEF WClose
    <2>2. Files'
      BY <1>2, <2>1 DEF WClose, IInv, TypeOK, Files, uvars
    <2>3. Waiters' /\ Buffer'
      BY DEF WClose, IInv, Waiters, Buffer, uvars, hvars
    <2>4. CASE r = NULL
      <3>1. GoOn
        BY <2>1, <2>4 DEF WakeReader
      <3>2. MtInv' /\ UNCHANGED mtvars
        BY <3>1, GoOnInv DEF IInv, GoOn
      <3>3. TypeOK' /\ Users'
        BY <2>1, <3>2 DEF WClose, IInv, TypeOK, MtInv, Users, mtvars, uvars, hvars
      <3>4. \A n \in Muth : pc[n] # "rwait"
        BY <2>4, MtAssumption DEF IInv, Waiters
      <3>5. last' = last /\ pc' = pc /\ data' = data /\ r' = r /\ w' = w
        BY <3>2 DEF WClose, mtvars, uvars
      <3>6. NoLostWakeup'
        BY <2>1, <3>4, <3>5 DEF IInv, NoLostWakeup, Asleep
      <3> QED BY <2>2, <2>3, <3>2, <3>3, <3>6 DEF IInv
    <2>5. CASE r # NULL
      <3>1. r \in Muth /\ pc[r] = "rwait" /\ r # m
        BY <1>0, <2>5, PipeAssumption DEF IInv, TypeOK, Waiters
      <3>2. last[r] = NULL /\ running[r]
        BY <1>0, <3>1 DEF IInv, Users
      <3>3. Resume(r)
        BY <2>1, <2>5 DEF WakeReader
      <3>4. /\ MtInv'
            /\ last' = [last EXCEPT ![r] = Here]
            /\ current' = r
            /\ running' = running
        BY <3>1, <3>2, <3>3, ResumeInv DEF IInv
      <3>5. Here = m
        BY <1>0 DEF Here
      <3>6. TypeOK'
        BY <2>1, <3>4 DEF WClose, IInv, TypeOK, MtInv, uvars, hvars
      <3>7. Users'
        BY <1>0, <3>1, <3>4, <3>5 DEF WClose, IInv, TypeOK, MtInv, MtTypeOK, Users, Places, uvars
      <3>8. NoLostWakeup'
        BY <1>0, <2>1, <3>1, <3>4, <3>5
           DEF WClose, IInv, TypeOK, MtInv, MtTypeOK, NoLostWakeup, Asleep, Waiters, uvars
      <3> QED BY <2>2, <2>3, <3>4, <3>6, <3>7, <3>8 DEF IInv
    <2> QED BY <2>4, <2>5
  <1> QED BY <1>1, <1>2

-----------------------------------------------------------------------------
(* The users' own steps keep the invariant.                                *)

\* A user of the pipe that calls mustart() keeps the invariant.
LEMMA StartInv ==
  ASSUME IInv, NEW m \in Muth, Start(m)
  PROVE  IInv'
  <1>1. /\ MtInv'
        /\ last[m] = NULL
        /\ last' = [last EXCEPT ![m] = Here]
        /\ current' = m
        /\ running' = [running EXCEPT ![m] = TRUE]
    BY MuStartInv DEF IInv, Start
  <1>2. /\ pc[m] = "unborn" /\ pc' = [pc EXCEPT ![m] = "own"]
        /\ UNCHANGED <<pvars, rlen, wbuf, hvars>>
        /\ current # NULL => pc[current] = "own"
    BY DEF Start, AtUserCode
  <1>3. Here \in Muth \cup {MainCtxt} /\ Here # NULL /\ (Here \in Muth => Here = current /\ current # NULL)
    BY MtAssumption DEF IInv, MtInv, MtTypeOK, Here
  <1>4. TypeOK'
    BY <1>1, <1>2 DEF IInv, TypeOK, MtInv, Places, pvars, hvars
  <1>5. Users'
    BY <1>1, <1>2, <1>3 DEF IInv, TypeOK, MtInv, MtTypeOK, Users, Places
  <1>6. Waiters' /\ Files' /\ Buffer'
    BY <1>2 DEF IInv, TypeOK, Waiters, Files, Buffer, Places, pvars, hvars
  <1>7. NoLostWakeup'
    BY <1>1, <1>2, <1>3
       DEF IInv, TypeOK, MtInv, MtTypeOK, NoLostWakeup, Asleep, Places, pvars
  <1> QED BY <1>1, <1>4, <1>5, <1>6, <1>7 DEF IInv

\* Whoever resumes a muth that waits elsewhere keeps the invariant.
LEMMA ResumeElseInv ==
  ASSUME IInv, NEW m \in Muth, ResumeElse(m)
  PROVE  IInv'
  <1>1. /\ pc[m] = "else" /\ pc' = [pc EXCEPT ![m] = "own"]
        /\ UNCHANGED <<pvars, rlen, wbuf, hvars>>
        /\ current # NULL => pc[current] = "own"
        /\ Resume(m)
    BY DEF ResumeElse, AtUserCode
  <1>2. /\ last[m] = NULL
        /\ running[m]
    BY <1>1 DEF IInv, Users
  <1>3. /\ MtInv'
        /\ last' = [last EXCEPT ![m] = Here]
        /\ current' = m
        /\ running' = running
    BY <1>1, <1>2, ResumeInv DEF IInv
  <1>4. Here \in Muth \cup {MainCtxt} /\ Here # NULL /\ (Here \in Muth => Here = current /\ current # NULL)
    BY MtAssumption DEF IInv, MtInv, MtTypeOK, Here
  <1>5. TypeOK'
    BY <1>1, <1>3 DEF IInv, TypeOK, MtInv, Places, pvars, hvars
  <1>6. Users'
    BY <1>1, <1>2, <1>3, <1>4 DEF IInv, TypeOK, MtInv, MtTypeOK, Users, Places
  <1>7. Waiters' /\ Files' /\ Buffer'
    BY <1>1 DEF IInv, TypeOK, Waiters, Files, Buffer, Places, pvars, hvars
  <1>8. NoLostWakeup'
    BY <1>1, <1>3, <1>4
       DEF IInv, TypeOK, MtInv, MtTypeOK, NoLostWakeup, Asleep, Places, pvars
  <1> QED BY <1>3, <1>5, <1>6, <1>7, <1>8 DEF IInv

\* A user of the pipe that waits for something else keeps the invariant.
LEMMA WaitElsewhereInv ==
  ASSUME IInv, NEW m \in Muth, WaitElsewhere(m)
  PROVE  IInv'
  <1>1. /\ current = m /\ m # NULL /\ pc[m] = "own"
        /\ pc' = [pc EXCEPT ![m] = "else"]
        /\ Yield
        /\ UNCHANGED <<pvars, rlen, wbuf, hvars>>
    BY MtAssumption DEF WaitElsewhere, InOwnCode
  <1>2. /\ MtInv'
        /\ last' = [last EXCEPT ![m] = NULL]
        /\ running' = running
        /\ current' # NULL => current' \in Muth /\ current' = last[m]
    BY <1>1, YieldInv DEF IInv
  <1>3. TypeOK'
    BY <1>1, <1>2 DEF IInv, TypeOK, MtInv, Places, pvars, hvars
  <1>4. Users'
    BY <1>1, <1>2, MtAssumption DEF IInv, TypeOK, MtInv, MtTypeOK, Chain, Here, Users, Places
  <1>5. Waiters' /\ Files' /\ Buffer'
    BY <1>1 DEF IInv, TypeOK, Waiters, Files, Buffer, Places, pvars, hvars
  <1>6. NoLostWakeup'
    BY <1>1, <1>2 DEF IInv, TypeOK, MtInv, MtTypeOK, NoLostWakeup, Asleep, Places, pvars
  <1> QED BY <1>2, <1>3, <1>4, <1>5, <1>6 DEF IInv

\* A user of the pipe whose entry function returns keeps the invariant.
LEMMA EndInv ==
  ASSUME IInv, NEW m \in Muth, End(m)
  PROVE  IInv'
  <1>1. /\ current = m /\ m # NULL /\ pc[m] = "own"
        /\ pc' = [pc EXCEPT ![m] = "ended"]
        /\ Return
        /\ UNCHANGED <<pvars, rlen, wbuf, hvars>>
    BY MtAssumption DEF End, InOwnCode
  <1>2. /\ MtInv'
        /\ last' = [last EXCEPT ![m] = NULL]
        /\ running' = [running EXCEPT ![m] = FALSE]
        /\ current' # NULL => current' \in Muth /\ current' = last[m]
    BY <1>1, ReturnInv DEF IInv
  <1>3. TypeOK'
    BY <1>1, <1>2 DEF IInv, TypeOK, MtInv, Places, pvars, hvars
  <1>4. Users'
    BY <1>1, <1>2, MtAssumption DEF IInv, TypeOK, MtInv, MtTypeOK, Chain, Here, Users, Places
  <1>5. Waiters' /\ Files' /\ Buffer'
    BY <1>1 DEF IInv, TypeOK, Waiters, Files, Buffer, Places, pvars, hvars
  <1>6. NoLostWakeup'
    BY <1>1, <1>2 DEF IInv, TypeOK, MtInv, MtTypeOK, NoLostWakeup, Asleep, Places, pvars
  <1> QED BY <1>2, <1>3, <1>4, <1>5, <1>6 DEF IInv

-----------------------------------------------------------------------------
(* The invariant of the specification.                                     *)

\* Who may call ReadStep and WriteStep, and with which p->r and p->w.
LEMMA Callers ==
  ASSUME IInv, NEW m \in Muth, current = m
  PROVE  /\ pc[m] = "own" => /\ last[m] # NULL
                             /\ r # m /\ w # m
                             /\ \A n \in Muth \ {m} : /\ pc[n] = "rwait" <=> r = n
                                                      /\ pc[n] = "wwait" <=> w = n
         /\ pc[m] = "rwait" => /\ last[m] # NULL
                               /\ m \in Readers /\ rlen[m] \in ReadLen /\ "r" \in ends
                               /\ \A n \in Muth \ {m} : pc[n] = "rwait" <=> NULL = n
         /\ pc[m] = "wwait" => /\ last[m] # NULL
                               /\ m \in Writers /\ wbuf[m] \in Chunk /\ "w" \in ends
                               /\ \A n \in Muth \ {m} : pc[n] = "wwait" <=> NULL = n
  <1>1. last[m] # NULL
    BY MtAssumption DEF IInv, MtInv, Chain
  <1>2. \A n \in Muth : n # NULL
    BY MtAssumption
  <1> QED BY <1>1, <1>2 DEF IInv, TypeOK, Waiters, Files

\* Every step of the pipe and of its users keeps the invariant.
LEMMA NextIInv == IInv /\ [Next]_vars => IInv'
  <1> SUFFICES ASSUME IInv, [Next]_vars PROVE IInv'
    OBVIOUS
  <1>0. NULL \notin Muth
    BY MtAssumption
  <1>1. ASSUME NEW m \in Muth, Read(m) PROVE IInv'
    <2>1. m \in Readers /\ current = m /\ pc[m] = "own" /\ "r" \in ends
      BY <1>1 DEF Read, InOwnCode
    <2>2. PICK len \in ReadLen : ReadStep(m, len, r)
      BY <1>1 DEF Read
    <2>3. r \in Readers \cup {NULL}
      BY DEF IInv, TypeOK
    <2> QED BY <2>1, <2>2, <2>3, Callers, ReadStepInv DEF At
  <1>2. ASSUME NEW m \in Muth, ReadResumed(m) PROVE IInv'
    <2>1. current = m /\ pc[m] = "rwait" /\ ReadStep(m, rlen[m], NULL)
      BY <1>2 DEF ReadResumed
    <2>2. NULL \in Readers \cup {NULL} /\ NULL # m
      BY <1>0
    <2> QED BY <2>1, <2>2, Callers, ReadStepInv DEF At
  <1>3. ASSUME NEW m \in Muth, Write(m) PROVE IInv'
    <2>1. m \in Writers /\ current = m /\ pc[m] = "own" /\ "w" \in ends
      BY <1>3 DEF Write, InOwnCode
    <2>2. w \in Writers \cup {NULL}
      BY DEF IInv, TypeOK
    <2>3. CASE WriteEpipe(m, w)
      BY <2>1, <2>2, <2>3, Callers, WriteEpipeInv DEF At
    <2>4. CASE ~WriteEpipe(m, w)
      <3>1. PICK buf \in Chunk : "r" \notin closed /\ WriteStep(m, buf, w)
        BY <1>3, <2>4 DEF Write
      <3> QED BY <2>1, <2>2, <3>1, Callers, WriteStepInv DEF At
    <2> QED BY <2>3, <2>4
  <1>4. ASSUME NEW m \in Muth, WriteResumed(m) PROVE IInv'
    <2>1. current = m /\ pc[m] = "wwait"
      BY <1>4 DEF WriteResumed
    <2>2. NULL \in Writers \cup {NULL} /\ NULL # m
      BY <1>0
    <2>3. CASE WriteEpipe(m, NULL)
      BY <2>1, <2>2, <2>3, Callers, WriteEpipeInv DEF At
    <2>4. CASE "r" \notin closed /\ WriteStep(m, wbuf[m], NULL)
      BY <2>1, <2>2, <2>4, Callers, WriteStepInv DEF At
    <2> QED BY <1>4, <2>3, <2>4 DEF WriteResumed
  <1>5. CASE UNCHANGED vars
    <2>1. MtInv'
      BY <1>5 DEF vars, mtvars, IInv, MtInv, MtTypeOK, Chain, Here
    <2> QED BY <1>5, <2>1
        DEF vars, mtvars, pvars, uvars, hvars, IInv, MtInv, TypeOK, Users, Waiters, Files, Buffer,
            NoLostWakeup, Asleep
  <1> QED BY <1>1, <1>2, <1>3, <1>4, <1>5, RCloseInv, WCloseInv, StartInv, WaitElsewhereInv,
             ResumeElseInv, EndInv DEF Next

\* The inductive invariant of the pipe of mtiopipe(), for any number of users.
THEOREM Invariant == Spec => []IInv
  BY InitIInv, NextIInv, PTL DEF Spec

\* The type invariant of the pipe and of the coroutine switch.
THEOREM TypeCorrect == Spec => []TypeOK
  BY Invariant, PTL DEF IInv

\* No order of nested reads, writes and closes (piperead(), pipewrite(),
\* piperclose(), pipewclose()) leaves a muth asleep that could go on.
THEOREM NoWakeupLost == Spec => []NoLostWakeup
  BY Invariant, PTL DEF IInv

\* No abort() in resume() or yield(), no resume of a muth that is gone, and the
\* pipe is freed exactly once, when nobody is inside one of its functions.
THEOREM Safe == Spec => []MemorySafe
  <1>1. IInv => MemorySafe
    BY DEF IInv, MtInv, Files, MemorySafe
  <1> QED BY Invariant, <1>1, PTL

-----------------------------------------------------------------------------
(* The pipe implements ByteStream.                                         *)

\* The front of a concatenation is its first part.
LEMMA Prefix ==
  ASSUME NEW s \in Seq(Byte), NEW t \in Seq(Byte)
  PROVE  SubSeq(s \o t, 1, Len(s)) = s
  <1>1. CASE s = <<>>
    <2>1. Len(s) = 0
      BY <1>1, EmptySeq
    <2> QED BY <1>1, <2>1, SubSeqEmpty
  <1>2. CASE s # <<>>
    <2>1. Len(s) \in Nat \ {0}
      BY <1>2, EmptySeq
    <2>2. 1 \in 1 .. Len(s) /\ Len(s) \in 1 .. Len(s)
      BY <2>1
    <2>3. SubSeq(s \o t, 1, Len(s)) = SubSeq(s, 1, Len(s))
      BY <2>2, SubSeqOfConcat1
    <2> QED BY <2>3, SubSeqFull
  <1> QED BY <1>1, <1>2

\* A longer sequence continues the one it was made from.
LEMMA Extension ==
  ASSUME NEW s \in Seq(Byte), NEW t \in Seq(Byte), Len(t) >= 1
  PROVE  Stream!Continues(s \o t, s)
  <1>1. Len(s \o t) = Len(s) + Len(t) /\ Len(s) \in Nat /\ Len(t) \in Nat
    BY ConcatProperties
  <1>2. Len(s \o t) > Len(s)
    BY <1>1
  <1> QED BY <1>2, Prefix DEF Stream!Continues

\* The loop of piperead() reads from the stream, or changes nothing of it.
LEMMA ReadStepStream ==
  ASSUME IInv, IInv', NEW m, NEW len \in ReadLen, NEW rr, "r" \in ends, ReadStep(m, len, rr)
  PROVE  [Stream!Next]_(Stream!svars)
  <1>1. CASE data # <<>>
    <2> DEFINE front == SubSeq(data, 1, Min(len, Len(data)))
    <2>1. rcvd' = rcvd \o front /\ UNCHANGED <<sent, ends, eof, epipe>>
      BY <1>1 DEF ReadStep
    <2>2. front \in Seq(Byte) /\ Len(front) >= 1
      BY <1>1, TakeFront DEF IInv, TypeOK
    <2> HIDE DEF front
    <2>3. Stream!Continues(rcvd', rcvd)
      BY <2>1, <2>2, Extension DEF IInv, TypeOK
    <2>4. sent = rcvd' \o data' /\ rcvd' \in Seq(Byte) /\ data' \in Seq(Byte)
      BY <2>1 DEF IInv, TypeOK, Buffer
    <2>5. rcvd' = SubSeq(sent, 1, Len(rcvd'))
      BY <2>4, Prefix
    <2> QED BY <2>1, <2>3, <2>5 DEF Stream!Next, Stream!Read
  <1>2. CASE data = <<>>
    <2>1. UNCHANGED <<sent, rcvd, ends, epipe>>
      BY <1>2 DEF ReadStep, hvars
    <2>2. rcvd = sent
      BY <1>2, ConcatEmptySeq DEF IInv, TypeOK, Buffer
    <2>3. CASE "w" \in closed
      <3>1. "w" \notin ends /\ eof' = TRUE
        BY <1>2, <2>3 DEF ReadStep, IInv, Files
      <3> QED BY <2>1, <2>2, <3>1 DEF Stream!Next, Stream!ReadEof
    <2>4. CASE "w" \notin closed
      <3>1. eof' = eof
        BY <1>2, <2>4 DEF ReadStep, hvars
      <3> QED BY <2>1, <3>1 DEF Stream!svars
    <2> QED BY <2>3, <2>4
  <1> QED BY <1>1, <1>2

\* EPIPE of pipewrite() is the EPIPE of the stream.
LEMMA WriteEpipeStream ==
  ASSUME IInv, NEW m, NEW ww, WriteEpipe(m, ww)
  PROVE  [Stream!Next]_(Stream!svars)
  BY DEF WriteEpipe, IInv, Files, Stream!Next, Stream!WriteEpipe

\* The loop of pipewrite() writes to the stream, or changes nothing of it.
LEMMA WriteStepStream ==
  ASSUME IInv, IInv', NEW m, NEW buf \in Chunk, NEW ww, "w" \in ends, "r" \notin closed,
         WriteStep(m, buf, ww)
  PROVE  [Stream!Next]_(Stream!svars)
  <1>0. Len(data) \in Nat /\ BufMax \in Nat
    BY LenProperties, PipeAssumption DEF IInv, TypeOK
  <1>1. CASE Len(data) < BufMax
    <2> DEFINE back == SubSeq(buf, 1, Min(Len(buf), BufMax - Len(data)))
    <2>0. ~(Len(data) >= BufMax)
      BY <1>0, <1>1
    <2>1. sent' = sent \o back /\ UNCHANGED <<rcvd, ends, eof, epipe>>
      BY <2>0, Zenon DEF WriteStep
    <2>2. back \in Seq(Byte) /\ Len(back) >= 1
      BY <1>1, PutBack DEF IInv, TypeOK, Buffer
    <2> HIDE DEF back
    <2>3. Stream!Continues(sent', sent)
      BY <2>1, <2>2, Extension DEF IInv, TypeOK
    <2>4. sent' = rcvd \o data' /\ data' \in Seq(Byte) /\ Len(data') <= BufMax
          /\ sent' \in Seq(Byte) /\ rcvd \in Seq(Byte)
      BY <2>1 DEF IInv, TypeOK, Buffer
    <2>5. Len(sent') = Len(rcvd) + Len(data') /\ Len(rcvd) \in Nat /\ Len(data') \in Nat
      BY <2>4, ConcatProperties
    <2>6. Len(sent') <= Len(rcvd) + BufMax
      BY <1>0, <2>4, <2>5
    <2>7. "r" \in ends
      BY DEF IInv, Files
    <2> QED BY <2>1, <2>3, <2>4, <2>6, <2>7 DEF Stream!Next, Stream!Write
  <1>2. CASE Len(data) >= BufMax
    <2>1. UNCHANGED <<sent, rcvd, ends, eof, epipe>>
      BY <1>0, <1>2 DEF WriteStep, hvars
    <2> QED BY <2>1 DEF Stream!svars
  <1> QED BY <1>0, <1>1, <1>2

\* Every step of the pipe and of its users is a step of the stream or none.
LEMMA StepStream == IInv /\ IInv' /\ [Next]_vars => [Stream!Next]_(Stream!svars)
  <1> SUFFICES ASSUME IInv, IInv', [Next]_vars PROVE [Stream!Next]_(Stream!svars)
    OBVIOUS
  <1>1. ASSUME NEW m \in Muth, Read(m) \/ ReadResumed(m) PROVE [Stream!Next]_(Stream!svars)
    <2>1. CASE Read(m)
      BY <2>1, ReadStepStream DEF Read
    <2>2. CASE ReadResumed(m)
      BY <2>2, Callers, ReadStepStream DEF ReadResumed
    <2> QED BY <1>1, <2>1, <2>2
  <1>2. ASSUME NEW m \in Muth, Write(m) \/ WriteResumed(m) PROVE [Stream!Next]_(Stream!svars)
    <2>1. CASE Write(m)
      BY <2>1, WriteEpipeStream, WriteStepStream DEF Write
    <2>2. CASE WriteResumed(m)
      BY <2>2, Callers, WriteEpipeStream, WriteStepStream DEF WriteResumed
    <2> QED BY <1>2, <2>1, <2>2
  <1>3. ASSUME NEW m \in Muth, RClose(m) \/ WClose(m) PROVE [Stream!Next]_(Stream!svars)
    BY <1>3 DEF RClose, WClose, hvars, Stream!Next, Stream!Close
  <1>4. ASSUME NEW m \in Muth, Start(m) \/ WaitElsewhere(m) \/ ResumeElse(m) \/ End(m)
        PROVE [Stream!Next]_(Stream!svars)
    BY <1>4 DEF Start, WaitElsewhere, ResumeElse, End, pvars, hvars, Stream!svars
  <1>5. CASE UNCHANGED vars
    BY <1>5 DEF vars, pvars, hvars, Stream!svars
  <1> QED BY <1>1, <1>2, <1>3, <1>4, <1>5 DEF Next

\* The pipe of mtiopipe() is a bounded reliable stream, whatever its users do.
THEOREM Implements == Spec => StreamSpec
  <1>1. Init => Stream!Init
    BY DEF Init, PipeInit, Stream!Init
  <1> QED BY <1>1, Invariant, StepStream, PTL DEF Spec, StreamSpec, Stream!Spec

-----------------------------------------------------------------------------
(* The heap of times.                                                      *)

\* A set of naturals that is not empty has a least element.
LEMMA LeastOf ==
  ASSUME NEW S \in SUBSET Nat, S # {}
  PROVE  \E x \in S : \A y \in S : x <= y
<1> DEFINE Less == OpToRel(<, Nat)
<1>1. PICK x \in S : \A y \in S : ~(<<y, x>> \in Less)
  BY NatLessThanWellFounded, WFMin, Zenon
<1>2. \A y \in Nat : <<y, x>> \in Less \/ ~(y < x)
  BY DEF OpToRel
<1> HIDE DEF Less
<1>3. \A y \in S : ~(y < x)
  BY <1>1, <1>2, Zenon
<1>4. \A y \in S : x <= y
  BY <1>3
<1> QED BY <1>4

Entry(E) == [el : E, tm : Nat]
HeapOf(d, E) == [b : [0 .. d - 1 -> Entry(E)], pos : [E -> Int]]

\* What is in a heap.
Content(H) == {H.b[n] : n \in DOMAIN H.b}

\* A heap of d entries.
GoodHeap(H, d, E) == H \in HeapOf(d, E) /\ HeapOrdered(H)

\* The array of a heap of d entries is full.
LEMMA SizeIs == ASSUME NEW E, NEW d \in Nat, NEW H \in HeapOf(d, E) PROVE Size(H) = d
<1>1. DOMAIN H.b = 0 .. d - 1
  BY DEF HeapOf
<1>2. Cardinality(0 .. d - 1) = d
  BY FS_Interval
<1> QED BY <1>1, <1>2 DEF Size

\* The places of a parent and of its two children.
LEMMA ParentIs ==
  ASSUME NEW n \in Nat \ {0}
  PROVE  ThParent(n) \in Nat /\ ThParent(n) < n /\ (n = 2 * ThParent(n) + 1 \/ n = 2 * ThParent(n) + 2)
BY DEF ThParent

\* Parents are in the order of their children.
LEMMA ParentsInOrder ==
  ASSUME NEW n \in Nat \ {0}, NEW k \in Nat \ {0}, n <= k
  PROVE  ThParent(n) <= ThParent(k)
BY ParentIs

PutAt(H, n, x, d, E, R) ==
  /\ R \in HeapOf(d, E)
  /\ R.b[n] = x
  /\ \A j \in 0 .. d - 1 : j # n => R.b[j] = H.b[j]
  /\ R.pos[x.el] = n
  /\ \A e \in E : e # x.el => R.pos[e] = H.pos[e]

\* What putting an entry at a place changes: that place and one thpos.
LEMMA PutIs ==
  ASSUME NEW E, NEW d \in Nat, NEW H \in HeapOf(d, E), NEW n \in 0 .. d - 1, NEW x \in Entry(E)
  PROVE  PutAt(H, n, x, d, E, Put(H, n, x))
BY DEF Put, PutAt, HeapOf, Entry

-----------------------------------------------------------------------------
(* thraise().                                                              *)

Rises(H, x, n, f) ==
  f = [k \in 0 .. n |-> IF k = 0 \/ H.b[ThParent(k)].tm <= x.tm
                        THEN Put(H, k, x)
                        ELSE Put(f[ThParent(k)], k, H.b[ThParent(k)])]

\* It ends: the place of the parent is a lower one.
LEMMA RiseEnds == ASSUME NEW H, NEW x, NEW n \in Nat PROVE \E f : Rises(H, x, n, f)
<1> DEFINE Bad == {k \in 0 .. n : ~\E g : Rises(H, x, k, g)}
<1> SUFFICES ASSUME Bad # {} PROVE FALSE
  OBVIOUS
<1>1. Bad \in SUBSET Nat
  OBVIOUS
<1>2. PICK k \in Bad : \A j \in Bad : k <= j
  <2> HIDE DEF Bad
  <2> QED BY <1>1, LeastOf
<1>3. k \in 0 .. n /\ ~\E g : Rises(H, x, k, g)
  BY <1>2
<1>4. k # 0
  <2>1. Rises(H, x, 0, [i \in 0 .. 0 |-> Put(H, i, x)])
    BY DEF Rises
  <2> QED BY <1>3, <2>1
<1>5. PICK g : Rises(H, x, k - 1, g)
  BY <1>2, <1>3, <1>4
<1> DEFINE v(i, u) == IF i = 0 \/ H.b[ThParent(i)].tm <= x.tm THEN Put(H, i, x) ELSE Put(u, i, H.b[ThParent(i)])
           h == [i \in 0 .. k |-> IF i = k THEN v(i, g[ThParent(i)]) ELSE g[i]]
<1>6. \A i \in 0 .. k - 1 : g[i] = v(i, g[ThParent(i)])
  BY <1>5 DEF Rises
<1>7. \A i \in 0 .. k : i # 0 => h[ThParent(i)] = g[ThParent(i)]
  <2> HIDE DEF v
  <2> QED BY <1>3, ParentIs
<1>8. Rises(H, x, k, h)
  <2>1. \A i \in 0 .. k : i # 0 => h[i] = v(i, h[ThParent(i)])
    <3> HIDE DEF v
    <3> QED BY <1>6, <1>7
  <2>2. h[0] = v(0, h[ThParent(0)])
    <3>1. h[0] = g[0]
      BY <1>3, <1>4
    <3> QED BY <1>3, <1>4, <1>6, <3>1
  <2>3. h = [i \in 0 .. k |-> h[i]]
    OBVIOUS
  <2>4. \A i \in 0 .. k : h[i] = v(i, h[ThParent(i)])
    <3> HIDE DEF h, v
    <3> QED BY <2>1, <2>2
  <2>5. h = [i \in 0 .. k |-> v(i, h[ThParent(i)])]
    <3> HIDE DEF h, v
    <3> QED BY <2>3, <2>4
  <2> HIDE DEF h
  <2> QED BY <2>5 DEF Rises
<1> QED BY <1>3, <1>8

\* The heap but for what is at n, which is to be overwritten with x.
HoleAt(H, d, E, n, x) ==
  /\ H \in HeapOf(d, E) /\ n \in 0 .. d - 1 /\ x \in Entry(E)
  /\ \A j \in 1 .. d - 1 : j # n /\ ThParent(j) # n => H.b[ThParent(j)].tm <= H.b[j].tm
  /\ \A j \in 1 .. d - 1 : ThParent(j) = n /\ n > 0 => H.b[ThParent(n)].tm <= H.b[j].tm
  /\ \A j \in 0 .. d - 1 : j # n => H.pos[H.b[j].el] = j /\ H.b[j].el # x.el
  /\ \A e \in E : e # x.el /\ H.pos[e] >= 0 =>
       H.pos[e] \in 0 .. d - 1 /\ H.pos[e] # n /\ H.b[H.pos[e]].el = e

\* What R, with x, is like at the places S: an exchange of what was there in H
\* (but for k) with x.
Exchanged(H, R, E, S, k, x) ==
  /\ \A j \in S : R.b[j] = x \/ \E i \in S : i # k /\ R.b[j] = H.b[i]
  /\ \E j \in S : R.b[j] = x
  /\ \A i \in S : i # k => \E j \in S : R.b[j] = H.b[i]
  /\ \A j \in S : R.pos[R.b[j].el] = j
  /\ \A e \in E : R.pos[e] # H.pos[e] => \E j \in S : R.b[j].el = e

Raised(H, R, d, E, k, x) ==
  /\ R \in HeapOf(d, E)
  /\ \A j \in 0 .. d - 1 : j > k => R.b[j] = H.b[j]
  /\ \A j \in 0 .. d - 1 : j < k => R.b[j].tm <= H.b[j].tm
  /\ R.b[k] = x \/ (k > 0 /\ R.b[k] = H.b[ThParent(k)])
  /\ \A j \in 1 .. k : R.b[ThParent(j)].tm <= R.b[j].tm
  /\ Exchanged(H, R, E, 0 .. k, k, x)

\* One turn of the loop of thraise(): the parent comes down.
LEMMA RaiseStep ==
  ASSUME NEW E, NEW d \in Nat, NEW n, NEW x, NEW H, HoleAt(H, d, E, n, x),
         NEW k \in 1 .. n, H.b[ThParent(k)].tm > x.tm,
         NEW R, Raised(H, R, d, E, ThParent(k), x)
  PROVE  Raised(H, Put(R, k, H.b[ThParent(k)]), d, E, k, x)
<1> DEFINE q == ThParent(k)
           y == H.b[q]
           Z == Put(R, k, y)
<1>1. q \in Nat /\ q < k /\ k \in 1 .. d - 1 /\ n \in 0 .. d - 1 /\ q \in 0 .. d - 1
  BY ParentIs DEF HoleAt
<1>2. H \in HeapOf(d, E) /\ R \in HeapOf(d, E) /\ x \in Entry(E) /\ y \in Entry(E)
  BY <1>1 DEF HoleAt, Raised, HeapOf
<1>3. /\ Z \in HeapOf(d, E)
      /\ Z.b[k] = y
      /\ \A j \in 0 .. d - 1 : j # k => Z.b[j] = R.b[j]
      /\ Z.pos[y.el] = k
      /\ \A e \in E : e # y.el => Z.pos[e] = R.pos[e]
  <2> HIDE DEF q, y
  <2>1. k \in 0 .. d - 1
    BY <1>1
  <2>2. PutAt(R, k, y, d, E, Put(R, k, y))
    BY <2>1, <1>2, PutIs
  <2> QED BY <2>2 DEF PutAt
<1>4. \A j \in 1 .. k - 1 : H.b[ThParent(j)].tm <= H.b[j].tm
  BY <1>1, ParentIs DEF HoleAt
<1>5. \A j \in 0 .. d - 1 : H.b[j] \in Entry(E) /\ H.b[j].tm \in Nat /\ H.b[j].el \in E
  BY <1>2 DEF HeapOf, Entry
<1>6. \A j \in 0 .. d - 1 : R.b[j] \in Entry(E) /\ R.b[j].tm \in Nat /\ R.b[j].el \in E
  BY <1>2 DEF HeapOf, Entry
<1>7. x.tm \in Nat /\ x.el \in E
  BY <1>2 DEF Entry
<1>8. R.b[q].tm <= y.tm
  <2>1. CASE R.b[q] = x
    BY <2>1, <1>5, <1>7, <1>1
  <2>2. CASE q > 0 /\ R.b[q] = H.b[ThParent(q)]
    BY <2>2, <1>4, <1>1
  <2> QED BY <2>1, <2>2 DEF Raised
<1>9. \A j \in 0 .. d - 1 : j > k => Z.b[j] = H.b[j]
  BY <1>3, <1>1 DEF Raised
<1>10. \A j \in 0 .. d - 1 : j < k => Z.b[j].tm <= H.b[j].tm
  <2>1. \A j \in 0 .. d - 1 : j < k => R.b[j].tm <= H.b[j].tm
    BY <1>8, <1>5, <1>1 DEF Raised
  <2> QED BY <1>3, <2>1
<1>11. \A j \in 1 .. k : Z.b[ThParent(j)].tm <= Z.b[j].tm
  <2> SUFFICES ASSUME NEW j \in 1 .. k PROVE Z.b[ThParent(j)].tm <= Z.b[j].tm
    OBVIOUS
  <2> HIDE DEF Z
  <2>1. ThParent(j) \in 0 .. d - 1 /\ ThParent(j) < k /\ ThParent(j) <= q /\ ThParent(j) < j
    BY <1>1, ParentIs, ParentsInOrder
  <2>2. Z.b[ThParent(j)] = R.b[ThParent(j)]
    BY <2>1, <1>3
  <2>3. CASE j <= q
    <3>1. R.b[ThParent(j)].tm <= R.b[j].tm
      BY <2>3, <1>1 DEF Raised
    <3> QED BY <2>2, <2>3, <3>1, <1>1, <1>3
  <2>4. CASE q < j /\ j < k
    <3>1. Z.b[j] = H.b[j]
      BY <2>4, <1>1, <1>3 DEF Raised
    <3>2. R.b[ThParent(j)].tm <= H.b[ThParent(j)].tm
      BY <2>1, <1>8, <1>1 DEF Raised
    <3>3. H.b[ThParent(j)].tm <= H.b[j].tm
      BY <2>4, <1>4
    <3> QED BY <2>1, <2>2, <3>1, <3>2, <3>3, <1>5, <1>6, <1>1
  <2>5. CASE j = k
    BY <2>2, <2>5, <1>3, <1>8
  <2> QED BY <2>3, <2>4, <2>5, <1>1
<1>12. Exchanged(H, Z, E, 0 .. k, k, x)
  <2> HIDE DEF Z
  <2>1. Exchanged(H, R, E, 0 .. q, q, x)
    BY DEF Raised
  <2>2. \A i, j \in 0 .. k - 1 : H.b[i].el = H.b[j].el => i = j
    BY <1>1 DEF HoleAt
  <2>3. \A j \in 0 .. q : R.b[j].el # y.el
    BY <2>1, <2>2, <1>1 DEF Exchanged, HoleAt
  <2>4. \A j \in 0 .. k - 1 : j > q => Z.b[j] = H.b[j]
    BY <1>1, <1>3 DEF Raised
  <2>5. \A j \in 0 .. q : Z.b[j] = R.b[j]
    BY <1>1, <1>3
  <2>6. \A j \in 0 .. k : Z.b[j] = x \/ \E i \in 0 .. k : i # k /\ Z.b[j] = H.b[i]
    <3> SUFFICES ASSUME NEW j \in 0 .. k PROVE Z.b[j] = x \/ \E i \in 0 .. k : i # k /\ Z.b[j] = H.b[i]
      OBVIOUS
    <3>1. CASE j <= q
      BY <3>1, <2>5, <2>1, <1>1 DEF Exchanged
    <3>2. CASE q < j /\ j < k
      BY <3>2, <2>4, <1>1
    <3>3. CASE j = k
      BY <3>3, <1>3, <1>1
    <3> QED BY <3>1, <3>2, <3>3, <1>1
  <2>7. \E j \in 0 .. k : Z.b[j] = x
    BY <2>1, <2>5, <1>1 DEF Exchanged
  <2>8. \A i \in 0 .. k : i # k => \E j \in 0 .. k : Z.b[j] = H.b[i]
    <3> SUFFICES ASSUME NEW i \in 0 .. k, i # k PROVE \E j \in 0 .. k : Z.b[j] = H.b[i]
      OBVIOUS
    <3>1. CASE i < q
      BY <3>1, <2>5, <2>1, <1>1 DEF Exchanged
    <3>2. CASE i = q
      BY <3>2, <1>3, <1>1
    <3>3. CASE q < i
      BY <3>3, <2>4, <1>1
    <3> QED BY <3>1, <3>2, <3>3, <1>1
  <2>9. \A j \in 0 .. k : Z.pos[Z.b[j].el] = j
    <3> SUFFICES ASSUME NEW j \in 0 .. k PROVE Z.pos[Z.b[j].el] = j
      OBVIOUS
    <3>1. CASE j <= q
      <4>1. Z.b[j] = R.b[j] /\ R.b[j].el # y.el /\ R.b[j].el \in E
        BY <3>1, <2>3, <2>5, <1>6, <1>1
      <4>2. R.pos[R.b[j].el] = j
        BY <3>1, <2>1, <1>1 DEF Exchanged
      <4> QED BY <4>1, <4>2, <1>3
    <3>2. CASE q < j /\ j < k
      <4>1. Z.b[j] = H.b[j] /\ H.b[j].el # y.el /\ H.b[j].el \in E
        BY <3>2, <2>2, <2>4, <1>5, <1>1
      <4>2. H.pos[H.b[j].el] = j /\ H.b[j].el # x.el
        BY <3>2, <1>1 DEF HoleAt
      <4>3. R.pos[H.b[j].el] = H.pos[H.b[j].el]
        <5>1. \A i \in 0 .. q : R.b[i].el # H.b[j].el
          BY <3>2, <4>2, <2>1, <2>2, <1>1 DEF Exchanged
        <5> QED BY <5>1, <4>1, <2>1 DEF Exchanged
      <4> QED BY <4>1, <4>2, <4>3, <1>3
    <3>3. CASE j = k
      BY <3>3, <1>3
    <3> QED BY <3>1, <3>2, <3>3, <1>1
  <2>10. \A e \in E : Z.pos[e] # H.pos[e] => \E j \in 0 .. k : Z.b[j].el = e
    <3> SUFFICES ASSUME NEW e \in E, Z.pos[e] # H.pos[e] PROVE \E j \in 0 .. k : Z.b[j].el = e
      OBVIOUS
    <3>1. CASE e = y.el
      BY <3>1, <1>3, <1>1
    <3>2. CASE e # y.el
      <4>1. PICK j \in 0 .. q : R.b[j].el = e
        BY <3>2, <1>3, <2>1 DEF Exchanged
      <4> QED BY <4>1, <2>5, <1>1
    <3> QED BY <3>1, <3>2
  <2> HIDE DEF y, q
  <2> QED BY <2>6, <2>7, <2>8, <2>9, <2>10 DEF Exchanged
<1>13. Raised(H, Z, d, E, k, x)
  <2>1. k > 0 /\ Z.b[k] = H.b[ThParent(k)]
    BY <1>3, <1>1
  <2> HIDE DEF Z, q, y
  <2> QED BY <1>3, <1>9, <1>10, <1>11, <1>12, <1>1, <2>1 DEF Raised
<1> QED BY <1>13

\* The last turn: x stays where it is.
LEMMA RaiseStays ==
  ASSUME NEW E, NEW d \in Nat, NEW n, NEW x, NEW H, HoleAt(H, d, E, n, x),
         NEW k \in 0 .. n, k = 0 \/ H.b[ThParent(k)].tm <= x.tm
  PROVE  Raised(H, Put(H, k, x), d, E, k, x)
<1> DEFINE Z == Put(H, k, x)
<1>1. n \in 0 .. d - 1 /\ k \in 0 .. d - 1 /\ H \in HeapOf(d, E) /\ x \in Entry(E)
  BY DEF HoleAt
<1>2. PutAt(H, k, x, d, E, Z)
  BY <1>1, PutIs
<1> HIDE DEF Z
<1>3. Z \in HeapOf(d, E) /\ Z.b[k] = x /\ \A j \in 0 .. d - 1 : j # k => Z.b[j] = H.b[j]
  BY <1>2 DEF PutAt
<1>4. \A j \in 0 .. d - 1 : H.b[j].tm \in Nat /\ H.b[j].el \in E
  BY <1>1 DEF HeapOf, Entry
<1>5. \A j \in 1 .. k : Z.b[ThParent(j)].tm <= Z.b[j].tm
  <2> SUFFICES ASSUME NEW j \in 1 .. k PROVE Z.b[ThParent(j)].tm <= Z.b[j].tm
    OBVIOUS
  <2>1. ThParent(j) \in 0 .. d - 1 /\ ThParent(j) < j
    BY <1>1, ParentIs
  <2>2. Z.b[ThParent(j)] = H.b[ThParent(j)]
    BY <2>1, <1>1, <1>3
  <2>3. CASE j < k
    <3>1. H.b[ThParent(j)].tm <= H.b[j].tm
      BY <2>1, <2>3, <1>1 DEF HoleAt
    <3> QED BY <3>1, <2>2, <2>3, <1>1, <1>3
  <2>4. CASE j = k
    BY <2>2, <2>4, <1>3
  <2> QED BY <2>3, <2>4, <1>1
<1>6. Exchanged(H, Z, E, 0 .. k, k, x)
  <2>1. \A j \in 0 .. k - 1 : Z.b[j] = H.b[j] /\ H.b[j].el # x.el /\ H.pos[H.b[j].el] = j
    BY <1>1, <1>3 DEF HoleAt
  <2>2. \A j \in 0 .. k : Z.pos[Z.b[j].el] = j
    BY <2>1, <1>1, <1>2, <1>4 DEF PutAt
  <2>3. \A e \in E : Z.pos[e] # H.pos[e] => \E j \in 0 .. k : Z.b[j].el = e
    BY <1>1, <1>2 DEF PutAt
  <2> QED BY <2>1, <2>2, <2>3, <1>1, <1>3 DEF Exchanged
<1>7. \A j \in 0 .. d - 1 : j # k => Z.b[j].tm <= H.b[j].tm
  BY <1>3, <1>4
<1>8. Raised(H, Z, d, E, k, x)
  BY <1>1, <1>3, <1>5, <1>6, <1>7 DEF Raised
<1> QED BY <1>8 DEF Z

\* thraise() puts x somewhere on the way to the root, and moves what was there
\* down.
LEMMA RaiseIs ==
  ASSUME NEW E, NEW d \in Nat, NEW n, NEW x, NEW H, HoleAt(H, d, E, n, x)
  PROVE  Raised(H, ThRaise(H, x, n), d, E, n, x)
<1> DEFINE f == CHOOSE g : Rises(H, x, n, g)
           Bad == {k \in 0 .. n : ~Raised(H, f[k], d, E, k, x)}
<1>1. n \in Nat /\ n \in 0 .. d - 1
  BY DEF HoleAt
<1>2. Rises(H, x, n, f)
  BY <1>1, RiseEnds
<1>3. f[n] = ThRaise(H, x, n)
  BY DEF ThRaise, Rises
<1> HIDE DEF f
<1>4. \A k \in 0 .. n : IF k = 0 \/ H.b[ThParent(k)].tm <= x.tm
                        THEN f[k] = Put(H, k, x)
                        ELSE f[k] = Put(f[ThParent(k)], k, H.b[ThParent(k)])
  BY <1>2 DEF Rises
<1>5. Bad = {}
  <2> SUFFICES ASSUME Bad # {} PROVE FALSE
    OBVIOUS
  <2>1. PICK k \in Bad : \A j \in Bad : k <= j
    <3>1. Bad \in SUBSET Nat
      OBVIOUS
    <3> HIDE DEF Bad
    <3> QED BY <3>1, LeastOf
  <2>2. k \in 0 .. n /\ ~Raised(H, f[k], d, E, k, x)
    BY <2>1
  <2>3. CASE k = 0 \/ H.b[ThParent(k)].tm <= x.tm
    <3>1. f[k] = Put(H, k, x)
      BY <2>2, <2>3, <1>4
    <3> QED BY <2>2, <2>3, <3>1, RaiseStays
  <2>4. CASE k # 0 /\ ~(H.b[ThParent(k)].tm <= x.tm)
    <3>1. f[k] = Put(f[ThParent(k)], k, H.b[ThParent(k)])
      BY <2>2, <2>4, <1>4
    <3>2. k \in 1 .. n /\ ThParent(k) \in 0 .. n /\ ThParent(k) < k
      BY <1>1, <2>2, <2>4, ParentIs
    <3>3. Raised(H, f[ThParent(k)], d, E, ThParent(k), x)
      BY <2>1, <3>2
    <3>4. H.b[ThParent(k)].tm > x.tm
      <4>1. H.b[ThParent(k)].tm \in Nat /\ x.tm \in Nat
        BY SMTT(30), <3>2, <1>1 DEF HoleAt, HeapOf, Entry
      <4> QED BY <4>1, <2>4
    <3> HIDE DEF Bad
    <3>5. Raised(H, Put(f[ThParent(k)], k, H.b[ThParent(k)]), d, E, k, x)
      BY <3>2, <3>3, <3>4, RaiseStep
    <3> QED BY <2>2, <3>1, <3>5
  <2> QED BY <2>3, <2>4
<1> QED BY <1>1, <1>3, <1>5

-----------------------------------------------------------------------------
(* thlower().                                                              *)

\* The child of k that is not later than the other.
FirstChild(H, d, k) ==
  LET c == 2 * k + 1 IN IF c + 1 < d /\ H.b[c + 1].tm < H.b[c].tm THEN c + 1 ELSE c

Lowers(H, x, d, n, f) ==
  f = [k \in n .. d - 1 |-> IF 2 * k + 1 >= d \/ H.b[FirstChild(H, d, k)].tm > x.tm
                            THEN Put(H, k, x)
                            ELSE Put(f[FirstChild(H, d, k)], k, H.b[FirstChild(H, d, k)])]

\* It ends: a child's place is a higher one.
LEMMA LowerEnds ==
  ASSUME NEW H, NEW x, NEW d \in Nat
  PROVE  \E f : Lowers(H, x, d, 0, f)
<1> DEFINE Bad == {k \in 0 .. d : ~\E g : Lowers(H, x, d, d - k, g)}
<1> SUFFICES ASSUME Bad # {} PROVE FALSE
  <2>1. d \in 0 .. d /\ d - d = 0
    OBVIOUS
  <2> QED BY <2>1
<1>1. Bad \in SUBSET Nat
  OBVIOUS
<1>2. PICK l \in Bad : \A j \in Bad : l <= j
  <2> HIDE DEF Bad
  <2> QED BY <1>1, LeastOf
<1> DEFINE k == d - l
<1>3. l \in 0 .. d /\ ~\E g : Lowers(H, x, d, k, g)
  BY <1>2
<1>4. l # 0
  <2>1. Lowers(H, x, d, d, [i \in d .. d - 1 |-> x])
    BY DEF Lowers
  <2> QED BY <1>3, <2>1
<1>5. \E g : Lowers(H, x, d, d - (l - 1), g)
  BY <1>2, <1>3, <1>4
<1>6. PICK g : Lowers(H, x, d, k + 1, g)
  <2>1. d - (l - 1) = k + 1
    BY <1>3
  <2> QED BY <1>5, <2>1
<1>7. k \in 0 .. d - 1
  BY <1>3, <1>4
<1> DEFINE c(i) == FirstChild(H, d, i)
           v(i, u) == IF 2 * i + 1 >= d \/ H.b[c(i)].tm > x.tm THEN Put(H, i, x) ELSE Put(u, i, H.b[c(i)])
           h == [i \in k .. d - 1 |-> IF i = k THEN v(i, g[c(i)]) ELSE g[i]]
<1> HIDE DEF k
<1>8. \A i \in k + 1 .. d - 1 : g[i] = v(i, g[c(i)])
  BY <1>6, <1>7 DEF Lowers
<1>9. \A i \in k .. d - 1 : 2 * i + 1 < d => c(i) \in k + 1 .. d - 1
  BY <1>7 DEF FirstChild
<1>10. \A i \in k .. d - 1 : h[i] = v(i, h[c(i)])
  <2> SUFFICES ASSUME NEW i \in k .. d - 1 PROVE h[i] = v(i, h[c(i)])
    OBVIOUS
  <2>1. h[i] = v(i, g[c(i)])
    <3> HIDE DEF v
    <3> QED BY <1>7, <1>8
  <2>2. CASE 2 * i + 1 < d
    <3>1. h[c(i)] = g[c(i)]
      <4> HIDE DEF v, c
      <4> QED BY <1>7, <1>9, <2>2
    <3> HIDE DEF h, v, c
    <3> QED BY <2>1, <3>1
  <2>3. CASE 2 * i + 1 >= d
    <3> HIDE DEF h, c
    <3> QED BY <2>1, <2>3
  <2> QED BY <2>2, <2>3, <1>7
<1>11. Lowers(H, x, d, k, h)
  <2>1. h = [i \in k .. d - 1 |-> h[i]]
    OBVIOUS
  <2>2. h = [i \in k .. d - 1 |-> v(i, h[c(i)])]
    <3> HIDE DEF h, v
    <3> QED BY <2>1, <1>10
  <2> HIDE DEF h
  <2> QED BY <2>2 DEF Lowers
<1> QED BY <1>3, <1>11

\* The child that thlower() compares with is the earlier of the two.
LEMMA FirstIs ==
  ASSUME NEW E, NEW d \in Nat, NEW H \in HeapOf(d, E), NEW k \in 0 .. d - 1
  PROVE  LET c == FirstChild(H, d, k) IN
           /\ 2 * k + 1 < d => /\ c \in k + 1 .. d - 1 /\ ThParent(c) = k
                               /\ \A j \in 1 .. d - 1 : ThParent(j) = k => H.b[c].tm <= H.b[j].tm
           /\ 2 * k + 1 >= d => \A j \in 1 .. d - 1 : ThParent(j) # k
<1> DEFINE c == FirstChild(H, d, k)
<1>1. 2 * k + 1 >= d => \A j \in 1 .. d - 1 : ThParent(j) # k
  BY ParentIs
<1>2. ASSUME 2 * k + 1 < d
      PROVE  c \in k + 1 .. d - 1 /\ ThParent(c) = k /\ \A j \in 1 .. d - 1 : ThParent(j) = k => H.b[c].tm <= H.b[j].tm
  <2>1. c \in k + 1 .. d - 1 /\ (c = 2 * k + 1 \/ c = 2 * k + 2)
    BY <1>2 DEF FirstChild
  <2>2. ThParent(c) = k
    <3> HIDE DEF c
    <3>1. c \in Nat \ {0} /\ k \in Nat
      BY <2>1
    <3>2. ThParent(c) \in Nat /\ (c = 2 * ThParent(c) + 1 \/ c = 2 * ThParent(c) + 2)
      BY <3>1, ParentIs
    <3> QED BY <2>1, <3>1, <3>2
  <2>3. \A j \in 0 .. d - 1 : H.b[j].tm \in Nat
    BY DEF HeapOf, Entry
  <2>4. \A j \in 1 .. d - 1 : ThParent(j) = k => j = 2 * k + 1 \/ j = 2 * k + 2
    BY ParentIs
  <2>5. \A j \in 1 .. d - 1 : j = 2 * k + 1 \/ j = 2 * k + 2 => H.b[c].tm <= H.b[j].tm
    BY <1>2, <2>3 DEF FirstChild
  <2> QED BY <2>1, <2>2, <2>4, <2>5
<1> QED BY <1>1, <1>2

Lowered(H, R, d, E, k, x) ==
  /\ R \in HeapOf(d, E)
  /\ \A j \in 0 .. d - 1 : j < k => R.b[j] = H.b[j]
  /\ \A j \in 0 .. d - 1 : j > k => H.b[j].tm <= R.b[j].tm
  /\ R.b[k] = x \/ \E c \in 1 .. d - 1 : ThParent(c) = k /\ R.b[k] = H.b[c]
  /\ \A j \in 1 .. d - 1 : ThParent(j) >= k => R.b[ThParent(j)].tm <= R.b[j].tm
  /\ Exchanged(H, R, E, k .. d - 1, k, x)

\* One turn of the loop of thlower(): the first child comes up.
LEMMA LowerStep ==
  ASSUME NEW E, NEW d \in Nat, NEW n, NEW x, NEW H, HoleAt(H, d, E, n, x),
         NEW k \in n .. d - 1, 2 * k + 1 < d, ~(H.b[FirstChild(H, d, k)].tm > x.tm),
         NEW R, Lowered(H, R, d, E, FirstChild(H, d, k), x)
  PROVE  Lowered(H, Put(R, k, H.b[FirstChild(H, d, k)]), d, E, k, x)
<1> DEFINE c == FirstChild(H, d, k)
           y == H.b[c]
           Z == Put(R, k, y)
<1>1. n \in 0 .. d - 1 /\ k \in 0 .. d - 1 /\ H \in HeapOf(d, E) /\ R \in HeapOf(d, E) /\ x \in Entry(E)
  BY DEF HoleAt, Lowered
<1>2. c \in k + 1 .. d - 1 /\ c \in 0 .. d - 1 /\ ThParent(c) = k /\ \A j \in 1 .. d - 1 : ThParent(j) = k => H.b[c].tm <= H.b[j].tm
  <2> HIDE DEF y, Z
  <2> QED BY <1>1, FirstIs
<1>3. Lowered(H, R, d, E, c, x) /\ ~(H.b[c].tm > x.tm)
  OBVIOUS
<1> HIDE DEF c
<1>4. y \in Entry(E)
  BY <1>1, <1>2 DEF HeapOf
<1>5. /\ Z \in HeapOf(d, E)
      /\ Z.b[k] = y
      /\ \A j \in 0 .. d - 1 : j # k => Z.b[j] = R.b[j]
      /\ Z.pos[y.el] = k
      /\ \A e \in E : e # y.el => Z.pos[e] = R.pos[e]
  <2> HIDE DEF y
  <2>1. PutAt(R, k, y, d, E, Z)
    BY <1>1, <1>4, PutIs
  <2> QED BY <2>1 DEF PutAt
<1>6. \A j \in 1 .. d - 1 : ThParent(j) > k => H.b[ThParent(j)].tm <= H.b[j].tm
  <2>1. \A j \in 1 .. d - 1 : ThParent(j) > k => j # n
    BY <1>1, ParentIs
  <2> QED BY <1>1, <2>1, ParentIs DEF HoleAt
<1>7. \A j \in 0 .. d - 1 : H.b[j].tm \in Nat /\ H.b[j].el \in E
  BY <1>1 DEF HeapOf, Entry
<1>8. \A j \in 0 .. d - 1 : R.b[j].tm \in Nat /\ R.b[j].el \in E
  BY <1>1 DEF HeapOf, Entry
<1>9. x.tm \in Nat /\ x.el \in E
  BY <1>1 DEF Entry
<1>10. y.tm <= R.b[c].tm
  <2>1. CASE R.b[c] = x
    BY <2>1, <1>3, <1>7, <1>9, <1>2
  <2>2. CASE \E i \in 1 .. d - 1 : ThParent(i) = c /\ R.b[c] = H.b[i]
    BY <2>2, <1>6, <1>2
  <2> QED BY <2>1, <2>2, <1>3 DEF Lowered
<1>11. \A j \in 0 .. d - 1 : j < k => Z.b[j] = H.b[j]
  BY <1>5, <1>1, <1>2, <1>3 DEF Lowered
<1>12. \A j \in 0 .. d - 1 : j > k => H.b[j].tm <= R.b[j].tm
  <2> SUFFICES ASSUME NEW j \in 0 .. d - 1, j > k PROVE H.b[j].tm <= R.b[j].tm
    OBVIOUS
  <2>1. CASE j < c
    BY <2>1, <1>3, <1>7 DEF Lowered
  <2>2. CASE j = c
    BY <2>2, <1>10
  <2>3. CASE j > c
    BY <2>3, <1>3 DEF Lowered
  <2> QED BY <2>1, <2>2, <2>3, <1>2
<1>13. \A j \in 0 .. d - 1 : j > k => H.b[j].tm <= Z.b[j].tm
  <2> HIDE DEF Z
  <2> QED BY <1>5, <1>12
<1>14. \A j \in 1 .. d - 1 : ThParent(j) >= k => Z.b[ThParent(j)].tm <= Z.b[j].tm
  <2> SUFFICES ASSUME NEW j \in 1 .. d - 1, ThParent(j) >= k PROVE Z.b[ThParent(j)].tm <= Z.b[j].tm
    OBVIOUS
  <2> HIDE DEF Z
  <2>1. ThParent(j) \in 0 .. d - 1 /\ ThParent(j) < j /\ j \in 0 .. d - 1 /\ j # k
    BY <1>1, ParentIs
  <2>2. Z.b[j] = R.b[j]
    BY <2>1, <1>5
  <2>3. CASE ThParent(j) = k
    <3>1. H.b[c].tm <= H.b[j].tm /\ H.b[j].tm <= R.b[j].tm
      BY <2>1, <2>3, <1>2, <1>12
    <3> QED BY <2>1, <2>2, <2>3, <3>1, <1>2, <1>5, <1>7, <1>8
  <2>4. CASE ThParent(j) > k /\ ThParent(j) < c
    <3>1. Z.b[ThParent(j)] = H.b[ThParent(j)]
      BY <2>1, <2>4, <1>5, <1>3 DEF Lowered
    <3>2. H.b[ThParent(j)].tm <= H.b[j].tm /\ H.b[j].tm <= R.b[j].tm
      BY <2>1, <2>4, <1>6, <1>12, <1>1
    <3> QED BY <2>1, <2>2, <3>1, <3>2, <1>7, <1>8
  <2>5. CASE ThParent(j) >= c
    <3>1. R.b[ThParent(j)].tm <= R.b[j].tm
      BY <2>5, <1>3 DEF Lowered
    <3>2. Z.b[ThParent(j)] = R.b[ThParent(j)]
      BY <2>1, <2>5, <1>5, <1>2
    <3> QED BY <2>2, <3>1, <3>2
  <2> QED BY <2>1, <2>3, <2>4, <2>5, <1>1, <1>2
<1>15. Exchanged(H, Z, E, k .. d - 1, k, x)
  <2> HIDE DEF Z
  <2>1. Exchanged(H, R, E, c .. d - 1, c, x)
    BY <1>3 DEF Lowered
  <2>2. \A i \in k + 1 .. d - 1 : H.pos[H.b[i].el] = i /\ H.b[i].el # x.el
    BY <1>1 DEF HoleAt
  <2>3. \A j \in c .. d - 1 : R.b[j].el # y.el
    BY <2>1, <2>2, <1>2 DEF Exchanged
  <2>4. \A j \in k + 1 .. d - 1 : j < c => Z.b[j] = H.b[j]
    BY <1>1, <1>3, <1>5 DEF Lowered
  <2>5. \A j \in c .. d - 1 : Z.b[j] = R.b[j]
    BY <1>1, <1>2, <1>5
  <2>6. \A j \in k .. d - 1 : Z.b[j] = x \/ \E i \in k .. d - 1 : i # k /\ Z.b[j] = H.b[i]
    <3> SUFFICES ASSUME NEW j \in k .. d - 1 PROVE Z.b[j] = x \/ \E i \in k .. d - 1 : i # k /\ Z.b[j] = H.b[i]
      OBVIOUS
    <3>1. CASE j >= c
      BY <3>1, <2>5, <2>1, <1>2 DEF Exchanged
    <3>2. CASE k < j /\ j < c
      BY <3>2, <2>4, <1>1
    <3>3. CASE j = k
      BY <3>3, <1>5, <1>2
    <3> QED BY <3>1, <3>2, <3>3, <1>1, <1>2
  <2>7. \E j \in k .. d - 1 : Z.b[j] = x
    BY <2>1, <2>5, <1>1, <1>2 DEF Exchanged
  <2>8. \A i \in k .. d - 1 : i # k => \E j \in k .. d - 1 : Z.b[j] = H.b[i]
    <3> SUFFICES ASSUME NEW i \in k .. d - 1, i # k PROVE \E j \in k .. d - 1 : Z.b[j] = H.b[i]
      OBVIOUS
    <3>1. CASE i > c
      BY <3>1, <2>5, <2>1, <1>2 DEF Exchanged
    <3>2. CASE i = c
      BY <3>2, <1>5, <1>1
    <3>3. CASE i < c
      BY <3>3, <2>4, <1>1
    <3> QED BY <3>1, <3>2, <3>3, <1>1, <1>2
  <2>9. \A j \in k .. d - 1 : Z.pos[Z.b[j].el] = j
    <3> SUFFICES ASSUME NEW j \in k .. d - 1 PROVE Z.pos[Z.b[j].el] = j
      OBVIOUS
    <3>1. CASE j >= c
      <4>1. Z.b[j] = R.b[j] /\ R.b[j].el # y.el /\ R.b[j].el \in E
        BY <3>1, <2>3, <2>5, <1>8, <1>1
      <4>2. R.pos[R.b[j].el] = j
        BY <3>1, <2>1 DEF Exchanged
      <4> QED BY <4>1, <4>2, <1>5
    <3>2. CASE k < j /\ j < c
      <4>1. Z.b[j] = H.b[j] /\ H.b[j].el # y.el /\ H.b[j].el \in E
        BY <3>2, <2>2, <2>4, <1>7, <1>1, <1>2
      <4>2. H.pos[H.b[j].el] = j /\ H.b[j].el # x.el
        BY <3>2, <2>2, <1>1
      <4>3. R.pos[H.b[j].el] = H.pos[H.b[j].el]
        <5>1. \A i \in c .. d - 1 : R.b[i].el # H.b[j].el
          BY <3>2, <4>2, <2>1, <2>2, <1>1, <1>2 DEF Exchanged
        <5> QED BY <5>1, <4>1, <2>1 DEF Exchanged
      <4> QED BY <4>1, <4>2, <4>3, <1>5
    <3>3. CASE j = k
      BY <3>3, <1>5
    <3> QED BY <3>1, <3>2, <3>3, <1>1, <1>2
  <2>10. \A e \in E : Z.pos[e] # H.pos[e] => \E j \in k .. d - 1 : Z.b[j].el = e
    <3> SUFFICES ASSUME NEW e \in E, Z.pos[e] # H.pos[e] PROVE \E j \in k .. d - 1 : Z.b[j].el = e
      OBVIOUS
    <3>1. CASE e = y.el
      BY <3>1, <1>5, <1>1
    <3>2. CASE e # y.el
      <4>1. PICK j \in c .. d - 1 : R.b[j].el = e
        BY <3>2, <1>5, <2>1 DEF Exchanged
      <4> QED BY <4>1, <2>5, <1>1, <1>2
    <3> QED BY <3>1, <3>2
  <2> HIDE DEF y
  <2> QED BY <2>6, <2>7, <2>8, <2>9, <2>10 DEF Exchanged
<1>16. Lowered(H, Z, d, E, k, x)
  <2>1. Z.b[k] = H.b[c] /\ ThParent(c) = k /\ c \in 1 .. d - 1
    BY <1>1, <1>2, <1>5
  <2> HIDE DEF Z, y
  <2> QED BY <1>5, <1>11, <1>13, <1>14, <1>15, <2>1 DEF Lowered
<1> QED BY <1>16 DEF c

\* The last turn: x stays where it is.
LEMMA LowerStays ==
  ASSUME NEW E, NEW d \in Nat, NEW n, NEW x, NEW H, HoleAt(H, d, E, n, x),
         NEW k \in n .. d - 1, 2 * k + 1 >= d \/ H.b[FirstChild(H, d, k)].tm > x.tm
  PROVE  Lowered(H, Put(H, k, x), d, E, k, x)
<1> DEFINE Z == Put(H, k, x)
<1>1. n \in 0 .. d - 1 /\ k \in 0 .. d - 1 /\ H \in HeapOf(d, E) /\ x \in Entry(E)
  BY DEF HoleAt
<1>2. PutAt(H, k, x, d, E, Z)
  BY <1>1, PutIs
<1> HIDE DEF Z
<1>3. Z \in HeapOf(d, E) /\ Z.b[k] = x /\ \A j \in 0 .. d - 1 : j # k => Z.b[j] = H.b[j]
  BY <1>2 DEF PutAt
<1>4. \A j \in 0 .. d - 1 : H.b[j].tm \in Nat /\ H.b[j].el \in E
  BY <1>1 DEF HeapOf, Entry
<1>5. \A j \in 1 .. d - 1 : ThParent(j) = k => x.tm <= H.b[j].tm
  <2> DEFINE c == FirstChild(H, d, k)
  <2>1. CASE 2 * k + 1 >= d
    BY <2>1, <1>1, FirstIs
  <2>2. CASE 2 * k + 1 < d
    <3>1. c \in 0 .. d - 1 /\ \A j \in 1 .. d - 1 : ThParent(j) = k => H.b[c].tm <= H.b[j].tm
      BY <2>2, <1>1, FirstIs
    <3>2. H.b[c].tm > x.tm
      BY <2>2, <1>1
    <3> HIDE DEF c
    <3>3. x.tm \in Nat
      BY <1>1 DEF Entry
    <3> QED BY <3>1, <3>2, <3>3, <1>4
  <2> QED BY <2>1, <2>2, <1>1
<1>6. \A j \in 1 .. d - 1 : ThParent(j) >= k => Z.b[ThParent(j)].tm <= Z.b[j].tm
  <2> SUFFICES ASSUME NEW j \in 1 .. d - 1, ThParent(j) >= k PROVE Z.b[ThParent(j)].tm <= Z.b[j].tm
    OBVIOUS
  <2>1. ThParent(j) \in 0 .. d - 1 /\ ThParent(j) < j /\ j \in 0 .. d - 1 /\ j # k
    BY <1>1, ParentIs
  <2>2. CASE ThParent(j) = k
    BY <2>1, <2>2, <1>3, <1>5
  <2>3. CASE ThParent(j) > k
    <3>1. H.b[ThParent(j)].tm <= H.b[j].tm
      BY <2>1, <2>3, <1>1 DEF HoleAt
    <3> QED BY <2>1, <2>3, <3>1, <1>3
  <2> QED BY <2>1, <2>2, <2>3, <1>1
<1>7. Exchanged(H, Z, E, k .. d - 1, k, x)
  <2>1. \A j \in k + 1 .. d - 1 : Z.b[j] = H.b[j] /\ H.b[j].el # x.el /\ H.pos[H.b[j].el] = j
    BY <1>1, <1>3 DEF HoleAt
  <2>2. \A j \in k .. d - 1 : Z.pos[Z.b[j].el] = j
    BY <2>1, <1>1, <1>2, <1>4 DEF PutAt
  <2>3. \A e \in E : Z.pos[e] # H.pos[e] => \E j \in k .. d - 1 : Z.b[j].el = e
    BY <1>1, <1>2 DEF PutAt
  <2> QED BY <2>1, <2>2, <2>3, <1>1, <1>3 DEF Exchanged
<1>8. \A j \in 0 .. d - 1 : j # k => H.b[j].tm <= Z.b[j].tm
  BY <1>3, <1>4
<1>9. Lowered(H, Z, d, E, k, x)
  BY <1>1, <1>3, <1>6, <1>7, <1>8 DEF Lowered
<1> QED BY <1>9 DEF Z

\* thlower() puts x somewhere below, and moves what was there up.
LEMMA LowerIs ==
  ASSUME NEW E, NEW d \in Nat, NEW n, NEW x, NEW H, HoleAt(H, d, E, n, x)
  PROVE  Lowered(H, ThLower(H, x, n), d, E, n, x)
<1> DEFINE f == CHOOSE g : Lowers(H, x, d, 0, g)
           Bad == {l \in 0 .. d - 1 - n : ~Lowered(H, f[d - 1 - l], d, E, d - 1 - l, x)}
<1>1. n \in Nat /\ n \in 0 .. d - 1 /\ Size(H) = d /\ H \in HeapOf(d, E)
  BY SizeIs DEF HoleAt
<1>2. Lowers(H, x, d, 0, f)
  BY <1>1, LowerEnds
<1>3. f[n] = ThLower(H, x, n)
  BY <1>1 DEF ThLower, Lowers, FirstChild
<1> HIDE DEF f
<1> DEFINE c(k) == FirstChild(H, d, k)
<1>4. \A k \in 0 .. d - 1 : IF 2 * k + 1 >= d \/ H.b[c(k)].tm > x.tm
                            THEN f[k] = Put(H, k, x)
                            ELSE f[k] = Put(f[c(k)], k, H.b[c(k)])
  BY <1>2 DEF Lowers
<1>5. Bad = {}
  <2> SUFFICES ASSUME Bad # {} PROVE FALSE
    OBVIOUS
  <2>1. PICK l \in Bad : \A j \in Bad : l <= j
    <3>1. Bad \in SUBSET Nat
      OBVIOUS
    <3> HIDE DEF Bad
    <3> QED BY <3>1, LeastOf
  <2> DEFINE k == d - 1 - l
  <2>2. l \in 0 .. d - 1 - n /\ k \in n .. d - 1 /\ k \in 0 .. d - 1 /\ ~Lowered(H, f[k], d, E, k, x)
    BY <2>1, <1>1
  <2>3. \A i \in n .. d - 1 : i > k => Lowered(H, f[i], d, E, i, x)
    <3> SUFFICES ASSUME NEW i \in n .. d - 1, i > k PROVE Lowered(H, f[i], d, E, i, x)
      OBVIOUS
    <3>1. d - 1 - i \in 0 .. d - 1 - n /\ d - 1 - i < l /\ d - 1 - (d - 1 - i) = i
      BY <1>1, <2>2
    <3>2. d - 1 - i \notin Bad
      <4> HIDE DEF Bad
      <4> QED BY <2>1, <2>2, <3>1
    <3> QED BY <3>1, <3>2
  <2> HIDE DEF k, Bad
  <2>4. CASE 2 * k + 1 >= d \/ H.b[c(k)].tm > x.tm
    <3>1. f[k] = Put(H, k, x)
      BY <2>2, <2>4, <1>4
    <3> QED BY <2>2, <2>4, <3>1, LowerStays
  <2>5. CASE ~(2 * k + 1 >= d) /\ ~(H.b[c(k)].tm > x.tm)
    <3>1. f[k] = Put(f[c(k)], k, H.b[c(k)])
      BY <2>2, <2>5, <1>4
    <3>2. 2 * k + 1 < d
      BY <2>2, <2>5
    <3>3. c(k) \in k + 1 .. d - 1
      BY <1>1, <2>2, <3>2, FirstIs
    <3>4. Lowered(H, f[c(k)], d, E, c(k), x)
      <4> HIDE DEF c
      <4> QED BY <2>3, <2>2, <3>3, <1>1
    <3>5. Lowered(H, Put(f[c(k)], k, H.b[c(k)]), d, E, k, x)
      BY <2>2, <2>5, <3>2, <3>4, LowerStep
    <3> QED BY <2>2, <3>1, <3>5
  <2> QED BY <2>4, <2>5
<1>6. d - 1 - n \in 0 .. d - 1 - n /\ d - 1 - (d - 1 - n) = n
  BY <1>1
<1>7. Lowered(H, f[n], d, E, n, x)
  BY <1>5, <1>6
<1> QED BY <1>3, <1>7

-----------------------------------------------------------------------------
(* What both do.                                                           *)

Others(H, d, n) == {H.b[j] : j \in (0 .. d - 1) \ {n}}

\* Entries that only change places leave the content, and every thpos right.
LEMMA ExchangeFills ==
  ASSUME NEW E, NEW d \in Nat, NEW n, NEW x, NEW H, HoleAt(H, d, E, n, x),
         NEW R \in HeapOf(d, E), NEW S \in SUBSET (0 .. d - 1), n \in S,
         \A j \in (0 .. d - 1) \ S : R.b[j] = H.b[j],
         Exchanged(H, R, E, S, n, x)
  PROVE  /\ Content(R) = Others(H, d, n) \cup {x}
         /\ \A j \in DOMAIN R.b : R.pos[R.b[j].el] = j
         /\ \A e \in DOMAIN R.pos : R.pos[e] >= 0 => R.pos[e] \in DOMAIN R.b /\ R.b[R.pos[e]].el = e
<1>1. H \in HeapOf(d, E) /\ x \in Entry(E) /\ n \in 0 .. d - 1
  BY DEF HoleAt
<1>2. DOMAIN R.b = 0 .. d - 1 /\ DOMAIN R.pos = E
  BY DEF HeapOf
<1>3. \A j \in 0 .. d - 1 : R.b[j].el \in E /\ H.b[j].el \in E
  BY <1>1 DEF HeapOf, Entry
<1>4. \A j \in 0 .. d - 1 : R.b[j] \in Others(H, d, n) \cup {x}
  <2> SUFFICES ASSUME NEW j \in 0 .. d - 1 PROVE R.b[j] \in Others(H, d, n) \cup {x}
    OBVIOUS
  <2>1. CASE j \in S
    BY <2>1 DEF Exchanged, Others
  <2>2. CASE j \notin S
    BY <2>2 DEF Others
  <2> QED BY <2>1, <2>2
<1>5. \A i \in 0 .. d - 1 : i # n => \E j \in 0 .. d - 1 : R.b[j] = H.b[i]
  <2> SUFFICES ASSUME NEW i \in 0 .. d - 1, i # n PROVE \E j \in 0 .. d - 1 : R.b[j] = H.b[i]
    OBVIOUS
  <2>1. CASE i \in S
    BY <2>1 DEF Exchanged
  <2>2. CASE i \notin S
    BY <2>2
  <2> QED BY <2>1, <2>2
<1>6. \E j \in 0 .. d - 1 : R.b[j] = x
  BY DEF Exchanged
<1>7. Content(R) = Others(H, d, n) \cup {x}
  <2>1. Content(R) = {R.b[j] : j \in 0 .. d - 1}
    BY <1>2 DEF Content
  <2>2. \A y \in Others(H, d, n) \cup {x} : \E j \in 0 .. d - 1 : R.b[j] = y
    BY <1>5, <1>6 DEF Others
  <2> QED BY <2>1, <2>2, <1>4
<1>8. \A j \in 0 .. d - 1 : R.pos[R.b[j].el] = j
  <2> SUFFICES ASSUME NEW j \in 0 .. d - 1 PROVE R.pos[R.b[j].el] = j
    OBVIOUS
  <2>1. CASE j \in S
    BY <2>1 DEF Exchanged
  <2>2. CASE j \notin S
    <3>1. R.b[j] = H.b[j] /\ j # n /\ H.pos[H.b[j].el] = j /\ H.b[j].el # x.el
      BY <2>2 DEF HoleAt
    <3>2. \A i \in S : R.b[i].el # H.b[j].el
      <4> SUFFICES ASSUME NEW i \in S, R.b[i].el = H.b[j].el PROVE FALSE
        OBVIOUS
      <4>1. PICK l \in S : l # n /\ R.b[i] = H.b[l]
        BY <3>1 DEF Exchanged
      <4>2. H.pos[H.b[l].el] = l
        BY <4>1 DEF HoleAt
      <4> QED BY <4>1, <4>2, <3>1, <2>2
    <3>3. R.pos[H.b[j].el] = H.pos[H.b[j].el]
      BY <3>2, <1>3 DEF Exchanged
    <3> QED BY <3>1, <3>3
  <2> QED BY <2>1, <2>2
<1>9. \A e \in E : R.pos[e] >= 0 => R.pos[e] \in 0 .. d - 1 /\ R.b[R.pos[e]].el = e
  <2> SUFFICES ASSUME NEW e \in E, R.pos[e] >= 0, ~\E j \in 0 .. d - 1 : R.b[j].el = e PROVE FALSE
    BY <1>8
  <2>1. R.pos[e] = H.pos[e]
    BY DEF Exchanged
  <2>2. e # x.el
    BY <1>6
  <2>3. H.pos[e] \in 0 .. d - 1 /\ H.pos[e] # n /\ H.b[H.pos[e]].el = e
    BY <2>1, <2>2 DEF HoleAt
  <2> QED BY <2>3, <1>5
<1> QED BY <1>2, <1>7, <1>8, <1>9

\* thraise() from a place whose children are no earlier makes a heap.
LEMMA RaiseFills ==
  ASSUME NEW E, NEW d \in Nat, NEW n, NEW x, NEW H, HoleAt(H, d, E, n, x),
         \A j \in 1 .. d - 1 : ThParent(j) = n => x.tm <= H.b[j].tm
  PROVE  GoodHeap(ThRaise(H, x, n), d, E) /\ Content(ThRaise(H, x, n)) = Others(H, d, n) \cup {x}
<1> DEFINE R == ThRaise(H, x, n)
<1>1. Raised(H, R, d, E, n, x)
  BY RaiseIs
<1> HIDE DEF R
<1>2. H \in HeapOf(d, E) /\ x \in Entry(E) /\ n \in 0 .. d - 1 /\ R \in HeapOf(d, E)
  BY <1>1 DEF HoleAt, Raised
<1>3. /\ Content(R) = Others(H, d, n) \cup {x}
      /\ \A j \in DOMAIN R.b : R.pos[R.b[j].el] = j
      /\ \A e \in DOMAIN R.pos : R.pos[e] >= 0 => R.pos[e] \in DOMAIN R.b /\ R.b[R.pos[e]].el = e
  <2>1. \A j \in (0 .. d - 1) \ (0 .. n) : R.b[j] = H.b[j]
    BY <1>1, <1>2 DEF Raised
  <2>2. Exchanged(H, R, E, 0 .. n, n, x)
    BY <1>1 DEF Raised
  <2>3. 0 .. n \in SUBSET (0 .. d - 1) /\ n \in 0 .. n
    BY <1>2
  <2> QED BY <1>2, <2>1, <2>2, <2>3, ExchangeFills
<1>4. \A j \in 0 .. d - 1 : H.b[j].tm \in Nat /\ R.b[j].tm \in Nat
  BY <1>2 DEF HeapOf, Entry
<1>5. \A j \in 1 .. d - 1 : R.b[ThParent(j)].tm <= R.b[j].tm
  <2> SUFFICES ASSUME NEW j \in 1 .. d - 1 PROVE R.b[ThParent(j)].tm <= R.b[j].tm
    OBVIOUS
  <2>1. ThParent(j) \in 0 .. d - 1 /\ ThParent(j) < j
    BY ParentIs
  <2>2. CASE j <= n
    BY <2>2, <1>1 DEF Raised
  <2>3. CASE j > n /\ ThParent(j) # n
    <3>1. R.b[j] = H.b[j] /\ H.b[ThParent(j)].tm <= H.b[j].tm
      BY <2>3, <1>1, <1>2 DEF Raised, HoleAt
    <3>2. R.b[ThParent(j)].tm <= H.b[ThParent(j)].tm
      BY <2>1, <2>3, <1>1, <1>2, <1>4 DEF Raised
    <3> QED BY <2>1, <3>1, <3>2, <1>4
  <2>4. CASE ThParent(j) = n
    <3>1. R.b[j] = H.b[j]
      BY <2>1, <2>4, <1>1 DEF Raised
    <3>2. CASE R.b[n] = x
      BY <2>4, <3>1, <3>2
    <3>3. CASE n > 0 /\ R.b[n] = H.b[ThParent(n)]
      BY <2>4, <3>1, <3>3 DEF HoleAt
    <3> QED BY <3>2, <3>3, <1>1 DEF Raised
  <2> QED BY <2>2, <2>3, <2>4, <1>2
<1>6. DOMAIN R.b \ {0} = 1 .. d - 1
  BY <1>2 DEF HeapOf
<1>7. GoodHeap(R, d, E)
  BY <1>2, <1>3, <1>5, <1>6 DEF GoodHeap, HeapOrdered
<1> QED BY <1>3, <1>7 DEF R

\* thlower() from a place whose parent is no later makes a heap.
LEMMA LowerFills ==
  ASSUME NEW E, NEW d \in Nat, NEW n, NEW x, NEW H, HoleAt(H, d, E, n, x),
         n > 0 => H.b[ThParent(n)].tm <= x.tm
  PROVE  GoodHeap(ThLower(H, x, n), d, E) /\ Content(ThLower(H, x, n)) = Others(H, d, n) \cup {x}
<1> DEFINE R == ThLower(H, x, n)
<1>1. Lowered(H, R, d, E, n, x)
  BY LowerIs
<1> HIDE DEF R
<1>2. H \in HeapOf(d, E) /\ x \in Entry(E) /\ n \in 0 .. d - 1 /\ R \in HeapOf(d, E)
  BY <1>1 DEF HoleAt, Lowered
<1>3. /\ Content(R) = Others(H, d, n) \cup {x}
      /\ \A j \in DOMAIN R.b : R.pos[R.b[j].el] = j
      /\ \A e \in DOMAIN R.pos : R.pos[e] >= 0 => R.pos[e] \in DOMAIN R.b /\ R.b[R.pos[e]].el = e
  <2>1. \A j \in (0 .. d - 1) \ (n .. d - 1) : R.b[j] = H.b[j]
    BY <1>1, <1>2 DEF Lowered
  <2>2. Exchanged(H, R, E, n .. d - 1, n, x)
    BY <1>1 DEF Lowered
  <2>3. n .. d - 1 \in SUBSET (0 .. d - 1) /\ n \in n .. d - 1
    BY <1>2
  <2> QED BY <1>2, <2>1, <2>2, <2>3, ExchangeFills
<1>4. \A j \in 0 .. d - 1 : H.b[j].tm \in Nat /\ R.b[j].tm \in Nat
  BY <1>2 DEF HeapOf, Entry
<1>5. \A j \in 0 .. d - 1 : j < n => R.b[j] = H.b[j]
  BY <1>1 DEF Lowered
<1>6. \A j \in 0 .. d - 1 : j > n => H.b[j].tm <= R.b[j].tm
  BY <1>1 DEF Lowered
<1>7. \A j \in 1 .. d - 1 : R.b[ThParent(j)].tm <= R.b[j].tm
  <2> SUFFICES ASSUME NEW j \in 1 .. d - 1 PROVE R.b[ThParent(j)].tm <= R.b[j].tm
    OBVIOUS
  <2>1. ThParent(j) \in 0 .. d - 1 /\ ThParent(j) < j
    BY ParentIs
  <2>2. CASE ThParent(j) >= n
    BY <2>2, <1>1 DEF Lowered
  <2>3. CASE ThParent(j) < n /\ j # n
    <3>1. R.b[ThParent(j)] = H.b[ThParent(j)] /\ H.b[ThParent(j)].tm <= H.b[j].tm
      BY <2>1, <2>3, <1>5 DEF HoleAt
    <3>2. H.b[j].tm <= R.b[j].tm
      <4>1. CASE j < n
        <5>1. R.b[j] = H.b[j]
          BY <1>5, <4>1
        <5> QED BY <5>1, <1>4
      <4>2. CASE j > n
        BY <1>6, <4>2
      <4> QED BY <2>3, <4>1, <4>2, <1>2
    <3> QED BY <2>1, <3>1, <3>2, <1>4
  <2>4. CASE j = n
    <3>1. R.b[ThParent(n)] = H.b[ThParent(n)] /\ n > 0
      BY <2>1, <2>4, <1>5
    <3>2. CASE R.b[n] = x
      BY <2>4, <3>1, <3>2
    <3>3. CASE \E c \in 1 .. d - 1 : ThParent(c) = n /\ R.b[n] = H.b[c]
      BY <2>4, <3>1, <3>3 DEF HoleAt
    <3> QED BY <3>2, <3>3, <1>1 DEF Lowered
  <2> QED BY <2>1, <2>2, <2>3, <2>4, <1>2
<1>8. DOMAIN R.b \ {0} = 1 .. d - 1
  BY <1>2 DEF HeapOf
<1>9. GoodHeap(R, d, E)
  BY <1>2, <1>3, <1>7, <1>8 DEF GoodHeap, HeapOrdered
<1> QED BY <1>3, <1>9 DEF R

-----------------------------------------------------------------------------
(* addtimeout() and deltimeout().                                          *)

\* The elements of a heap.
Timed(H) == {H.b[j].el : j \in DOMAIN H.b}

\* The heap that a program starts with.
LEMMA EmptyIsHeap == ASSUME NEW E PROVE GoodHeap(EmptyHeap(E), 0, E) /\ Content(EmptyHeap(E)) = {}
BY DEF EmptyHeap, GoodHeap, HeapOrdered, HeapOf, Content

\* A parent is no later than its child.
LEMMA OrderIs ==
  ASSUME NEW E, NEW d \in Nat, NEW H, GoodHeap(H, d, E), NEW j \in 1 .. d - 1
  PROVE  H.b[ThParent(j)].tm <= H.b[j].tm /\ ThParent(j) \in 0 .. d - 1 /\ ThParent(j) < j
<1>1. j \in DOMAIN H.b \ {0}
  BY DEF GoodHeap, HeapOf
<1>2. H.b[ThParent(j)].tm <= H.b[j].tm
  BY <1>1 DEF GoodHeap, HeapOrdered
<1> QED BY <1>2, ParentIs

\* Adding an element keeps the heap in order and adds that one.
LEMMA AddKeeps ==
  ASSUME NEW E, NEW d \in Nat, NEW H, GoodHeap(H, d, E), NEW x \in Entry(E), x.el \notin Timed(H)
  PROVE  GoodHeap(ThAdd(H, x), d + 1, E) /\ Content(ThAdd(H, x)) = Content(H) \cup {x}
<1> DEFINE G == [b |-> [j \in 0 .. d |-> IF j < d THEN H.b[j] ELSE x], pos |-> H.pos]
<1>1. H \in HeapOf(d, E) /\ DOMAIN H.b = 0 .. d - 1 /\ DOMAIN H.pos = E /\ Size(H) = d
  BY SizeIs DEF GoodHeap, HeapOf
<1>2. ThAdd(H, x) = ThRaise(G, x, d)
  BY <1>1 DEF ThAdd
<1>3. /\ G \in HeapOf(d + 1, E) /\ G.pos = H.pos
      /\ \A j \in 0 .. d - 1 : G.b[j] = H.b[j]
  <2> DEFINE a == [j \in 0 .. d |-> IF j < d THEN H.b[j] ELSE x]
  <2>1. d + 1 - 1 = d
    OBVIOUS
  <2>2. G = [b |-> a, pos |-> H.pos]
    OBVIOUS
  <2>3. \A j \in 0 .. d : a[j] \in Entry(E)
    BY <1>1 DEF HeapOf
  <2>4. a \in [0 .. d -> Entry(E)] /\ H.pos \in [E -> Int] /\ \A j \in 0 .. d - 1 : a[j] = H.b[j]
    BY <1>1, <2>3 DEF HeapOf
  <2> HIDE DEF a
  <2> QED BY <2>1, <2>2, <2>4 DEF HeapOf
<1> HIDE DEF G
<1>4. HoleAt(G, d + 1, E, d, x)
  <2>1. \A j \in 1 .. d : ThParent(j) # d /\ (j # d => H.b[ThParent(j)].tm <= H.b[j].tm)
    <3>1. \A j \in 1 .. d : ThParent(j) # d
      BY ParentIs
    <3>2. \A j \in 1 .. d : j # d => j \in 1 .. d - 1
      OBVIOUS
    <3> QED BY <3>1, <3>2, OrderIs
  <2>2. \A j \in 1 .. d : ThParent(j) \in 0 .. d - 1
    BY ParentIs
  <2>3. \A j \in 1 .. d : j # d => G.b[ThParent(j)].tm <= G.b[j].tm
    BY <2>1, <2>2, <1>3
  <2>4. \A j \in 0 .. d : j # d => G.pos[G.b[j].el] = j /\ G.b[j].el # x.el
    BY <1>1, <1>3 DEF GoodHeap, HeapOrdered, Timed
  <2>5. \A e \in E : e # x.el /\ G.pos[e] >= 0 => G.pos[e] \in 0 .. d /\ G.pos[e] # d /\ G.b[G.pos[e]].el = e
    <3> SUFFICES ASSUME NEW e \in E, H.pos[e] >= 0 PROVE H.pos[e] \in 0 .. d - 1 /\ H.b[H.pos[e]].el = e
      BY <1>3
    <3> QED BY <1>1 DEF GoodHeap, HeapOrdered
  <2>6. d + 1 - 1 = d /\ d \in 0 .. d
    OBVIOUS
  <2> QED BY <1>3, <2>1, <2>3, <2>4, <2>5, <2>6 DEF HoleAt
<1>5. \A j \in 1 .. d + 1 - 1 : ThParent(j) # d
  BY ParentIs
<1>6. GoodHeap(ThRaise(G, x, d), d + 1, E) /\ Content(ThRaise(G, x, d)) = Others(G, d + 1, d) \cup {x}
  <2>1. \A j \in 1 .. d + 1 - 1 : ThParent(j) = d => x.tm <= G.b[j].tm
    BY <1>5
  <2>2. d + 1 \in Nat
    OBVIOUS
  <2> QED BY <1>4, <2>1, <2>2, RaiseFills
<1>7. Others(G, d + 1, d) = Content(H)
  <2>1. (0 .. d + 1 - 1) \ {d} = 0 .. d - 1
    OBVIOUS
  <2>2. Others(G, d + 1, d) = {G.b[j] : j \in 0 .. d - 1}
    BY <2>1 DEF Others
  <2>3. Content(H) = {H.b[j] : j \in 0 .. d - 1}
    BY <1>1 DEF Content
  <2> QED BY <2>2, <2>3, <1>3
<1> QED BY <1>2, <1>6, <1>7

\* thadjust() makes a heap, whichever way the element has to go.
LEMMA AdjustFills ==
  ASSUME NEW E, NEW d \in Nat, NEW n, NEW x, NEW H, HoleAt(H, d, E, n, x)
  PROVE  GoodHeap(ThAdjust(H, x, n), d, E) /\ Content(ThAdjust(H, x, n)) = Others(H, d, n) \cup {x}
<1>1. n \in 0 .. d - 1 /\ x.tm \in Nat /\ \A j \in 0 .. d - 1 : H.b[j].tm \in Nat
  BY DEF HoleAt, HeapOf, Entry
<1>2. CASE n > 0 /\ H.b[ThParent(n)].tm > x.tm
  <2>1. ThParent(n) \in 0 .. d - 1
    BY <1>1, <1>2, ParentIs
  <2>2. \A j \in 1 .. d - 1 : ThParent(j) = n => x.tm <= H.b[j].tm
    BY <1>1, <1>2, <2>1 DEF HoleAt
  <2>3. ThAdjust(H, x, n) = ThRaise(H, x, n)
    BY <1>2 DEF ThAdjust
  <2> QED BY <2>2, <2>3, RaiseFills
<1>3. CASE ~(n > 0 /\ H.b[ThParent(n)].tm > x.tm)
  <2>1. n > 0 => H.b[ThParent(n)].tm <= x.tm
    <3> SUFFICES ASSUME n > 0 PROVE H.b[ThParent(n)].tm <= x.tm
      OBVIOUS
    <3>1. ThParent(n) \in 0 .. d - 1
      BY <1>1, ParentIs
    <3> QED BY <1>1, <1>3, <3>1
  <2>2. ThAdjust(H, x, n) = ThLower(H, x, n)
    BY <1>3 DEF ThAdjust
  <2> QED BY <2>1, <2>2, LowerFills
<1> QED BY <1>2, <1>3

\* Removing an element keeps the heap in order and removes that one.
LEMMA DelKeeps ==
  ASSUME NEW E, NEW d \in Nat, NEW H, GoodHeap(H, d, E), NEW el \in Timed(H)
  PROVE  /\ d > 0 /\ GoodHeap(ThDel(H, el), d - 1, E)
         /\ Content(ThDel(H, el)) = {x \in Content(H) : x.el # el}
<1> DEFINE n == H.pos[el]
           L == H.b[d - 1]
           G == [b |-> [k \in 0 .. d - 2 |-> H.b[k]], pos |-> [H.pos EXCEPT ![el] = -1]]
<1>1. H \in HeapOf(d, E) /\ DOMAIN H.b = 0 .. d - 1 /\ DOMAIN H.pos = E /\ Size(H) = d
  BY SizeIs DEF GoodHeap, HeapOf
<1>2. \A j \in 0 .. d - 1 : H.b[j] \in Entry(E) /\ H.b[j].el \in E /\ H.b[j].tm \in Nat /\ H.pos[H.b[j].el] = j
  BY <1>1 DEF GoodHeap, HeapOrdered, HeapOf, Entry
<1>3. d > 0 /\ n \in 0 .. d - 1 /\ H.b[n].el = el /\ el \in E
  <2>1. PICK j \in 0 .. d - 1 : H.b[j].el = el
    BY <1>1 DEF Timed
  <2> QED BY <2>1, <1>2
<1>4. /\ G \in HeapOf(d - 1, E) /\ G.pos[el] = -1
      /\ \A j \in 0 .. d - 2 : G.b[j] = H.b[j]
      /\ \A e \in E : e # el => G.pos[e] = H.pos[e]
  <2>1. d - 1 - 1 = d - 2
    BY <1>3
  <2> QED BY <1>1, <1>3, <2>1 DEF HeapOf
<1>5. ThDel(H, el) = IF n = d - 1 THEN G ELSE ThAdjust(G, L, n)
  BY <1>1 DEF ThDel
<1>6. \A j \in 0 .. d - 1 : H.b[j].el = el => j = n
  BY <1>2
<1>7. \A e \in E : H.pos[e] >= 0 => H.pos[e] \in 0 .. d - 1 /\ H.b[H.pos[e]].el = e
  BY <1>1 DEF GoodHeap, HeapOrdered
<1>8. \A j \in 1 .. d - 1 : H.b[ThParent(j)].tm <= H.b[j].tm /\ ThParent(j) \in 0 .. d - 1 /\ ThParent(j) < j
  BY OrderIs
<1>9. DOMAIN G.b = 0 .. d - 2 /\ DOMAIN G.pos = E
  BY <1>1
<1> HIDE DEF n, G
<1>10. {x \in Content(H) : x.el # el} = {H.b[j] : j \in (0 .. d - 1) \ {n}}
  <2>1. Content(H) = {H.b[j] : j \in 0 .. d - 1}
    BY <1>1 DEF Content
  <2> QED BY <2>1, <1>3, <1>6
<1>11. CASE n = d - 1
  <2>1. Content(G) = {H.b[j] : j \in (0 .. d - 1) \ {n}}
    <3>1. (0 .. d - 1) \ {n} = 0 .. d - 2
      BY <1>11, <1>3
    <3>2. Content(G) = {G.b[j] : j \in 0 .. d - 2}
      BY <1>9 DEF Content
    <3> QED BY <3>1, <3>2, <1>4
  <2>2. \A j \in 1 .. d - 2 : G.b[ThParent(j)].tm <= G.b[j].tm
    BY <1>4, <1>8, <1>3
  <2>3. \A j \in 0 .. d - 2 : G.pos[G.b[j].el] = j
    BY <1>4, <1>2, <1>6, <1>11
  <2>4. \A e \in E : G.pos[e] >= 0 => G.pos[e] \in 0 .. d - 2 /\ G.b[G.pos[e]].el = e
    <3> SUFFICES ASSUME NEW e \in E, G.pos[e] >= 0 PROVE G.pos[e] \in 0 .. d - 2 /\ G.b[G.pos[e]].el = e
      OBVIOUS
    <3>1. e # el /\ G.pos[e] = H.pos[e]
      BY <1>4
    <3>2. H.pos[e] \in 0 .. d - 1 /\ H.b[H.pos[e]].el = e /\ H.pos[e] # d - 1
      BY <3>1, <1>7, <1>3, <1>11
    <3> QED BY <3>1, <3>2, <1>4, <1>3
  <2>5. GoodHeap(G, d - 1, E)
    <3>1. DOMAIN G.b \ {0} = 1 .. d - 2
      BY <1>9
    <3> QED BY <1>4, <1>9, <2>2, <2>3, <2>4, <3>1 DEF GoodHeap, HeapOrdered
  <2> QED BY <2>1, <2>5, <1>3, <1>5, <1>10, <1>11
<1>12. CASE n # d - 1
  <2> DEFINE c == d - 1
  <2>1. c \in Nat /\ n \in 0 .. c - 1 /\ c - 1 = d - 2 /\ L \in Entry(E) /\ L.el # el /\ L.el \in E
    BY <1>12, <1>2, <1>3, <1>6
  <2>2. HoleAt(G, c, E, n, L)
    <3>1. \A j \in 1 .. c - 1 : ThParent(j) \in 0 .. c - 1 /\ j \in 0 .. c - 1
      BY <1>8, <2>1
    <3>2. \A j \in 1 .. c - 1 : G.b[ThParent(j)].tm <= G.b[j].tm \/ j = n \/ ThParent(j) = n
      BY <1>4, <1>8, <2>1, <3>1
    <3>3. \A j \in 1 .. c - 1 : ThParent(j) = n /\ n > 0 => G.b[ThParent(n)].tm <= G.b[j].tm
      <4> SUFFICES ASSUME NEW j \in 1 .. c - 1, ThParent(j) = n, n > 0 PROVE G.b[ThParent(n)].tm <= G.b[j].tm
        OBVIOUS
      <4>1. n \in 1 .. d - 1 /\ H.b[ThParent(n)].tm <= H.b[n].tm /\ H.b[n].tm <= H.b[j].tm /\ ThParent(n) \in 0 .. d - 2
        BY <1>8, <2>1, ParentIs
      <4>2. G.b[ThParent(n)] = H.b[ThParent(n)] /\ G.b[j] = H.b[j]
        BY <4>1, <1>4, <2>1
      <4> QED BY <4>1, <4>2, <1>2, <2>1
    <3>4. \A j \in 0 .. c - 1 : j # n => G.pos[G.b[j].el] = j /\ G.b[j].el # L.el
      <4> SUFFICES ASSUME NEW j \in 0 .. c - 1, j # n PROVE G.pos[G.b[j].el] = j /\ G.b[j].el # L.el
        OBVIOUS
      <4>1. G.b[j] = H.b[j] /\ H.b[j].el \in E /\ H.b[j].el # el /\ H.pos[H.b[j].el] = j
        BY <1>2, <1>4, <1>6, <2>1
      <4>2. H.pos[L.el] = d - 1
        BY <1>2, <1>3
      <4> QED BY <4>1, <4>2, <1>4, <2>1
    <3>5. \A e \in E : e # L.el /\ G.pos[e] >= 0 => G.pos[e] \in 0 .. c - 1 /\ G.pos[e] # n /\ G.b[G.pos[e]].el = e
      <4> SUFFICES ASSUME NEW e \in E, e # L.el, G.pos[e] >= 0
                   PROVE  G.pos[e] \in 0 .. c - 1 /\ G.pos[e] # n /\ G.b[G.pos[e]].el = e
        OBVIOUS
      <4>1. e # el /\ G.pos[e] = H.pos[e]
        BY <1>4
      <4>2. H.pos[e] \in 0 .. d - 1 /\ H.b[H.pos[e]].el = e
        BY <4>1, <1>7
      <4> QED BY <4>1, <4>2, <1>3, <1>4, <2>1
    <3> HIDE DEF c
    <3> QED BY <1>4, <2>1, <3>2, <3>3, <3>4, <3>5 DEF HoleAt
  <2>3. GoodHeap(ThAdjust(G, L, n), c, E) /\ Content(ThAdjust(G, L, n)) = Others(G, c, n) \cup {L}
    <3> HIDE DEF c, L
    <3> QED BY <2>1, <2>2, AdjustFills
  <2>4. Others(G, c, n) \cup {L} = {H.b[j] : j \in (0 .. d - 1) \ {n}}
    <3>1. Others(G, c, n) = {H.b[j] : j \in (0 .. c - 1) \ {n}}
      <4>1. \A j \in (0 .. c - 1) \ {n} : G.b[j] = H.b[j]
        BY <1>4, <2>1
      <4> QED BY <4>1 DEF Others
    <3>2. (0 .. d - 1) \ {n} = ((0 .. c - 1) \ {n}) \cup {d - 1}
      BY <2>1, <1>12
    <3> QED BY <3>1, <3>2
  <2> QED BY <2>3, <2>4, <1>3, <1>5, <1>10, <1>12
<1> QED BY <1>3, <1>11, <1>12

-----------------------------------------------------------------------------
(* Lists of blockers.                                                      *)

\* A list of S, each once.
IsList(s, S) == s \in Seq(S) /\ IsInjective(s) /\ Range(s) = S

\* x comes before y in a list.
Before(s, x, y) == \E i, j \in DOMAIN s : i < j /\ s[i] = x /\ s[j] = y

\* What a list is, by its places.
LEMMA ListIs ==
  ASSUME NEW S, NEW s, IsList(s, S)
  PROVE  /\ Len(s) \in Nat /\ DOMAIN s = 1 .. Len(s)
         /\ \A i \in 1 .. Len(s) : s[i] \in S
         /\ \A i, j \in 1 .. Len(s) : s[i] = s[j] => i = j
         /\ \A x \in S : \E i \in 1 .. Len(s) : s[i] = x
         /\ \A x, y : Before(s, x, y) <=> \E i, j \in 1 .. Len(s) : i < j /\ s[i] = x /\ s[j] = y
<1>1. Len(s) \in Nat /\ DOMAIN s = 1 .. Len(s) /\ \A i \in 1 .. Len(s) : s[i] \in S
  BY LenProperties, ElementOfSeq DEF IsList
<1>2. \A i, j \in 1 .. Len(s) : s[i] = s[j] => i = j
  BY <1>1 DEF IsList, IsInjective
<1>3. \A x \in S : \E i \in 1 .. Len(s) : s[i] = x
  BY <1>1 DEF IsList, Range
<1> QED BY <1>1, <1>2, <1>3 DEF Before

\* A sequence without repetition that has all of S is a list of S.
LEMMA ListMade ==
  ASSUME NEW S, NEW s \in Seq(S),
         \A i, j \in 1 .. Len(s) : s[i] = s[j] => i = j,
         \A x \in S : \E i \in 1 .. Len(s) : s[i] = x
  PROVE  IsList(s, S)
<1>1. Len(s) \in Nat /\ DOMAIN s = 1 .. Len(s) /\ \A i \in 1 .. Len(s) : s[i] \in S
  BY LenProperties, ElementOfSeq
<1>2. Range(s) = S
  BY <1>1 DEF Range
<1> QED BY <1>1, <1>2 DEF IsList, IsInjective

\* The list of nothing.
LEMMA EmptyIsList == IsList(<<>>, {})
BY EmptySeq DEF IsList, IsInjective, Range

\* The order of a list is strict and total.
LEMMA BeforeOrders ==
  ASSUME NEW S, NEW s, IsList(s, S), NEW x \in S, NEW y \in S
  PROVE  /\ ~(Before(s, x, y) /\ Before(s, y, x)) /\ ~Before(s, x, x)
         /\ x # y => Before(s, x, y) \/ Before(s, y, x)
<1>1. PICK i, j \in 1 .. Len(s) : s[i] = x /\ s[j] = y
  BY ListIs
<1>2. Len(s) \in Nat
  BY ListIs
<1> QED BY SMTT(30), <1>1, <1>2, ListIs

\* Nothing is before the head.
LEMMA HeadIs ==
  ASSUME NEW S, NEW s, IsList(s, S)
  PROVE  /\ s = <<>> <=> S = {}
         /\ s # <<>> => /\ Head(s) \in S
                        /\ \A x : ~Before(s, x, Head(s))
<1>1. s \in Seq(S) /\ Len(s) \in Nat
  BY ListIs DEF IsList
<1>2. s = <<>> => S = {}
  BY ListIs, EmptySeq
<1>3. ASSUME s # <<>> PROVE Head(s) \in S /\ Head(s) = s[1] /\ 1 \in 1 .. Len(s)
  BY <1>1, <1>3, EmptySeq, HeadTailProperties
<1>4. s # <<>> => \A x : ~Before(s, x, Head(s))
  BY <1>3, ListIs
<1> QED BY <1>2, <1>3, <1>4

\* Before the element after r are r and what was before r.
LEMMA AfterIs ==
  ASSUME NEW S, NEW s, IsList(s, S), NEW z \in S, NoRef \notin S
  PROVE  LET a == After(s, z) IN
           /\ a \in (S \ {z}) \cup {NoRef}
           /\ a = NoRef => \A q \in S : q = z \/ Before(s, q, z)
           /\ a # NoRef => \A q \in S : Before(s, q, a) <=> (q = z \/ Before(s, q, z))
<1> DEFINE k == CHOOSE k \in DOMAIN s : s[k] = z
           a == After(s, z)
<1>1. k \in 1 .. Len(s) /\ s[k] = z /\ Len(s) \in Nat
  BY ListIs
<1>2. a = IF k = Len(s) THEN NoRef ELSE s[k + 1]
  BY DEF After
<1> HIDE DEF k, a
<1>3. \A i \in 1 .. Len(s) : s[i] \in S
  BY ListIs
<1>4. \A i, j \in 1 .. Len(s) : s[i] = s[j] => i = j
  BY ListIs
<1>5. \A q \in S : q = z \/ Before(s, q, z) <=> \E i \in 1 .. k : s[i] = q
  <2> SUFFICES ASSUME NEW q \in S PROVE q = z \/ Before(s, q, z) <=> \E i \in 1 .. k : s[i] = q
    OBVIOUS
  <2>1. Before(s, q, z) <=> \E i, j \in 1 .. Len(s) : i < j /\ s[i] = q /\ s[j] = z
    BY ListIs
  <2> QED BY <2>1, <1>1, <1>4
<1>6. CASE k = Len(s)
  <2>1. \A q \in S : \E i \in 1 .. Len(s) : s[i] = q
    BY ListIs
  <2> QED BY <1>2, <1>5, <1>6, <2>1 DEF a
<1>7. CASE k # Len(s)
  <2>1. k + 1 \in 1 .. Len(s) /\ a = s[k + 1] /\ a \in S /\ a # z /\ a # NoRef
    BY <1>1, <1>2, <1>3, <1>4, <1>7
  <2>2. \A q \in S : Before(s, q, a) <=> \E i \in 1 .. k : s[i] = q
    <3> SUFFICES ASSUME NEW q \in S PROVE Before(s, q, a) <=> \E i \in 1 .. k : s[i] = q
      OBVIOUS
    <3>1. Before(s, q, a) <=> \E i, j \in 1 .. Len(s) : i < j /\ s[i] = q /\ s[j] = a
      BY ListIs
    <3> QED BY <3>1, <2>1, <1>1, <1>4
  <2> QED BY <2>1, <2>2, <1>5 DEF a
<1> QED BY <1>6, <1>7

\* A list in front of another: its elements come first, and the order stays.
LEMMA ConcatIs ==
  ASSUME NEW S, NEW s, IsList(s, S), NEW T, NEW t, IsList(t, T), S \cap T = {}
  PROVE  /\ IsList(s \o t, S \cup T)
         /\ \A x \in S, y \in T : Before(s \o t, x, y)
         /\ \A x, y \in T : Before(s \o t, x, y) <=> Before(t, x, y)
<1> DEFINE u == s \o t
           U == S \cup T
<1>1. s \in Seq(U) /\ t \in Seq(U)
  BY SeqMonotonic DEF IsList
<1>2. u \in Seq(U) /\ Len(u) = Len(s) + Len(t) /\ Len(s) \in Nat /\ Len(t) \in Nat
  <2> HIDE DEF U
  <2> QED BY <1>1, ConcatProperties, LenProperties
<1>3. \A i \in 1 .. Len(u) : u[i] = IF i <= Len(s) THEN s[i] ELSE t[i - Len(s)]
  <2> HIDE DEF U
  <2> QED BY <1>1, <1>2, ConcatProperties
<1>4. \A i \in 1 .. Len(s) : s[i] \in S /\ s[i] \notin T
  BY ListIs
<1>5. \A i \in 1 .. Len(t) : t[i] \in T /\ t[i] \notin S
  BY ListIs
<1> HIDE DEF u
<1>6. \A i, j \in 1 .. Len(u) : u[i] = u[j] => i = j
  <2>1. \A i, j \in 1 .. Len(s) : s[i] = s[j] => i = j
    BY ListIs
  <2>2. \A i, j \in 1 .. Len(t) : t[i] = t[j] => i = j
    BY ListIs
  <2> SUFFICES ASSUME NEW i \in 1 .. Len(u), NEW j \in 1 .. Len(u), u[i] = u[j] PROVE i = j
    OBVIOUS
  <2>3. CASE i <= Len(s) /\ j <= Len(s)
    BY <2>1, <2>3, <1>2, <1>3
  <2>4. CASE i > Len(s) /\ j > Len(s)
    <3>1. i - Len(s) \in 1 .. Len(t) /\ j - Len(s) \in 1 .. Len(t) /\ u[i] = t[i - Len(s)] /\ u[j] = t[j - Len(s)]
      BY <2>4, <1>2, <1>3
    <3>2. i - Len(s) = j - Len(s)
      BY <2>2, <3>1
    <3> QED BY <3>2, <1>2
  <2>5. CASE i <= Len(s) /\ j > Len(s)
    <3>1. u[i] = s[i] /\ i \in 1 .. Len(s) /\ u[j] = t[j - Len(s)] /\ j - Len(s) \in 1 .. Len(t)
      BY <2>5, <1>2, <1>3
    <3> QED BY <3>1, <1>4, <1>5
  <2>6. CASE i > Len(s) /\ j <= Len(s)
    <3>1. u[j] = s[j] /\ j \in 1 .. Len(s) /\ u[i] = t[i - Len(s)] /\ i - Len(s) \in 1 .. Len(t)
      BY <2>6, <1>2, <1>3
    <3> QED BY <3>1, <1>4, <1>5
  <2> QED BY <2>3, <2>4, <2>5, <2>6, <1>2
<1>7. \A x \in S : \E i \in 1 .. Len(s) : u[i] = x
  <2>1. \A x \in S : \E i \in 1 .. Len(s) : s[i] = x
    BY ListIs
  <2> QED BY <2>1, <1>2, <1>3
<1>8. \A i \in 1 .. Len(t) : Len(s) + i \in 1 .. Len(u) /\ u[Len(s) + i] = t[i]
  BY <1>2, <1>3
<1>9. \A x \in T : \E i \in 1 .. Len(t) : u[Len(s) + i] = x
  <2>1. \A x \in T : \E i \in 1 .. Len(t) : t[i] = x
    BY ListIs
  <2> QED BY <2>1, <1>8
<1>10. IsList(u, U)
  <2>1. \A x \in U : \E i \in 1 .. Len(u) : u[i] = x
    BY SMTT(30), <1>2, <1>7, <1>8, <1>9
  <2> HIDE DEF U
  <2> QED BY <2>1, <1>2, <1>6, ListMade
<1>11. \A x, y : Before(u, x, y) <=> \E i, j \in 1 .. Len(u) : i < j /\ u[i] = x /\ u[j] = y
  <2> HIDE DEF U
  <2> QED BY <1>10, ListIs
<1>12. \A x \in S, y \in T : Before(u, x, y)
  <2> SUFFICES ASSUME NEW x \in S, NEW y \in T PROVE Before(u, x, y)
    OBVIOUS
  <2>1. PICK i \in 1 .. Len(s) : u[i] = x
    BY <1>7
  <2>2. PICK j \in 1 .. Len(t) : u[Len(s) + j] = y
    BY <1>9
  <2> QED BY <2>1, <2>2, <1>2, <1>8, <1>11
<1>13. \A x, y \in T : Before(u, x, y) <=> Before(t, x, y)
  <2> SUFFICES ASSUME NEW x \in T, NEW y \in T PROVE Before(u, x, y) <=> Before(t, x, y)
    OBVIOUS
  <2>1. Before(t, x, y) <=> \E i, j \in 1 .. Len(t) : i < j /\ t[i] = x /\ t[j] = y
    BY ListIs
  <2>2. ASSUME NEW i \in 1 .. Len(u), NEW j \in 1 .. Len(u), i < j, u[i] = x, u[j] = y PROVE Before(t, x, y)
    <3>1. i > Len(s)
      BY <2>2, <1>2, <1>3, <1>4
    <3>2. i - Len(s) \in 1 .. Len(t) /\ j - Len(s) \in 1 .. Len(t) /\ t[i - Len(s)] = x /\ t[j - Len(s)] = y
      BY <2>2, <3>1, <1>2, <1>3
    <3>3. i - Len(s) < j - Len(s)
      BY <2>2, <1>2
    <3> QED BY <2>1, <3>2, <3>3
  <2>3. ASSUME NEW i \in 1 .. Len(t), NEW j \in 1 .. Len(t), i < j, t[i] = x, t[j] = y PROVE Before(u, x, y)
    <3>1. Len(s) + i < Len(s) + j
      BY <2>3, <1>2
    <3> QED BY <2>3, <3>1, <1>8, <1>11
  <2> QED BY <2>1, <2>2, <2>3, <1>11
<1> QED BY <1>10, <1>12, <1>13 DEF u

Keeps(s, A, n, f) ==
  f = [k \in 0 .. n |-> IF k = 0 THEN <<>>
                        ELSE IF s[k] \in A THEN f[k - 1]
                        ELSE Append(f[k - 1], s[k])]

\* The recursion of Without is well-founded.
LEMMA KeepEnds == ASSUME NEW s, NEW A, NEW n \in Nat PROVE \E f : Keeps(s, A, n, f)
<1> DEFINE Bad == {k \in 0 .. n : ~\E g : Keeps(s, A, k, g)}
<1> SUFFICES ASSUME Bad # {} PROVE FALSE
  OBVIOUS
<1>1. Bad \in SUBSET Nat
  OBVIOUS
<1>2. PICK k \in Bad : \A j \in Bad : k <= j
  <2> HIDE DEF Bad
  <2> QED BY <1>1, LeastOf
<1>3. k \in 0 .. n /\ ~\E g : Keeps(s, A, k, g)
  BY <1>2
<1>4. k # 0
  <2>1. Keeps(s, A, 0, [i \in 0 .. 0 |-> <<>>])
    BY DEF Keeps
  <2> QED BY <1>3, <2>1
<1>5. PICK g : Keeps(s, A, k - 1, g)
  BY <1>2, <1>3, <1>4
<1> DEFINE v(i, u) == IF i = 0 THEN <<>> ELSE IF s[i] \in A THEN u ELSE Append(u, s[i])
           h == [i \in 0 .. k |-> IF i = k THEN v(i, g[i - 1]) ELSE g[i]]
<1>6. \A i \in 0 .. k - 1 : g[i] = v(i, g[i - 1])
  BY <1>5 DEF Keeps
<1>7. \A i \in 0 .. k : i # 0 => h[i - 1] = g[i - 1]
  <2> HIDE DEF v
  <2> QED BY <1>3
<1>8. Keeps(s, A, k, h)
  <2>1. \A i \in 0 .. k : i # 0 => h[i] = v(i, h[i - 1])
    <3> HIDE DEF v
    <3> QED BY <1>6, <1>7
  <2>2. h[0] = v(0, h[0 - 1])
    <3>1. h[0] = g[0]
      BY <1>3, <1>4
    <3> QED BY <1>3, <1>4, <1>6, <3>1
  <2>3. h = [i \in 0 .. k |-> h[i]]
    OBVIOUS
  <2>4. \A i \in 0 .. k : h[i] = v(i, h[i - 1])
    <3> HIDE DEF h, v
    <3> QED BY <2>1, <2>2
  <2>5. h = [i \in 0 .. k |-> v(i, h[i - 1])]
    <3> HIDE DEF h, v
    <3> QED BY <2>3, <2>4
  <2> HIDE DEF h
  <2> QED BY <2>5 DEF Keeps
<1> QED BY <1>3, <1>8

\* What has been kept of the first k.
Kept(s, S, A, k, t) ==
  /\ t \in Seq(S \ A)
  /\ \A i \in 1 .. k : s[i] \notin A => \E j \in 1 .. Len(t) : t[j] = s[i]
  /\ \A j \in 1 .. Len(t) : \E i \in 1 .. k : t[j] = s[i]
  /\ \A j, l \in 1 .. Len(t) : j < l => \A p, q \in 1 .. k : t[j] = s[p] /\ t[l] = s[q] => p < q

\* One turn of it.
LEMMA KeepStep ==
  ASSUME NEW S, NEW s, IsList(s, S), NEW A, NEW k \in 1 .. Len(s), NEW t, Kept(s, S, A, k - 1, t)
  PROVE  Kept(s, S, A, k, IF s[k] \in A THEN t ELSE Append(t, s[k]))
<1>1. Len(s) \in Nat /\ s[k] \in S /\ \A i, j \in 1 .. Len(s) : s[i] = s[j] => i = j
  BY ListIs
<1>2. t \in Seq(S \ A) /\ Len(t) \in Nat
  BY LenProperties DEF Kept
<1>3. \A j \in 1 .. Len(t) : \E i \in 1 .. k - 1 : t[j] = s[i]
  BY DEF Kept
<1>4. \A p \in 1 .. Len(s) : \A j \in 1 .. Len(t) : t[j] = s[p] => p < k
  <2> SUFFICES ASSUME NEW p \in 1 .. Len(s), NEW j \in 1 .. Len(t), t[j] = s[p] PROVE p < k
    OBVIOUS
  <2>1. PICK i \in 1 .. k - 1 : t[j] = s[i]
    BY <1>3
  <2>2. i \in 1 .. Len(s) /\ i < k
    BY <1>1
  <2>3. i = p
    BY <1>1, <2>1, <2>2
  <2> QED BY <2>2, <2>3
<1>5. CASE s[k] \in A
  <2>1. \A i \in 1 .. k : s[i] \notin A => i \in 1 .. k - 1
    BY <1>5
  <2>2. \A j, l \in 1 .. Len(t) : j < l => \A p, q \in 1 .. k : t[j] = s[p] /\ t[l] = s[q] => p < q
    <3>1. \A p \in 1 .. k : \A j \in 1 .. Len(t) : t[j] = s[p] => p \in 1 .. k - 1
      BY <1>1, <1>4
    <3>2. \A j, l \in 1 .. Len(t) : j < l => \A p, q \in 1 .. k - 1 : t[j] = s[p] /\ t[l] = s[q] => p < q
      BY DEF Kept
    <3> QED BY <3>1, <3>2
  <2>3. \A i \in 1 .. k : s[i] \notin A => \E j \in 1 .. Len(t) : t[j] = s[i]
    BY <2>1 DEF Kept
  <2>4. \A j \in 1 .. Len(t) : \E i \in 1 .. k : t[j] = s[i]
    BY <1>3
  <2> QED BY <1>2, <1>5, <2>2, <2>3, <2>4 DEF Kept
<1>6. CASE s[k] \notin A
  <2> DEFINE u == Append(t, s[k])
  <2>1. u \in Seq(S \ A) /\ Len(u) = Len(t) + 1 /\ u[Len(t) + 1] = s[k] /\ \A j \in 1 .. Len(t) : u[j] = t[j]
    BY <1>1, <1>2, <1>6
  <2> HIDE DEF u
  <2>2. \A i \in 1 .. k : s[i] \notin A => \E j \in 1 .. Len(u) : u[j] = s[i]
    <3> SUFFICES ASSUME NEW i \in 1 .. k, s[i] \notin A PROVE \E j \in 1 .. Len(u) : u[j] = s[i]
      OBVIOUS
    <3>1. CASE i = k
      BY <3>1, <2>1, <1>2
    <3>2. CASE i # k
      <4>1. PICK j \in 1 .. Len(t) : t[j] = s[i]
        BY <3>2 DEF Kept
      <4> QED BY <4>1, <2>1, <1>2
    <3> QED BY <3>1, <3>2
  <2>3. \A j \in 1 .. Len(u) : \E i \in 1 .. k : u[j] = s[i]
    <3> SUFFICES ASSUME NEW j \in 1 .. Len(u) PROVE \E i \in 1 .. k : u[j] = s[i]
      OBVIOUS
    <3>1. CASE j = Len(t) + 1
      BY <3>1, <2>1
    <3>2. CASE j # Len(t) + 1
      BY <3>2, <2>1, <1>2, <1>3
    <3> QED BY <3>1, <3>2
  <2>4. \A j, l \in 1 .. Len(u) : j < l => \A p, q \in 1 .. k : u[j] = s[p] /\ u[l] = s[q] => p < q
    <3> SUFFICES ASSUME NEW j \in 1 .. Len(u), NEW l \in 1 .. Len(u), j < l,
                        NEW p \in 1 .. k, NEW q \in 1 .. k, u[j] = s[p], u[l] = s[q]
                 PROVE  p < q
      OBVIOUS
    <3>1. j \in 1 .. Len(t) /\ u[j] = t[j] /\ p < k
      BY <2>1, <1>1, <1>2, <1>4
    <3>2. CASE l = Len(t) + 1
      BY <3>1, <3>2, <2>1, <1>1
    <3>3. CASE l # Len(t) + 1
      <4>1. l \in 1 .. Len(t) /\ u[l] = t[l]
        <5>1. Len(u) = Len(t) + 1 /\ Len(t) \in Nat /\ \A i \in 1 .. Len(t) : u[i] = t[i]
          BY <2>1, <1>2
        <5>2. l \in 1 .. Len(t)
          BY <3>3, <5>1
        <5> QED BY <5>1, <5>2
      <4>2. q \in 1 .. Len(s) /\ p \in 1 .. Len(s) /\ t[j] = s[p] /\ t[l] = s[q]
        BY <4>1, <3>1, <1>1
      <4>3. q < k
        BY <4>1, <4>2, <1>4
      <4>4. p \in 1 .. k - 1 /\ q \in 1 .. k - 1
        BY <4>2, <4>3, <3>1
      <4>5. \A a, b \in 1 .. Len(t) : a < b => \A c, d \in 1 .. k - 1 : t[a] = s[c] /\ t[b] = s[d] => c < d
        BY DEF Kept
      <4> QED BY <3>1, <4>1, <4>2, <4>4, <4>5
    <3> QED BY <3>2, <3>3
  <2>5. Kept(s, S, A, k, u)
    BY <2>1, <2>2, <2>3, <2>4 DEF Kept
  <2> QED BY <1>6, <2>5 DEF u
<1> QED BY <1>5, <1>6

\* Taking elements out of a list leaves the others, in their order.
LEMMA WithoutIs ==
  ASSUME NEW S, NEW s, IsList(s, S), NEW A
  PROVE  /\ IsList(Without(s, A), S \ A)
         /\ \A x, y \in S \ A : Before(Without(s, A), x, y) <=> Before(s, x, y)
<1> DEFINE n == Len(s)
           f == CHOOSE g : Keeps(s, A, n, g)
           Bad == {k \in 0 .. n : ~Kept(s, S, A, k, f[k])}
           t == Without(s, A)
<1>1. n \in Nat
  BY ListIs
<1>2. Keeps(s, A, n, f)
  BY <1>1, KeepEnds
<1>3. f[n] = t
  BY DEF Without, Keeps
<1> HIDE DEF f, t
<1>4. \A k \in 0 .. n : f[k] = IF k = 0 THEN <<>> ELSE IF s[k] \in A THEN f[k - 1] ELSE Append(f[k - 1], s[k])
  BY <1>2 DEF Keeps
<1> HIDE DEF n
<1>5. Bad = {}
  <2> SUFFICES ASSUME Bad # {} PROVE FALSE
    OBVIOUS
  <2>1. PICK k \in Bad : \A j \in Bad : k <= j
    <3>1. Bad \in SUBSET Nat
      OBVIOUS
    <3> HIDE DEF Bad
    <3> QED BY <3>1, LeastOf
  <2>2. k \in 0 .. n /\ ~Kept(s, S, A, k, f[k])
    BY <2>1
  <2>3. k # 0
    <3>1. f[0] = <<>>
      BY <1>1, <1>4
    <3>2. Kept(s, S, A, 0, <<>>)
      BY EmptySeq DEF Kept
    <3> QED BY <2>2, <3>1, <3>2
  <2>4. Kept(s, S, A, k - 1, f[k - 1])
    <3>1. k - 1 \in 0 .. n /\ k - 1 < k
      BY <1>1, <2>2, <2>3
    <3>2. k - 1 \notin Bad
      <4> HIDE DEF Bad
      <4>1. k \in Nat /\ \A j \in Bad : k <= j
        BY <1>1, <2>1, <2>2
      <4> QED BY <4>1
    <3> QED BY <3>1, <3>2
  <2>5. f[k] = IF s[k] \in A THEN f[k - 1] ELSE Append(f[k - 1], s[k])
    BY <1>4, <2>2, <2>3
  <2> QED BY <2>2, <2>3, <2>4, <2>5, KeepStep DEF n
<1>6. Kept(s, S, A, n, t)
  BY <1>1, <1>3, <1>5
<1>7. /\ t \in Seq(S \ A) /\ Len(t) \in Nat
      /\ \A i \in 1 .. n : s[i] \notin A => \E j \in 1 .. Len(t) : t[j] = s[i]
      /\ \A j \in 1 .. Len(t) : \E i \in 1 .. n : t[j] = s[i]
      /\ \A j, l \in 1 .. Len(t) : j < l => \A p, q \in 1 .. n : t[j] = s[p] /\ t[l] = s[q] => p < q
  BY <1>6, LenProperties DEF Kept
<1>8. \A i, j \in 1 .. Len(t) : t[i] = t[j] => i = j
  <2> SUFFICES ASSUME NEW i \in 1 .. Len(t), NEW j \in 1 .. Len(t), t[i] = t[j], i < j PROVE FALSE
    BY <1>7
  <2>1. PICK p \in 1 .. n : t[i] = s[p]
    BY <1>7
  <2>2. \A b, c \in 1 .. n : t[i] = s[b] /\ t[j] = s[c] => b < c
    BY <1>7
  <2>3. p < p
    BY <2>1, <2>2
  <2> QED BY <2>3, <1>1
<1>9. \A x \in S \ A : \E i \in 1 .. Len(t) : t[i] = x
  <2> SUFFICES ASSUME NEW x \in S \ A PROVE \E i \in 1 .. Len(t) : t[i] = x
    OBVIOUS
  <2>1. PICK i \in 1 .. n : s[i] = x
    BY ListIs DEF n
  <2> QED BY <2>1, <1>7
<1>10. IsList(t, S \ A)
  BY <1>7, <1>8, <1>9, ListMade
<1>11. \A x, y \in S \ A : Before(t, x, y) <=> Before(s, x, y)
  <2> SUFFICES ASSUME NEW x \in S \ A, NEW y \in S \ A PROVE Before(t, x, y) <=> Before(s, x, y)
    OBVIOUS
  <2>1. PICK p, q \in 1 .. n : s[p] = x /\ s[q] = y
    BY ListIs DEF n
  <2>2. PICK j, l \in 1 .. Len(t) : t[j] = x /\ t[l] = y
    BY <1>9
  <2>3. Before(s, x, y) <=> p < q
    <3>1. Before(s, x, y) <=> \E i, m \in 1 .. n : i < m /\ s[i] = x /\ s[m] = y
      BY ListIs DEF n
    <3>2. \A i, m \in 1 .. n : s[i] = s[m] => i = m
      BY ListIs DEF n
    <3> QED BY <2>1, <3>1, <3>2
  <2>4. Before(t, x, y) <=> j < l
    <3>1. Before(t, x, y) <=> \E i, m \in 1 .. Len(t) : i < m /\ t[i] = x /\ t[m] = y
      BY <1>10, ListIs
    <3> QED BY <2>2, <3>1, <1>8
  <2>5. j < l => p < q
    BY <2>1, <2>2, <1>7
  <2>6. l < j => q < p
    BY <2>1, <2>2, <1>7
  <2>7. j = l => p = q
    <3>1. \A i, m \in 1 .. n : s[i] = s[m] => i = m
      BY ListIs DEF n
    <3> QED BY <2>1, <2>2, <3>1
  <2> QED BY <2>3, <2>4, <2>5, <2>6, <2>7, <1>1, <1>7
<1> QED BY <1>10, <1>11 DEF t

-----------------------------------------------------------------------------
(* The event loop: the inductive invariant.                                *)

WaitedFor == [fd : Fd \cup BadFd \cup {NoFd}, ev : SUBSET Ev]

\* How a muth's place relates to the chain of resumes: one that runs its own
\* code has not yielded, one that waits has, unless it was resumed just now; and
\* only its own code, or ioloop(), resumes another.
Sleepers ==
  /\ place \in [Muth -> MuthPlaces]
  /\ \A m \in Muth : /\ running[m] <=> place[m] \notin {"unborn", "ended"}
                     /\ place[m] = "own" => last[m] # NULL
                     /\ place[m] = "blocked" /\ last[m] # NULL => current = m
                     /\ last[m] \in Muth => place[last[m]] = "own"

\* What the muths wait for: two descriptors are different and taken by epoll,
\* and a listener has one that is nobody else's.
WaitsFor(m) ==
  /\ DOMAIN bl[m] \in {{}, {0}, {0, 1}}
  /\ \A i \in DOMAIN bl[m] : bl[m][i] \in WaitedFor
  /\ place[m] # "blocked" => DOMAIN bl[m] = {}
  /\ DOMAIN bl[m] = {} => to[m] = 0
  /\ 1 \in DOMAIN bl[m] => /\ bl[m][0].fd # bl[m][1].fd
                           /\ bl[m][0].fd \notin BadFd /\ bl[m][1].fd \notin BadFd
  /\ m \in Lone => 1 \notin DOMAIN bl[m]
Apart(m, n) ==
  \A i \in DOMAIN bl[m] : \A j \in DOMAIN bl[n] : bl[m][i].fd = bl[n][j].fd => bl[m][i].fd = NoFd
Waits ==
  /\ to \in [Muth -> 0 .. MaxNow] /\ DOMAIN bl = Muth
  /\ \A m \in Muth : WaitsFor(m)
  /\ \A m \in Lone : \A n \in Muth \ {m} : Apart(m, n)

\* The lists hold the blockers of those that wait.
Listed ==
  /\ IsList(blockers, Live)
  /\ reg \subseteq {z \in Live : Blocker(z).fd \in Fd}
  /\ fdlist \in [Fd -> Seq(Ref)] /\ interest \in [Fd -> SUBSET Ev]
  /\ \A f \in Fd : /\ IsList(fdlist[f], Watched(f))
                   /\ interest[f] = UNION {Blocker(z).ev : z \in Watched(f)}

\* The heap holds those with a timeout.
HeapHas(H, X) == \E d \in Nat : GoodHeap(H, d, Ref) /\ Content(H) = X
Deadlines == {[el |-> z, tm |-> to[z[1]]] : z \in {q \in Live : to[q[1]] > 0}}
Heaped == HeapHas(heap, Deadlines)

\* The walk that registers the blockers has come to z.
Passed(z) == cur = NoRef \/ Before(blockers, z, cur)

\* Where the walks are: while ioloop() registers, those it has passed are
\* registered, but for the one whose muth it is resuming with the error; ...
Registering ==
  /\ cur # NoRef => cur \in Live
  /\ \A z \in Live : Passed(z) \/ z \notin reg
  /\ \A z \in Live : Passed(z) => \/ z \in reg
                                  \/ Blocker(z).fd = NoFd
                                  \/ Blocker(z).fd \in BadFd /\ z[1] = current
\* ... and after that, all are; in a list of a descriptor, the next blocker is in
\* that list, and is not one that what runs meanwhile could resume.
Walks ==
  /\ ~stale
  /\ epfd \in BOOLEAN /\ (epfd <=> at # "out")
  /\ at \in {"out", "reg", "top", "wait", "events", "times"}
  /\ cur \in Ref \cup {NoRef}
  /\ at \notin {"reg", "events"} => cur = NoRef
  /\ at = "out" => reg = {}
  /\ at = "reg" => Registering
  /\ at \in {"top", "wait", "events", "times"} => \A z \in Live : z \in reg \/ Blocker(z).fd = NoFd
  /\ at = "events" =>
       /\ evr \in Seq([fd : Fd, ev : SUBSET Ev]) /\ evr # <<>>
       /\ cur # NoRef => cur \in Watched(Head(evr).fd)
  /\ current # NULL /\ cur # NoRef => cur[1] # current /\ (at = "events" => cur[1] \notin Lone)

Clock == now \in 0 .. MaxNow + 1 /\ tnow \in 0 .. MaxNow + 1 /\ deadline \in {NoFd} \cup 0 .. MaxNow + 1

IoInv == MtInv /\ Sleepers /\ Waits /\ Listed /\ Heaped /\ Walks /\ Clock

-----------------------------------------------------------------------------
(* The muths.                                                              *)

\* A step without a call into mt.c, ...
LEMMA ThreadsGoOn ==
  ASSUME MtInv, Sleepers, GoOn, UNCHANGED place
  PROVE  MtInv' /\ Sleepers' /\ current' = current
<1>1. MtInv'
  BY GoOnInv
<1> QED BY <1>1 DEF GoOn, mtvars, Sleepers

\* ioloop() and the code of a muth resume one that waits.
LEMMA ThreadsResume ==
  ASSUME MtInv, Sleepers, NEW m \in Muth, Resume(m), place[m] = "blocked",
         current # NULL => place[current] = "own", UNCHANGED place
  PROVE  MtInv' /\ Sleepers' /\ current' = m
<1>1. last[m] = NULL /\ running[m]
  BY MtAssumption DEF Sleepers, MtInv, MtTypeOK
<1>2. /\ MtInv'
      /\ last' = [last EXCEPT ![m] = Here]
      /\ current' = m
      /\ running' = running
  BY <1>1, ResumeInv
<1>3. Here = current \/ Here = MainCtxt
  BY DEF Here
<1>4. last'[m] = Here /\ \A n \in Muth : n # m => last'[n] = last[n]
  BY <1>2 DEF MtInv, MtTypeOK
<1>5. Here \in Muth => place[Here] = "own"
  BY <1>3, MtAssumption DEF Here
<1>6. Sleepers'
  <2> SUFFICES ASSUME NEW n \in Muth
               PROVE  /\ running'[n] <=> place[n] \notin {"unborn", "ended"}
                      /\ place[n] = "own" => last'[n] # NULL
                      /\ place[n] = "blocked" /\ last'[n] # NULL => current' = n
                      /\ last'[n] \in Muth => place[last'[n]] = "own"
    BY DEF Sleepers
  <2>1. CASE n = m
    BY <2>1, <1>2, <1>4, <1>5 DEF Sleepers
  <2>2. CASE n # m
    BY <2>2, <1>2, <1>4, MtAssumption DEF Sleepers
  <2> QED BY <2>1, <2>2
<1> QED BY <1>2, <1>6

\* ... the yield() of block() and mblock(), ...
LEMMA ThreadsBlock ==
  ASSUME MtInv, Sleepers, NEW m \in Muth, RunsOwn(m), Yield, place' = [place EXCEPT ![m] = "blocked"]
  PROVE  MtInv' /\ Sleepers' /\ (current' # NULL => current' \in Muth /\ place'[current'] = "own")
<1>0. current = m /\ place[m] = "own" /\ current # NULL
  BY MtAssumption DEF RunsOwn
<1>1. /\ MtInv'
      /\ last' = [last EXCEPT ![m] = NULL]
      /\ running' = running
      /\ current' # NULL => current' \in Muth /\ current' = last[m]
  BY <1>0, YieldInv
<1>2. last'[m] = NULL /\ \A n \in Muth : n # m => last'[n] = last[n]
  BY <1>1 DEF MtInv, MtTypeOK
<1>3. \A n \in Muth : last[n] # m
  BY <1>0 DEF MtInv, Chain, Here
<1>4. place' \in [Muth -> MuthPlaces] /\ place'[m] = "blocked" /\ \A n \in Muth : n # m => place'[n] = place[n]
  BY DEF Sleepers, MuthPlaces
<1>5. Sleepers'
  <2> SUFFICES ASSUME NEW n \in Muth
               PROVE  /\ running'[n] <=> place'[n] \notin {"unborn", "ended"}
                      /\ place'[n] = "own" => last'[n] # NULL
                      /\ place'[n] = "blocked" /\ last'[n] # NULL => current' = n
                      /\ last'[n] \in Muth => place'[last'[n]] = "own"
    BY <1>4 DEF Sleepers
  <2>1. CASE n = m
    BY <2>1, <1>0, <1>1, <1>2, <1>4, MtAssumption DEF Sleepers
  <2>2. CASE n # m
    BY <2>2, <1>0, <1>1, <1>2, <1>3, <1>4 DEF Sleepers
  <2> QED BY <2>1, <2>2
<1>6. current' # NULL => current' \in Muth /\ place'[current'] = "own"
  BY <1>1, <1>3, <1>4 DEF Sleepers
<1> QED BY <1>1, <1>5, <1>6

\* ... what follows it once the muth was resumed, ...
LEMMA ThreadsUnblock ==
  ASSUME MtInv, Sleepers, NEW m \in Muth, current = m, place[m] = "blocked", GoOn,
         place' = [place EXCEPT ![m] = "own"]
  PROVE  MtInv' /\ Sleepers' /\ current' = m
<1>1. MtInv' /\ current' = m /\ last' = last /\ running' = running
  BY GoOnInv DEF GoOn, mtvars
<1>2. last[m] # NULL
  BY MtAssumption DEF MtInv, Chain
<1>3. place' \in [Muth -> MuthPlaces] /\ place'[m] = "own" /\ \A n \in Muth : n # m => place'[n] = place[n]
  BY DEF Sleepers, MuthPlaces
<1>4. Sleepers'
  BY <1>1, <1>2, <1>3 DEF Sleepers
<1> QED BY <1>1, <1>4

\* ... the start of a muth ...
LEMMA ThreadsStart ==
  ASSUME MtInv, Sleepers, NEW m \in Muth, MuStart(m), place[m] = "unborn",
         current # NULL => place[current] = "own", place' = [place EXCEPT ![m] = "own"]
  PROVE  MtInv' /\ Sleepers' /\ current' = m
<1>1. /\ MtInv'
      /\ last' = [last EXCEPT ![m] = Here]
      /\ current' = m
      /\ running' = [running EXCEPT ![m] = TRUE]
  BY MuStartInv
<1>2. last'[m] = Here /\ Here # NULL /\ \A n \in Muth : n # m => last'[n] = last[n]
  BY <1>1, MtAssumption DEF MtInv, MtTypeOK, Here
<1>3. running'[m] /\ \A n \in Muth : n # m => running'[n] = running[n]
  BY <1>1 DEF MtInv, MtTypeOK
<1>4. place' \in [Muth -> MuthPlaces] /\ place'[m] = "own" /\ \A n \in Muth : n # m => place'[n] = place[n]
  BY DEF Sleepers, MuthPlaces
<1>5. Here \in Muth => place[Here] = "own"
  BY MtAssumption DEF Here
<1>6. Sleepers'
  <2> SUFFICES ASSUME NEW n \in Muth
               PROVE  /\ running'[n] <=> place'[n] \notin {"unborn", "ended"}
                      /\ place'[n] = "own" => last'[n] # NULL
                      /\ place'[n] = "blocked" /\ last'[n] # NULL => current' = n
                      /\ last'[n] \in Muth => place'[last'[n]] = "own"
    BY <1>4 DEF Sleepers
  <2>1. CASE n = m
    BY <2>1, <1>1, <1>2, <1>3, <1>4, <1>5
  <2>2. CASE n # m
    <3>1. place[n] = "blocked" => last[n] = NULL
      BY <2>2, MtAssumption DEF Sleepers, MtInv, MtTypeOK
    <3> QED BY <2>2, <3>1, <1>2, <1>3, <1>4 DEF Sleepers
  <2> QED BY <2>1, <2>2
<1> QED BY <1>1, <1>6

\* ... and its end keep the chain, and who may be resumed.
LEMMA ThreadsEnd ==
  ASSUME MtInv, Sleepers, NEW m \in Muth, RunsOwn(m), Return, place' = [place EXCEPT ![m] = "ended"]
  PROVE  MtInv' /\ Sleepers' /\ (current' # NULL => current' \in Muth /\ place'[current'] = "own")
<1>0. current = m /\ place[m] = "own" /\ current # NULL
  BY MtAssumption DEF RunsOwn
<1>1. /\ MtInv'
      /\ last' = [last EXCEPT ![m] = NULL]
      /\ running' = [running EXCEPT ![m] = FALSE]
      /\ current' # NULL => current' \in Muth /\ current' = last[m]
  BY <1>0, ReturnInv
<1>2. last'[m] = NULL /\ \A n \in Muth : n # m => last'[n] = last[n]
  BY <1>1 DEF MtInv, MtTypeOK
<1>3. ~running'[m] /\ \A n \in Muth : n # m => running'[n] = running[n]
  BY <1>1 DEF MtInv, MtTypeOK
<1>4. \A n \in Muth : last[n] # m
  BY <1>0 DEF MtInv, Chain, Here
<1>5. place' \in [Muth -> MuthPlaces] /\ place'[m] = "ended" /\ \A n \in Muth : n # m => place'[n] = place[n]
  BY DEF Sleepers, MuthPlaces
<1>6. Sleepers'
  <2> SUFFICES ASSUME NEW n \in Muth
               PROVE  /\ running'[n] <=> place'[n] \notin {"unborn", "ended"}
                      /\ place'[n] = "own" => last'[n] # NULL
                      /\ place'[n] = "blocked" /\ last'[n] # NULL => current' = n
                      /\ last'[n] \in Muth => place'[last'[n]] = "own"
    BY <1>5 DEF Sleepers
  <2>1. CASE n = m
    BY <2>1, <1>2, <1>3, <1>5, MtAssumption
  <2>2. CASE n # m
    BY <2>2, <1>0, <1>2, <1>3, <1>4, <1>5 DEF Sleepers
  <2> QED BY <2>1, <2>2
<1>7. current' # NULL => current' \in Muth /\ place'[current'] = "own"
  BY <1>1, <1>4, <1>5 DEF Sleepers
<1> QED BY <1>1, <1>6, <1>7

-----------------------------------------------------------------------------
(* The lists.                                                              *)

\* The blockers of those that wait are all the blockers there are, ...
LEMMA LiveIs ==
  ASSUME Waits
  PROVE  /\ \A z : z \in Live <=> z \in Ref /\ z[2] \in DOMAIN bl[z[1]]
         /\ \A m \in Muth : \A i : <<m, i>> \in Live <=> i \in DOMAIN bl[m]
<1>1. \A z : z \in Live <=> z \in Ref /\ z[2] \in DOMAIN bl[z[1]]
  BY DEF Live, Waits, WaitsFor, Ref
<1>2. \A m \in Muth : \A i : i \in DOMAIN bl[m] => i \in {0, 1}
  BY DEF Waits, WaitsFor
<1> QED BY <1>1, <1>2 DEF Ref

\* ... also after a step.
LEMMA LiveIsNext ==
  ASSUME Waits'
  PROVE  /\ \A z : z \in Live' <=> z \in Ref /\ z[2] \in DOMAIN bl'[z[1]]
         /\ \A m \in Muth : \A i : <<m, i>> \in Live' <=> i \in DOMAIN bl'[m]
<1>1. \A z : z \in Live' <=> z \in Ref /\ z[2] \in DOMAIN bl'[z[1]]
  BY DEF Live, Waits, WaitsFor, Ref
<1>2. \A m \in Muth : \A i : i \in DOMAIN bl'[m] => i \in {0, 1}
  BY DEF Waits, WaitsFor
<1> QED BY <1>1, <1>2 DEF Ref

\* The names of blockers.
LEMMA RefIs ==
  /\ \A z \in Ref : z[1] \in Muth /\ z[2] \in {0, 1} /\ z = <<z[1], z[2]>> /\ z # NoRef
  /\ \A m \in Muth : \A i \in {0, 1} : <<m, i>> \in Ref
  /\ NoRef \notin Ref /\ Live \subseteq Ref
BY DEF Ref, NoRef, Live

\* What a blocker holds.
LEMMA BlockerIs ==
  ASSUME Waits, NEW z \in Live
  PROVE  Blocker(z).fd \in Fd \cup BadFd \cup {NoFd} /\ Blocker(z).ev \in SUBSET Ev
<1>1. z[1] \in Muth /\ z[2] \in DOMAIN bl[z[1]]
  BY LiveIs, RefIs
<1>2. bl[z[1]][z[2]] \in WaitedFor
  BY <1>1 DEF Waits, WaitsFor
<1> QED BY <1>2 DEF WaitedFor, Blocker

\* A descriptor is a number, and -1 is none.
LEMMA FdIs == Fd \subseteq Nat /\ NoFd \notin Fd /\ NoFd \notin BadFd /\ Fd \cap BadFd = {}
BY MtioEpollAssumption DEF MtioEpollAssumption, NoFd

\* A step that touches none of them, and no muth that waits, leaves all as it is.
LEMMA ListsStay ==
  ASSUME Waits, Listed, Heaped, UNCHANGED lists,
         \A m \in Muth : place[m] = "blocked" => place'[m] = "blocked"
  PROVE  /\ Waits' /\ Listed' /\ Heaped'
         /\ Live' = Live /\ \A f : Watched(f)' = Watched(f)
<1>1. UNCHANGED <<blockers, bl, to, fdlist, reg, heap, interest>>
  BY DEF lists
<1>2. Waits'
  BY <1>1 DEF Waits, WaitsFor, Apart
<1>3. Live' = Live
  <2>1. \A z : z \in Live' <=> z \in Live
    BY <1>1, <1>2, LiveIs, LiveIsNext
  <2> QED BY <2>1
<1>4. \A f : Watched(f)' = Watched(f)
  BY <1>1, <1>3 DEF Watched, Blocker
<1>5. Listed'
  BY <1>1, <1>3, <1>4 DEF Listed, Blocker
<1>6. Heaped'
  BY <1>1, <1>3 DEF Heaped, Deadlines
<1> QED BY <1>2, <1>3, <1>4, <1>5, <1>6

\* What a list of blockers waits for does not depend on its order.
LEMMA WantedIs ==
  ASSUME NEW S, NEW s, IsList(s, S)
  PROVE  Wanted(s) = UNION {Blocker(z).ev : z \in S}
<1>1. \A k \in DOMAIN s : s[k] \in S
  BY ListIs
<1>2. \A z \in S : \E k \in DOMAIN s : s[k] = z
  BY ListIs
<1> QED BY <1>1, <1>2 DEF Wanted

\* addtimeout(), for the heap of the event loop, ...
LEMMA HeapAdds ==
  ASSUME NEW H, NEW X, HeapHas(H, X), NEW x \in Entry(Ref), \A y \in X : y.el # x.el
  PROVE  HeapHas(ThAdd(H, x), X \cup {x})
<1>1. PICK d \in Nat : GoodHeap(H, d, Ref) /\ Content(H) = X
  BY DEF HeapHas
<1>2. x.el \notin Timed(H)
  BY <1>1 DEF Content, Timed
<1>3. d + 1 \in Nat
  OBVIOUS
<1>4. GoodHeap(ThAdd(H, x), d + 1, Ref) /\ Content(ThAdd(H, x)) = Content(H) \cup {x}
  BY <1>1, <1>2, AddKeeps
<1> QED BY <1>1, <1>3, <1>4 DEF HeapHas

\* ... and deltimeout().
LEMMA HeapDels ==
  ASSUME NEW H, NEW X, HeapHas(H, X), NEW x \in X, NEW z, x.el = z
  PROVE  HeapHas(ThDel(H, z), {y \in X : y.el # z})
<1>1. PICK d \in Nat : GoodHeap(H, d, Ref) /\ Content(H) = X
  BY DEF HeapHas
<1>2. z \in Timed(H)
  BY <1>1 DEF Content, Timed
<1>3. d > 0 /\ GoodHeap(ThDel(H, z), d - 1, Ref) /\ Content(ThDel(H, z)) = {y \in X : y.el # z}
  BY <1>1, <1>2, DelKeeps
<1>4. d - 1 \in Nat
  BY <1>3
<1> QED BY <1>3, <1>4 DEF HeapHas

\* The top of the heap is one of those that wait for a time.
LEMMA TopIs ==
  ASSUME Waits, Heaped, Size(heap) > 0
  PROVE  /\ Top(heap).el \in Live /\ Top(heap).tm \in 0 .. MaxNow
         /\ place[Top(heap).el[1]] = "blocked"
<1>1. PICK d \in Nat : GoodHeap(heap, d, Ref) /\ Content(heap) = Deadlines
  BY DEF Heaped, HeapHas
<1>2. heap \in HeapOf(d, Ref) /\ Size(heap) = d /\ DOMAIN heap.b = 0 .. d - 1
  BY <1>1, SizeIs DEF GoodHeap, HeapOf
<1>3. 0 \in DOMAIN heap.b
  BY <1>2
<1>4. heap.b[0] \in Deadlines
  BY <1>1, <1>3 DEF Content
<1>5. PICK z \in Live : heap.b[0] = [el |-> z, tm |-> to[z[1]]]
  BY <1>4 DEF Deadlines
<1>6. z[1] \in Muth
  BY RefIs
<1> QED BY <1>5, <1>6 DEF Top, Waits, Live
-----------------------------------------------------------------------------
(* The steps that leave the lists alone.                                   *)

\* No muth that waits is the running one, unless it was resumed just now.
LEMMA NoneLiveRuns ==
  ASSUME current # NULL => place[current] # "blocked"
  PROVE  \A z \in Live : z[1] # current
BY MtAssumption DEF Live, Ref

\* A step that changes no list and moves no walk, but runs another muth.
LEMMA WalksStay ==
  ASSUME Walks, UNCHANGED <<lists, loopvars, stale>>,
         Live' = Live, \A f : Watched(f)' = Watched(f),
         current # NULL => place[current] # "blocked",
         current' # NULL /\ cur # NoRef => cur[1] # current' /\ (at = "events" => cur[1] \notin Lone)
  PROVE  Walks'
<1>1. UNCHANGED <<blockers, bl, reg, epfd, at, cur, evr, stale>>
  BY DEF lists, loopvars
<1>2. \A z \in Live : z[1] # current
  BY NoneLiveRuns
<1>3. at = "reg" => Registering'
  BY <1>1, <1>2 DEF Walks, Registering, Passed, Blocker
<1>4. (at \in {"top", "wait", "events", "times"} => \A z \in Live : z \in reg \/ Blocker(z).fd = NoFd)'
  BY <1>1 DEF Walks, Blocker
<1> QED BY <1>1, <1>3, <1>4 DEF Walks

\* The clock, in such a step.
LEMMA ClockStays == ASSUME Clock, UNCHANGED <<loopvars, now>> PROVE Clock'
BY DEF Clock, loopvars

\* The next blocker of a walk waits, and so is not of the muth whose own code runs.
LEMMA NextWaits ==
  ASSUME Walks, cur # NoRef
  PROVE  cur \in Live /\ place[cur[1]] = "blocked" /\ (at = "reg" \/ at = "events")
BY DEF Walks, Registering, Watched, Live

\* A muth starts, ...
LEMMA StartKeeps == ASSUME IoInv, NEW m \in Muth, StartMuth(m) PROVE IoInv'
<1>1. current # NULL => place[current] = "own" /\ (at = "events" /\ cur # NoRef => cur[1] \notin Lone)
  BY DEF StartMuth, UserCodeRuns, IoInv, Walks
<1>2. MtInv' /\ Sleepers' /\ current' = m
  BY <1>1, ThreadsStart DEF StartMuth, IoInv
<1>3. \A n \in Muth : place[n] = "blocked" => place'[n] = "blocked"
  BY DEF StartMuth, IoInv, Sleepers
<1>4. /\ Waits' /\ Listed' /\ Heaped'
      /\ Live' = Live /\ \A f : Watched(f)' = Watched(f)
  BY <1>3, ListsStay DEF StartMuth, IoInv
<1>5. cur # NoRef => cur[1] # m /\ current # NULL
  BY NextWaits DEF StartMuth, IoInv, UserCodeRuns
<1>6. Walks'
  BY <1>1, <1>2, <1>4, <1>5, WalksStay DEF StartMuth, IoInv
<1>7. Clock'
  BY ClockStays DEF StartMuth, IoInv
<1> QED BY <1>2, <1>4, <1>6, <1>7 DEF IoInv

\* ... or ends: no list changes, and the walks stay where they are.
LEMMA EndKeeps == ASSUME IoInv, NEW m \in Muth, EndMuth(m) PROVE IoInv'
<1>1. current = m /\ place[m] = "own" /\ current # NULL
  BY MtAssumption DEF EndMuth, RunsOwn
<1>2. MtInv' /\ Sleepers' /\ (current' # NULL => current' \in Muth /\ place'[current'] = "own")
  BY ThreadsEnd DEF EndMuth, IoInv
<1>3. \A n \in Muth : place[n] = "blocked" => place'[n] = "blocked"
  BY <1>1 DEF EndMuth, IoInv, Sleepers
<1>4. /\ Waits' /\ Listed' /\ Heaped'
      /\ Live' = Live /\ \A f : Watched(f)' = Watched(f)
  BY <1>3, ListsStay DEF EndMuth, IoInv
<1>5. cur # NoRef => cur \in Live' /\ (at = "events" => cur[1] \notin Lone)
  BY <1>1, <1>4, NextWaits DEF IoInv, Walks
<1>6. cur # NoRef => place'[cur[1]] = "blocked"
  BY <1>5 DEF Live
<1>7. Walks'
  BY <1>1, <1>2, <1>4, <1>5, <1>6, WalksStay DEF EndMuth, IoInv
<1>8. Clock'
  BY ClockStays DEF EndMuth, IoInv
<1> QED BY <1>2, <1>4, <1>7, <1>8 DEF IoInv

\* A listener that other code resumes is not the one that a walk goes on with.
LEMMA ResumeLoneKeeps == ASSUME IoInv, NEW m \in Muth, ResumeLone(m) PROVE IoInv'
<1>1. current # NULL => place[current] = "own" /\ (at = "events" /\ cur # NoRef => cur[1] \notin Lone)
  BY DEF ResumeLone, UserCodeRuns, IoInv, Walks
<1>2. MtInv' /\ Sleepers' /\ current' = m
  BY <1>1, ThreadsResume DEF ResumeLone, IoInv
<1>4. /\ Waits' /\ Listed' /\ Heaped'
      /\ Live' = Live /\ \A f : Watched(f)' = Watched(f)
  BY ListsStay DEF ResumeLone, IoInv
<1>5. cur # NoRef => cur[1] # m /\ current # NULL /\ (at = "events" => cur[1] \notin Lone)
  BY <1>1, NextWaits DEF ResumeLone, IoInv, UserCodeRuns
<1>6. Walks'
  BY <1>1, <1>2, <1>4, <1>5, WalksStay DEF ResumeLone, IoInv
<1>7. Clock'
  BY ClockStays DEF ResumeLone, IoInv
<1> QED BY <1>2, <1>4, <1>6, <1>7 DEF IoInv

\* The loop over the timeouts resumes one that waits.
LEMMA ExpireKeeps == ASSUME IoInv, Expire PROVE IoInv'
<1> DEFINE m == Top(heap).el[1]
<1>1. current = NULL /\ cur = NoRef /\ Size(heap) > 0
  BY DEF Expire, InLoop, IoInv, Walks
<1>2. m \in Muth /\ place[m] = "blocked"
  BY <1>1, TopIs, RefIs DEF IoInv
<1>3. Resume(m) /\ UNCHANGED place
  BY DEF Expire
<1> HIDE DEF m
<1>4. MtInv' /\ Sleepers' /\ current' = m
  BY <1>1, <1>2, <1>3, ThreadsResume DEF IoInv
<1>5. /\ Waits' /\ Listed' /\ Heaped'
      /\ Live' = Live /\ \A f : Watched(f)' = Watched(f)
  BY <1>3, ListsStay DEF Expire, IoInv
<1>6. Walks'
  BY <1>1, <1>5, WalksStay DEF Expire, IoInv
<1>7. Clock'
  BY ClockStays DEF Expire, IoInv
<1> QED BY <1>4, <1>5, <1>6, <1>7 DEF IoInv

\* What a step of ioloop() itself, which resumes nobody and changes no list,
\* leaves as it is.
Still == /\ current = NULL /\ GoOn /\ UNCHANGED <<lists, place, stale>>

\* Such a step keeps all but the place of ioloop().
LEMMA StillKeeps ==
  ASSUME IoInv, Still
  PROVE  /\ MtInv' /\ Sleepers' /\ Waits' /\ Listed' /\ Heaped' /\ current' = NULL /\ ~stale'
         /\ Live' = Live /\ \A f : Watched(f)' = Watched(f)
         /\ UNCHANGED <<blockers, bl, reg, fdlist>> /\ \A z : Blocker(z)' = Blocker(z)
<1>1. MtInv' /\ Sleepers' /\ current' = NULL
  BY ThreadsGoOn DEF Still, IoInv
<1>2. /\ Waits' /\ Listed' /\ Heaped'
      /\ Live' = Live /\ \A f : Watched(f)' = Watched(f)
  BY ListsStay DEF Still, IoInv
<1>3. UNCHANGED <<blockers, bl, reg, fdlist, stale>>
  BY DEF Still, lists
<1> QED BY <1>1, <1>2, <1>3 DEF IoInv, Walks, Blocker

\* The walks over the lists that are at no blocker.
LEMMA WalksElsewhere ==
  ASSUME IoInv, Still, cur' = NoRef, epfd' = epfd,
         at' \in {"top", "wait", "times"}, at \in {"reg", "top", "wait", "events", "times"},
         at = "reg" => cur = NoRef
  PROVE  Walks'
<1>1. /\ current' = NULL /\ ~stale' /\ Live' = Live
      /\ UNCHANGED <<blockers, bl, reg>> /\ \A z : Blocker(z)' = Blocker(z)
  BY StillKeeps
<1>2. \A z \in Live : z \in reg \/ Blocker(z).fd = NoFd
  <2>1. CASE at = "reg"
    <3>1. \A z \in Live : z \in reg \/ Blocker(z).fd = NoFd \/ z[1] = current
      BY <2>1 DEF IoInv, Walks, Registering, Passed
    <3>2. \A z \in Live : z[1] # current
      BY NoneLiveRuns DEF Still
    <3> QED BY <3>1, <3>2
  <2>2. CASE at # "reg"
    BY <2>2 DEF IoInv, Walks
  <2> QED BY <2>1, <2>2
<1> QED BY <1>1, <1>2 DEF IoInv, Walks

\* All blockers are registered.
LEMMA RegisteredKeeps == ASSUME IoInv, Registered PROVE IoInv'
<1>1. Still /\ at = "reg" /\ cur = NoRef /\ at' = "top" /\ cur' = NoRef /\ epfd' = epfd /\ UNCHANGED <<now, tnow, deadline>>
  BY DEF Registered, InLoop, Still
<1> QED BY <1>1, StillKeeps, WalksElsewhere DEF IoInv, Clock

\* The timeout of epoll_wait() is in range.
LEMMA PrepareKeeps == ASSUME IoInv, Prepare PROVE IoInv'
<1>1. Still /\ at = "top" /\ cur' = cur /\ at' = "wait" /\ epfd' = epfd /\ UNCHANGED <<now, tnow>> /\ deadline' = WaitUntil
  BY DEF Prepare, InLoop, Still
<1>2. cur = NoRef
  BY <1>1 DEF IoInv, Walks
<1>3. WaitUntil \in {NoFd} \cup 0 .. MaxNow + 1
  <2>1. now \in 0 .. MaxNow + 1 /\ MaxNow \in Nat
    BY MtioEpollAssumption DEF IoInv, Clock, MtioEpollAssumption
  <2>2. Size(heap) > 0 => Top(heap).tm \in 0 .. MaxNow
    BY TopIs DEF IoInv
  <2>3. Size(heap) \in Nat
    <3>1. PICK d \in Nat : heap \in HeapOf(d, Ref)
      BY DEF IoInv, Heaped, HeapHas, GoodHeap
    <3> QED BY <3>1, SizeIs
  <2>4. CASE Size(heap) = 0
    BY <2>4 DEF WaitUntil
  <2>5. CASE Size(heap) > 0
    BY <2>1, <2>2, <2>5 DEF WaitUntil
  <2> QED BY <2>3, <2>4, <2>5
<1> QED BY <1>1, <1>2, <1>3, StillKeeps, WalksElsewhere DEF IoInv, Clock

\* epoll_wait() returns 0, ...
LEMMA WaitTimesOutKeeps == ASSUME IoInv, WaitTimesOut PROVE IoInv'
<1>1. Still /\ at = "wait" /\ cur' = cur /\ at' = "times" /\ epfd' = epfd /\ now' = now /\ tnow' = now /\ deadline' = NoFd
  BY DEF WaitTimesOut, InLoop, Still
<1>2. cur = NoRef
  BY <1>1 DEF IoInv, Walks
<1> QED BY <1>1, <1>2, StillKeeps, WalksElsewhere DEF IoInv, Clock

\* ... or -1.
LEMMA WaitInterruptedKeeps == ASSUME IoInv, WaitInterrupted PROVE IoInv'
<1>1. Still /\ at = "wait" /\ cur' = cur /\ at' = "top" /\ epfd' = epfd /\ UNCHANGED <<now, tnow>> /\ deadline' = NoFd
  BY DEF WaitInterrupted, InLoop, Still
<1>2. cur = NoRef
  BY <1>1 DEF IoInv, Walks
<1> QED BY <1>1, <1>2, StillKeeps, WalksElsewhere DEF IoInv, Clock

\* No timeout is left that is over.
LEMMA NoneExpiredKeeps == ASSUME IoInv, NoneExpired PROVE IoInv'
<1>1. Still /\ at = "times" /\ cur' = cur /\ at' = "top" /\ epfd' = epfd /\ UNCHANGED <<now, deadline>> /\ tnow' = 0
  BY DEF NoneExpired, InLoop, Still
<1>2. cur = NoRef /\ 0 \in 0 .. MaxNow + 1
  BY <1>1, MtioEpollAssumption DEF IoInv, Walks, MtioEpollAssumption
<1> QED BY <1>1, <1>2, StillKeeps, WalksElsewhere DEF IoInv, Clock

\* Time passes.
LEMMA TickKeeps == ASSUME IoInv, Tick PROVE IoInv'
<1>1. Still /\ at \in {"out", "wait"} /\ UNCHANGED loopvars /\ now' = now + 1 /\ now < MaxNow + 1
  BY DEF Tick, Still
<1>2. UNCHANGED <<epfd, at, cur, evr, deadline, tnow>>
  BY <1>1 DEF loopvars
<1>3. /\ MtInv' /\ Sleepers' /\ Waits' /\ Listed' /\ Heaped'
      /\ current' = NULL /\ UNCHANGED <<lists, loopvars, stale>>
      /\ Live' = Live /\ \A f : Watched(f)' = Watched(f)
  BY <1>1, StillKeeps DEF Still
<1>4. cur = NoRef /\ current = NULL
  BY <1>1 DEF IoInv, Walks, Still
<1>5. Walks'
  BY <1>3, <1>4, WalksStay DEF IoInv
<1>6. Clock'
  BY <1>1, <1>2, MtioEpollAssumption DEF IoInv, Clock, MtioEpollAssumption
<1> QED BY <1>3, <1>5, <1>6 DEF IoInv
-----------------------------------------------------------------------------
(* The steps of the walks.                                                 *)

\* Where a walk over a list starts.
LEMMA Head0Is ==
  ASSUME NEW S, S \subseteq Ref, NEW s, IsList(s, S)
  PROVE  /\ Head0(s) \in S \cup {NoRef}
         /\ Head0(s) = NoRef => S = {}
         /\ Head0(s) # NoRef => \A x : ~Before(s, x, Head0(s))
BY HeadIs, RefIs DEF Head0

\* ioloop() starts: nothing is registered, and nothing passed.
LEMMA EnterKeeps == ASSUME IoInv, Enter PROVE IoInv'
<1>1. /\ Still /\ at = "out" /\ at' = "reg" /\ epfd' = TRUE /\ cur' = Head0(blockers)
      /\ UNCHANGED <<now, tnow, deadline>>
  BY DEF Enter, Still
<1>2. /\ MtInv' /\ Sleepers' /\ Waits' /\ Listed' /\ Heaped' /\ current' = NULL /\ ~stale'
      /\ Live' = Live /\ UNCHANGED <<blockers, bl, reg>> /\ \A z : Blocker(z)' = Blocker(z)
  BY <1>1, StillKeeps
<1>3. reg = {}
  BY <1>1 DEF IoInv, Walks
<1>4. /\ cur' \in Live \cup {NoRef}
      /\ cur' = NoRef => Live = {}
      /\ cur' # NoRef => \A x : ~Before(blockers, x, cur')
  <2>1. IsList(blockers, Live) /\ Live \subseteq Ref
    BY RefIs DEF IoInv, Listed
  <2> QED BY <2>1, <1>1, Head0Is
<1>5. Registering'
  BY <1>2, <1>3, <1>4 DEF Registering, Passed
<1>6. Walks'
  BY <1>1, <1>2, <1>4, <1>5, RefIs DEF Walks
<1> QED BY <1>1, <1>2, <1>6 DEF IoInv, Clock

Event == [fd : Fd, ev : SUBSET Ev]

\* What epoll_wait() reports are descriptors that it watches.
LEMMA BatchIs ==
  ASSUME Listed, NEW b \in Batches
  PROVE  b \in Seq(Event) /\ b # <<>> /\ Head(b) = b[1] /\ b[1].fd \in Fd
<1>1. \A f \in Fd : interest[f] \in SUBSET Ev
  BY DEF Listed
<1>2. Firsts \subseteq Event
  BY <1>1 DEF Firsts, Parts, Event
<1>3. Seconds \subseteq Event
  BY <1>1 DEF Seconds, Parts, Event
<1>4. CASE \E e \in Firsts : b = <<e>>
  BY <1>2, <1>4 DEF Event
<1>5. CASE b \in Firsts \X Seconds
  <2>1. PICK e \in Event, g \in Event : b = <<e, g>>
    BY <1>2, <1>3, <1>5
  <2> QED BY <2>1 DEF Event
<1> QED BY <1>4, <1>5 DEF Batches

\* The walk over the list of the first descriptor of a batch starts.
LEMMA ToEvents ==
  ASSUME IoInv, Still, epfd' = epfd, at \in {"wait", "events"}, at' = "events",
         evr' \in Seq(Event), evr' # <<>>, Head(evr').fd \in Fd,
         cur' = Head0(fdlist[Head(evr').fd])
  PROVE  Walks'
<1> DEFINE f == Head(evr').fd
<1>1. /\ current' = NULL /\ ~stale' /\ Live' = Live /\ \A g : Watched(g)' = Watched(g)
      /\ UNCHANGED <<reg, bl>> /\ \A z : Blocker(z)' = Blocker(z)
  BY StillKeeps
<1>2. cur' \in Watched(f) \cup {NoRef}
  <2>1. IsList(fdlist[f], Watched(f)) /\ Watched(f) \subseteq Ref
    BY RefIs DEF IoInv, Listed, Watched
  <2> QED BY <2>1, Head0Is
<1>3. (cur # NoRef => cur \in Watched(Head(evr).fd))'
  <2> SUFFICES ASSUME cur' # NoRef PROVE cur' \in Live' /\ cur' \in reg' /\ bl'[cur'[1]][cur'[2]].fd = Head(evr').fd
    BY DEF Watched, Blocker
  <2>1. cur' \in Live /\ cur' \in reg /\ bl[cur'[1]][cur'[2]].fd = Head(evr').fd
    BY <1>2 DEF Watched, Blocker
  <2> QED BY <1>1, <2>1
<1>4. cur' \in Ref \cup {NoRef}
  BY <1>2, RefIs DEF Watched
<1>5. (at = "events" => evr \in Seq([fd : Fd, ev : SUBSET Ev]) /\ evr # <<>>)'
  BY DEF Event
<1>6. epfd' \in BOOLEAN /\ (epfd <=> at # "out")'
  BY DEF IoInv, Walks
<1> HIDE DEF f
<1>7. (\A z \in Live : z \in reg \/ Blocker(z).fd = NoFd)'
  BY <1>1 DEF IoInv, Walks
<1> QED BY <1>1, <1>3, <1>4, <1>5, <1>6, <1>7 DEF Walks

\* epoll_wait() returns events.
LEMMA WaitEventsKeeps == ASSUME IoInv, WaitEvents PROVE IoInv'
<1>1. /\ Still /\ at = "wait" /\ at' = "events" /\ epfd' = epfd
      /\ UNCHANGED <<now, tnow>> /\ deadline' = NoFd
  BY DEF WaitEvents, InLoop, Still
<1>2. PICK b \in Batches : evr' = b /\ cur' = Head0(fdlist[b[1].fd])
  BY DEF WaitEvents
<1>3. b \in Seq(Event) /\ b # <<>> /\ Head(b) = b[1] /\ b[1].fd \in Fd
  BY BatchIs DEF IoInv
<1>4. Walks'
  BY <1>1, <1>2, <1>3, ToEvents
<1> QED BY <1>1, <1>4, StillKeeps DEF IoInv, Clock

\* Head is the first.
LEMMA FirstOfList == ASSUME NEW S, NEW s \in Seq(S), s # <<>> PROVE Head(s) = s[1]
BY HeadTailProperties

\* The next event of a batch, or the end of it.
LEMMA NextEventKeeps == ASSUME IoInv, NextEvent PROVE IoInv'
<1>1. /\ Still /\ at = "events" /\ cur = NoRef /\ epfd' = epfd
      /\ UNCHANGED <<now, deadline>> /\ evr' = Tail(evr) /\ evr # <<>> /\ evr \in Seq(Event)
  BY DEF NextEvent, InLoop, Still, IoInv, Walks, Event
<1>2. CASE Len(evr) > 1
  <2>1. at' = "events" /\ cur' = Head0(fdlist[evr[2].fd]) /\ tnow' = tnow
    BY <1>1, <1>2 DEF NextEvent
  <2>2. Tail(evr) \in Seq(Event) /\ Tail(evr) # <<>> /\ Head(Tail(evr)) = evr[2] /\ evr[2].fd \in Fd
    <3>1. 2 \in 1 .. Len(evr) /\ evr[2] \in Event
      BY <1>1, <1>2, ElementOfSeq, LenProperties
    <3>2. Tail(evr) \in Seq(Event) /\ Len(Tail(evr)) = Len(evr) - 1 /\ Tail(evr)[1] = evr[2]
      BY <1>1, <1>2, HeadTailProperties, LenProperties
    <3>3. Tail(evr) # <<>>
      BY <3>2, <1>2, <1>1, EmptySeq, LenProperties
    <3>4. Head(Tail(evr)) = Tail(evr)[1]
      BY <3>2, <3>3, FirstOfList
    <3> QED BY <3>1, <3>2, <3>3, <3>4 DEF Event
  <2>3. Walks'
    BY <1>1, <2>1, <2>2, ToEvents
  <2> QED BY <1>1, <2>1, <2>3, StillKeeps DEF IoInv, Clock
<1>3. CASE ~(Len(evr) > 1)
  <2>1. at' = "times" /\ cur' = NoRef /\ tnow' = now
    BY <1>1, <1>3 DEF NextEvent
  <2>2. Walks'
    BY <1>1, <2>1, WalksElsewhere
  <2> QED BY <1>1, <2>1, <2>2, StillKeeps DEF IoInv, Clock
<1> QED BY <1>2, <1>3

\* The two blockers of a muth wait for different descriptors, and a listener
\* shares its descriptor with nobody.
LEMMA SameFd ==
  ASSUME Waits, NEW q \in Live, NEW z \in Live, q # z, Blocker(q).fd = Blocker(z).fd, Blocker(z).fd # NoFd
  PROVE  q[1] # z[1] /\ q[1] \notin Lone
<1>1. /\ q[1] \in Muth /\ q[2] \in {0, 1} /\ q = <<q[1], q[2]>> /\ q[2] \in DOMAIN bl[q[1]]
      /\ z[1] \in Muth /\ z[2] \in {0, 1} /\ z = <<z[1], z[2]>> /\ z[2] \in DOMAIN bl[z[1]]
  BY RefIs, LiveIs
<1>2. q[1] # z[1]
  <2> SUFFICES ASSUME q[1] = z[1] PROVE FALSE
    OBVIOUS
  <2>1. (q[2] = 0 /\ z[2] = 1) \/ (q[2] = 1 /\ z[2] = 0)
    BY <1>1
  <2>2. 1 \in DOMAIN bl[z[1]]
    BY <1>1, <2>1
  <2>3. bl[z[1]][0].fd # bl[z[1]][1].fd
    BY <1>1, <2>2 DEF Waits, WaitsFor
  <2> QED BY <2>1, <2>3 DEF Blocker
<1>3. q[1] \notin Lone
  <2> SUFFICES ASSUME q[1] \in Lone PROVE FALSE
    OBVIOUS
  <2>1. Apart(q[1], z[1])
    BY <1>1, <1>2 DEF Waits
  <2>2. bl[q[1]][q[2]].fd = NoFd
    BY <1>1, <2>1 DEF Apart, Blocker
  <2> QED BY <2>2 DEF Blocker
<1> QED BY <1>2, <1>3

\* One turn of the walk over the list of a descriptor: the next blocker is not
\* of the muth that is resumed.
LEMMA DispatchKeeps == ASSUME IoInv, Dispatch PROVE IoInv'
<1> DEFINE f == Head(evr).fd
<1>1. /\ current = NULL /\ at = "events" /\ cur \in Range(fdlist[f]) /\ cur' = After(fdlist[f], cur)
      /\ UNCHANGED <<lists, place, stale, epfd, at, evr, deadline, tnow, now>>
  BY DEF Dispatch, InLoop
<1>2. f \in Fd
  <2>1. evr \in Seq(Event) /\ evr # <<>>
    BY <1>1 DEF IoInv, Walks, Event
  <2>2. Head(evr) \in Event
    BY <2>1
  <2> QED BY <2>2 DEF Event
<1>3. IsList(fdlist[f], Watched(f))
  BY <1>2 DEF IoInv, Listed
<1>4. cur \in Watched(f)
  BY <1>1, <1>3 DEF IsList
<1> HIDE DEF f
<1>5. cur' \in (Watched(f) \ {cur}) \cup {NoRef}
  <2>1. NoRef \notin Watched(f)
    BY RefIs DEF Watched
  <2> QED BY <1>1, <1>3, <1>4, <2>1, AfterIs
<1>6. cur[1] \in Muth /\ place[cur[1]] = "blocked"
  BY <1>4, RefIs DEF Watched, Live
<1>7. MtInv' /\ Sleepers' /\ current' \in {NULL, cur[1]}
  <2>1. CASE Resume(cur[1])
    BY <1>1, <1>6, <2>1, ThreadsResume DEF IoInv
  <2>2. CASE GoOn
    BY <1>1, <2>2, ThreadsGoOn DEF IoInv
  <2> QED BY <2>1, <2>2 DEF Dispatch
<1>8. /\ Waits' /\ Listed' /\ Heaped'
      /\ Live' = Live /\ \A g : Watched(g)' = Watched(g)
  BY <1>1, ListsStay DEF IoInv
<1>9. cur' # NoRef => cur'[1] # cur[1] /\ cur'[1] \notin Lone
  <2> SUFFICES ASSUME cur' # NoRef PROVE cur'[1] # cur[1] /\ cur'[1] \notin Lone
    OBVIOUS
  <2>1. cur' \in Live /\ cur \in Live /\ cur' # cur /\ Blocker(cur').fd = f /\ Blocker(cur).fd = f
    BY <1>4, <1>5 DEF Watched
  <2> QED BY <2>1, <1>2, FdIs, SameFd DEF IoInv
<1>10. (\A z \in Live : z \in reg \/ Blocker(z).fd = NoFd)'
  BY <1>1, <1>8 DEF IoInv, Walks, Blocker, lists
<1>11. (cur # NoRef => cur \in Watched(Head(evr).fd))'
  BY <1>1, <1>5, <1>8 DEF f
<1>12. cur' \in Ref \cup {NoRef}
  BY <1>5, RefIs DEF Watched
<1>13. Walks'
  BY <1>1, <1>7, <1>9, <1>10, <1>11, <1>12 DEF IoInv, Walks
<1>14. Clock'
  BY <1>1 DEF IoInv, Clock
<1> QED BY <1>7, <1>8, <1>13, <1>14 DEF IoInv

\* The walk that registers the blockers goes on to the next one.
LEMMA RegisterWalks ==
  ASSUME IoInv, at = "reg", current = NULL, cur \in Live, cur' = After(blockers, cur),
         UNCHANGED <<blockers, bl, epfd, at, evr, stale>>, Live' = Live,
         reg \subseteq reg', reg' \subseteq reg \cup {cur},
         cur \in reg' \/ Blocker(cur).fd = NoFd \/ (Blocker(cur).fd \in BadFd /\ cur[1] = current'),
         cur' # NoRef /\ current' # NULL => cur'[1] # current'
  PROVE  Walks'
<1>1. IsList(blockers, Live) /\ NoRef \notin Live
  BY RefIs DEF IoInv, Listed
<1>2. /\ cur' \in (Live \ {cur}) \cup {NoRef}
      /\ cur' = NoRef => \A q \in Live : q = cur \/ Before(blockers, q, cur)
      /\ cur' # NoRef => \A q \in Live : Before(blockers, q, cur') <=> (q = cur \/ Before(blockers, q, cur))
  BY <1>1, AfterIs
<1>3. \A q \in Live : Passed(q)' <=> q = cur \/ Before(blockers, q, cur)
  BY <1>2 DEF Passed
<1>4. \A z \in Live : Before(blockers, z, cur) => z \in reg \/ Blocker(z).fd = NoFd
  <2>1. \A z \in Live : z[1] # current
    BY NoneLiveRuns
  <2> QED BY <2>1, <1>1 DEF IoInv, Walks, Registering, Passed
<1>5. \A z \in Live : Before(blockers, z, cur) \/ z \notin reg
  BY <1>1 DEF IoInv, Walks, Registering, Passed
<1>6. Registering'
  <2>1. (\A z \in Live : Passed(z) \/ z \notin reg)'
    BY <1>3, <1>5
  <2>2. (\A z \in Live : Passed(z) => \/ z \in reg
                                      \/ Blocker(z).fd = NoFd
                                      \/ Blocker(z).fd \in BadFd /\ z[1] = current)'
    BY <1>3, <1>4 DEF Blocker
  <2> QED BY <1>2, <2>1, <2>2 DEF Registering
<1>7. cur' \in Ref \cup {NoRef}
  BY <1>2, RefIs
<1> QED BY <1>6, <1>7 DEF IoInv, Walks

\* The list of one.
LEMMA SingleList == ASSUME NEW x PROVE IsList(<<x>>, {x})
BY DEF IsList, IsInjective, Range

\* regfd() of a blocker that is not registered yet.
LEMMA RegFdKeeps ==
  ASSUME IoInv, NEW x \in Live, x \notin reg, Blocker(x).fd \in Fd, RegFd(x),
         UNCHANGED <<blockers, bl, to, heap, place>>
  PROVE  Waits' /\ Listed' /\ Heaped' /\ Live' = Live /\ reg' = reg \cup {x}
<1> DEFINE f == Blocker(x).fd
<1>1. /\ fdlist' = [fdlist EXCEPT ![f] = <<x>> \o @]
      /\ interest' = [interest EXCEPT ![f] = Blocker(x).ev \cup Wanted(fdlist[f])]
      /\ reg' = reg \cup {x}
  BY FdIs DEF RegFd
<1>2. Waits'
  BY DEF IoInv, Waits, WaitsFor, Apart
<1>3. Live' = Live
  BY DEF Live
<1>4. Heaped'
  BY <1>3 DEF IoInv, Heaped, Deadlines
<1>5. f \in Fd /\ \A g \in Fd : Watched(g)' = IF g = f THEN {x} \cup Watched(g) ELSE Watched(g)
  BY <1>1, <1>3 DEF Watched, Blocker
<1>6. /\ fdlist \in [Fd -> Seq(Ref)] /\ interest \in [Fd -> SUBSET Ev]
      /\ \A g \in Fd : /\ IsList(fdlist[g], Watched(g))
                       /\ interest[g] = UNION {Blocker(z).ev : z \in Watched(g)}
  BY DEF IoInv, Listed
<1>7. Blocker(x).ev \in SUBSET Ev
  BY BlockerIs DEF IoInv
<1> HIDE DEF f
<1>8. IsList(<<x>> \o fdlist[f], {x} \cup Watched(f))
  <2>1. {x} \cap Watched(f) = {}
    BY DEF Watched
  <2> QED BY <1>5, <1>6, <2>1, SingleList, ConcatIs
<1>9. Blocker(x).ev \cup Wanted(fdlist[f]) = UNION {Blocker(z).ev : z \in {x} \cup Watched(f)}
  <2>1. Wanted(fdlist[f]) = UNION {Blocker(z).ev : z \in Watched(f)}
    BY <1>5, <1>6, WantedIs
  <2> QED BY <2>1
<1>10. fdlist' \in [Fd -> Seq(Ref)] /\ interest' \in [Fd -> SUBSET Ev]
  <2>1. <<x>> \o fdlist[f] \in Seq(Ref)
    BY <1>5, <1>6, RefIs
  <2>2. Blocker(x).ev \cup Wanted(fdlist[f]) \in SUBSET Ev
    BY <1>5, <1>6, <1>7, WantedIs
  <2> QED BY <1>1, <1>6, <2>1, <2>2
<1>11. \A g \in Fd : /\ IsList(fdlist'[g], Watched(g)')
                     /\ interest'[g] = UNION {Blocker(z).ev : z \in Watched(g)'}
  <2> SUFFICES ASSUME NEW g \in Fd
               PROVE  /\ IsList(fdlist'[g], Watched(g)')
                      /\ interest'[g] = UNION {Blocker(z).ev : z \in Watched(g)'}
    OBVIOUS
  <2>1. CASE g = f
    BY <1>1, <1>5, <1>6, <1>8, <1>9, <2>1
  <2>2. CASE g # f
    BY <1>1, <1>5, <1>6, <2>2
  <2> QED BY <2>1, <2>2
<1>12. \A z : Blocker(z)' = Blocker(z)
  BY DEF Blocker
<1>13. reg' \subseteq {z \in Live' : Blocker(z)'.fd \in Fd}
  BY <1>1, <1>3, <1>12 DEF IoInv, Listed
<1>14. IsList(blockers', Live')
  BY <1>3 DEF IoInv, Listed
<1>15. (\A g \in Fd : /\ IsList(fdlist[g], Watched(g))
                      /\ interest[g] = UNION {Blocker(z).ev : z \in Watched(g)})'
  BY <1>11, <1>12
<1>16. Listed'
  BY <1>10, <1>13, <1>14, <1>15 DEF Listed
<1> QED BY <1>1, <1>2, <1>3, <1>4, <1>16

\* One turn of it: regfd(), or a resume() with the error.
LEMMA RegisterKeeps == ASSUME IoInv, Register PROVE IoInv'
<1>1. /\ current = NULL /\ at = "reg" /\ cur \in Range(blockers) /\ cur' = After(blockers, cur)
      /\ UNCHANGED <<epfd, at, evr, deadline, tnow, now, place, stale>>
  BY DEF Register, InLoop
<1>2. cur \in Live /\ cur # NoRef /\ IsList(blockers, Live) /\ Live \subseteq Ref
  BY <1>1, RefIs DEF IoInv, Listed, IsList
<1>3. cur \notin reg
  <2>1. ~Before(blockers, cur, cur)
    BY <1>2, BeforeOrders
  <2> QED BY <2>1, <1>1, <1>2 DEF IoInv, Walks, Registering, Passed
<1>4. Clock'
  BY <1>1 DEF IoInv, Clock
<1>5. cur' \in (Live \ {cur}) \cup {NoRef}
  BY <1>1, <1>2, AfterIs, RefIs
<1>6. CASE Blocker(cur).fd = NoFd /\ GoOn /\ UNCHANGED lists
  <2>1. MtInv' /\ Sleepers' /\ current' = NULL
    BY <1>1, <1>6, ThreadsGoOn DEF IoInv
  <2>2. Waits' /\ Listed' /\ Heaped' /\ Live' = Live
    BY <1>1, <1>6, ListsStay DEF IoInv
  <2>3. Walks'
    <3>1. UNCHANGED <<blockers, bl, reg>>
      BY <1>6 DEF lists
    <3> QED BY <1>1, <1>2, <1>6, <2>1, <2>2, <3>1, RegisterWalks
  <2> QED BY <1>4, <2>1, <2>2, <2>3 DEF IoInv
<1>7. CASE Blocker(cur).fd \in Fd /\ GoOn /\ RegFd(cur) /\ UNCHANGED <<blockers, bl, to, heap>>
  <2>1. MtInv' /\ Sleepers' /\ current' = NULL
    BY <1>1, <1>7, ThreadsGoOn DEF IoInv
  <2>2. Waits' /\ Listed' /\ Heaped' /\ Live' = Live /\ reg' = reg \cup {cur}
    BY <1>1, <1>2, <1>3, <1>7, RegFdKeeps
  <2>3. Walks'
    BY <1>1, <1>2, <1>7, <2>1, <2>2, RegisterWalks
  <2> QED BY <1>4, <2>1, <2>2, <2>3 DEF IoInv
<1>8. CASE Blocker(cur).fd \in BadFd /\ Resume(cur[1]) /\ UNCHANGED lists
  <2>0. cur[1] \in Muth /\ place[cur[1]] = "blocked"
    BY <1>2, RefIs DEF Live
  <2>1. MtInv' /\ Sleepers' /\ current' = cur[1]
    BY <1>1, <1>8, <2>0, ThreadsResume DEF IoInv
  <2>2. Waits' /\ Listed' /\ Heaped' /\ Live' = Live
    BY <1>1, <1>8, ListsStay DEF IoInv
  <2>3. cur' # NoRef => cur'[1] # cur[1]
    <3> SUFFICES ASSUME cur' # NoRef, cur'[1] = cur[1] PROVE FALSE
      OBVIOUS
    <3>1. /\ cur = <<cur[1], cur[2]>> /\ cur[2] \in {0, 1} /\ cur[2] \in DOMAIN bl[cur[1]]
          /\ cur' = <<cur'[1], cur'[2]>> /\ cur'[2] \in {0, 1} /\ cur'[2] \in DOMAIN bl[cur[1]]
      BY <1>2, <1>5, LiveIs, RefIs DEF IoInv
    <3>2. 1 \in DOMAIN bl[cur[1]]
      BY <1>5, <3>1
    <3>3. bl[cur[1]][0].fd \notin BadFd /\ bl[cur[1]][1].fd \notin BadFd
      BY <2>0, <3>2 DEF IoInv, Waits, WaitsFor
    <3> QED BY <1>8, <3>1, <3>3 DEF Blocker
  <2>4. Walks'
    <3>1. UNCHANGED <<blockers, bl, reg>>
      BY <1>8 DEF lists
    <3> QED BY <1>1, <1>2, <1>8, <2>1, <2>2, <2>3, <3>1, RegisterWalks
  <2> QED BY <1>4, <2>1, <2>2, <2>4 DEF IoInv
<1>9. Blocker(cur).fd \in Fd \cup BadFd \cup {NoFd}
  BY <1>2, BlockerIs DEF IoInv
<1>10. Blocker(cur).fd = NoFd /\ RegFd(cur) => UNCHANGED <<fdlist, interest, reg>>
  BY DEF RegFd
<1> QED BY <1>6, <1>7, <1>8, <1>9, <1>10, FdIs DEF Register, lists

-----------------------------------------------------------------------------
(* The steps that take blockers out of the lists.                          *)

\* remfd() of some blockers leaves the others in the lists, and watched.
LEMMA RemFdsKeeps ==
  ASSUME Waits, Listed, NEW refs, RemFds(refs)
  PROVE  /\ reg' = reg \ refs
         /\ fdlist' \in [Fd -> Seq(Ref)] /\ interest' \in [Fd -> SUBSET Ev]
         /\ \A f \in Fd : /\ IsList(fdlist'[f], Watched(f) \ refs)
                          /\ interest'[f] = UNION {Blocker(z).ev : z \in Watched(f) \ refs}
<1> DEFINE gone == refs \cap reg
           touched == {Blocker(z).fd : z \in gone}
           rest == [f \in Fd |-> Without(fdlist[f], gone)]
<1>1. /\ fdlist' = rest
      /\ interest' = [f \in Fd |-> IF f \in touched THEN Wanted(rest[f]) ELSE interest[f]]
      /\ reg' = reg \ gone
  BY DEF RemFds
<1>2. \A f \in Fd : /\ IsList(fdlist[f], Watched(f))
                    /\ interest[f] = UNION {Blocker(z).ev : z \in Watched(f)}
  BY DEF Listed
<1>3. \A f \in Fd : Watched(f) \ gone = Watched(f) \ refs /\ Watched(f) \subseteq Live
  BY DEF Watched
<1> HIDE DEF gone
<1>4. \A f \in Fd : IsList(rest[f], Watched(f) \ refs)
  <2> SUFFICES ASSUME NEW f \in Fd PROVE IsList(Without(fdlist[f], gone), Watched(f) \ refs)
    OBVIOUS
  <2>1. IsList(Without(fdlist[f], gone), Watched(f) \ gone)
    BY <1>2, WithoutIs
  <2> QED BY <2>1, <1>3
<1> HIDE DEF rest
<1>5. \A f \in Fd : f \notin touched => Watched(f) \ refs = Watched(f)
  BY DEF Watched, gone
<1>6. \A f \in Fd : interest'[f] = UNION {Blocker(z).ev : z \in Watched(f) \ refs}
  <2> SUFFICES ASSUME NEW f \in Fd PROVE interest'[f] = UNION {Blocker(z).ev : z \in Watched(f) \ refs}
    OBVIOUS
  <2>1. CASE f \in touched
    <3>1. Wanted(rest[f]) = UNION {Blocker(z).ev : z \in Watched(f) \ refs}
      BY <1>4, WantedIs
    <3>2. interest'[f] = Wanted(rest[f])
      BY <1>1, <2>1
    <3> QED BY <3>1, <3>2
  <2>2. CASE f \notin touched
    <3>1. interest'[f] = interest[f]
      BY <1>1, <2>2
    <3> QED BY <3>1, <2>2, <1>2, <1>5
  <2> QED BY <2>1, <2>2
<1>7. fdlist' \in [Fd -> Seq(Ref)]
  <2>1. \A f \in Fd : rest[f] \in Seq(Ref)
    <3> SUFFICES ASSUME NEW f \in Fd PROVE rest[f] \in Seq(Ref)
      OBVIOUS
    <3>1. rest[f] \in Seq(Watched(f) \ refs) /\ Watched(f) \ refs \subseteq Ref
      BY <1>3, <1>4, RefIs DEF IsList
    <3> QED BY <3>1, SeqMonotonic
  <2> QED BY <2>1, <1>1 DEF rest
<1>8. interest' \in [Fd -> SUBSET Ev]
  <2>1. \A z \in Live : Blocker(z).ev \in SUBSET Ev
    BY BlockerIs
  <2>2. \A f \in Fd : interest'[f] \in SUBSET Ev
    BY <1>3, <1>6, <2>1
  <2> HIDE DEF touched
  <2>3. interest' = [f \in Fd |-> interest'[f]]
    BY <1>1
  <2> QED BY <2>2, <2>3
<1>9. reg' = reg \ refs
  BY <1>1 DEF gone
<1> QED BY <1>1, <1>4, <1>6, <1>7, <1>8, <1>9

\* ioloop() returns, and nothing is registered.
LEMMA LeaveKeeps == ASSUME IoInv, Leave PROVE IoInv'
<1>1. /\ current = NULL /\ at = "top" /\ at' = "out" /\ epfd' = FALSE /\ cur' = cur /\ GoOn
      /\ UNCHANGED <<blockers, bl, to, heap, evr, deadline, tnow, now, place, stale>>
      /\ RemFds(Range(blockers))
  BY DEF Leave, InLoop
<1>2. MtInv' /\ Sleepers' /\ current' = NULL
  BY <1>1, ThreadsGoOn DEF IoInv
<1>3. Waits'
  BY <1>1 DEF IoInv, Waits, WaitsFor, Apart
<1>4. Live' = Live
  BY <1>1 DEF Live
<1>5. Heaped'
  BY <1>1, <1>4 DEF IoInv, Heaped, Deadlines
<1>6. IsList(blockers, Live) /\ Range(blockers) = Live /\ reg \subseteq Live
  BY DEF IoInv, Listed, IsList
<1>7. /\ reg' = reg \ Live
      /\ fdlist' \in [Fd -> Seq(Ref)] /\ interest' \in [Fd -> SUBSET Ev]
      /\ \A f \in Fd : /\ IsList(fdlist'[f], Watched(f) \ Live)
                       /\ interest'[f] = UNION {Blocker(z).ev : z \in Watched(f) \ Live}
  BY <1>1, <1>6, RemFdsKeeps DEF IoInv
<1>8. reg' = {}
  BY <1>6, <1>7
<1>9. \A f : Watched(f) \ Live = {} /\ Watched(f)' = {}
  BY <1>8 DEF Watched
<1>10. Listed'
  <2>1. (\A f \in Fd : /\ IsList(fdlist[f], Watched(f))
                       /\ interest[f] = UNION {Blocker(z).ev : z \in Watched(f)})'
    <3> SUFFICES ASSUME NEW f \in Fd
                 PROVE  /\ IsList(fdlist'[f], Watched(f)')
                        /\ interest'[f] = UNION {Blocker(z)'.ev : z \in Watched(f)'}
      OBVIOUS
    <3>1. IsList(fdlist'[f], {}) /\ interest'[f] = UNION {Blocker(z).ev : z \in {}} /\ Watched(f)' = {}
      <4>1. Watched(f) \ Live = {} /\ Watched(f)' = {}
        BY <1>9
      <4>2. /\ IsList(fdlist'[f], Watched(f) \ Live)
            /\ interest'[f] = UNION {Blocker(z).ev : z \in Watched(f) \ Live}
        BY <1>7
      <4>3. IsList(fdlist'[f], {})
        BY <4>1, <4>2, Zenon
      <4>4. interest'[f] = UNION {Blocker(z).ev : z \in {}}
        BY <4>1, <4>2, Zenon
      <4> QED BY <4>1, <4>3, <4>4
    <3>2. interest'[f] = {} /\ UNION {Blocker(z)'.ev : z \in Watched(f)'} = {}
      BY <3>1
    <3> QED BY <3>1, <3>2
  <2> QED BY <1>1, <1>4, <1>6, <1>7, <1>8, <2>1 DEF Listed
<1>11. Walks'
  BY <1>1, <1>2, <1>8 DEF IoInv, Walks
<1>12. Clock'
  BY <1>1 DEF IoInv, Clock
<1> QED BY <1>2, <1>3, <1>5, <1>10, <1>11, <1>12 DEF IoInv

\* What remblock() of all its blockers leaves, for a muth that has waited.
LEMMA RemBlocksKeeps ==
  ASSUME Waits, Listed, Heaped, NEW m \in Muth, RemBlocks(m), place' = [place EXCEPT ![m] = "own"], DOMAIN place = Muth
  PROVE  /\ Waits' /\ Listed' /\ Heaped'
         /\ Live' = {z \in Live : z[1] # m} /\ reg' = {z \in reg : z[1] # m}
         /\ \A q, z \in Live' : Before(blockers', q, z) <=> Before(blockers, q, z)
         /\ \A z \in Live' : Blocker(z)' = Blocker(z)
<1> DEFINE mine == {<<m, i>> : i \in DOMAIN bl[m]}
           del(H, i) == IF i \in DOMAIN bl[m] THEN ThDel(H, <<m, i>>) ELSE H
<1>1. /\ blockers' = Without(blockers, mine)
      /\ bl' = [bl EXCEPT ![m] = <<>>]
      /\ to' = [to EXCEPT ![m] = 0]
      /\ heap' = IF to[m] = 0 THEN heap ELSE del(del(heap, 0), 1)
      /\ RemFds(mine)
  BY DEF RemBlocks
<1>2. DOMAIN bl' = Muth /\ DOMAIN bl'[m] = {} /\ \A n \in Muth : n # m => bl'[n] = bl[n]
  <2>1. DOMAIN bl = Muth /\ DOMAIN <<>> = {}
    BY EmptySeq DEF Waits
  <2> QED BY <1>1, <2>1
<1>3. to' \in [Muth -> 0 .. MaxNow] /\ to'[m] = 0 /\ \A n \in Muth : n # m => to'[n] = to[n]
  <2>1. to \in [Muth -> 0 .. MaxNow] /\ 0 \in 0 .. MaxNow
    BY MtioEpollAssumption DEF Waits, MtioEpollAssumption
  <2> QED BY <1>1, <2>1
<1>4. place'[m] = "own" /\ \A n \in Muth : n # m => place'[n] = place[n]
  OBVIOUS
<1>5. Waits'
  <2>1. \A n \in Muth : WaitsFor(n)'
    <3> SUFFICES ASSUME NEW n \in Muth PROVE WaitsFor(n)'
      OBVIOUS
    <3>1. CASE n = m
      BY <3>1, <1>2, <1>3, <1>4 DEF WaitsFor
    <3>2. CASE n # m
      <4>1. bl'[n] = bl[n] /\ to'[n] = to[n] /\ place'[n] = place[n]
        BY <3>2, <1>2, <1>3, <1>4
      <4>2. WaitsFor(n)
        BY DEF Waits
      <4> QED BY <4>1, <4>2 DEF WaitsFor
    <3> QED BY <3>1, <3>2
  <2>2. \A l \in Lone : \A n \in Muth \ {l} : Apart(l, n)'
    <3>1. Lone \subseteq Muth
      BY MtioEpollAssumption DEF MtioEpollAssumption
    <3> SUFFICES ASSUME NEW l \in Lone, NEW n \in Muth \ {l} PROVE Apart(l, n)'
      OBVIOUS
    <3>2. CASE l = m \/ n = m
      BY <3>2, <1>2 DEF Apart
    <3>3. CASE l # m /\ n # m
      <4>1. bl'[n] = bl[n] /\ bl'[l] = bl[l] /\ Apart(l, n)
        BY <3>1, <3>3, <1>2 DEF Waits
      <4> QED BY <4>1 DEF Apart
    <3> QED BY <3>2, <3>3
  <2> QED BY <1>2, <1>3, <2>1, <2>2 DEF Waits
<1>6. \A z \in Live : z \in mine <=> z[1] = m
  <2>1. \A z \in Live : z \in Ref /\ z[2] \in DOMAIN bl[z[1]] /\ z = <<z[1], z[2]>>
    BY LiveIs, RefIs
  <2> QED BY <2>1
<1> HIDE DEF mine
<1>7. Live' = Live \ mine
  <2> SUFFICES ASSUME NEW z PROVE z \in Live' <=> z \in Live \ mine
    OBVIOUS
  <2>1. z \in Live' <=> z \in Ref /\ z[2] \in DOMAIN bl'[z[1]]
    BY <1>5, LiveIsNext
  <2>2. z \in Live <=> z \in Ref /\ z[2] \in DOMAIN bl[z[1]]
    BY LiveIs
  <2>3. z \in Ref => z[1] \in Muth
    BY RefIs
  <2> QED BY <2>1, <2>2, <2>3, <1>2, <1>6
<1>8. \A z \in Live' : z \in Live /\ z[1] # m /\ z[1] \in Muth /\ Blocker(z)' = Blocker(z)
  <2>1. \A z \in Live' : z \in Live /\ z[1] # m /\ z[1] \in Muth
    BY <1>6, <1>7, RefIs
  <2> QED BY <2>1, <1>2 DEF Blocker
<1>9. /\ IsList(blockers', Live')
      /\ \A q, z \in Live' : Before(blockers', q, z) <=> Before(blockers, q, z)
  <2>1. IsList(blockers, Live)
    BY DEF Listed
  <2> QED BY <1>1, <1>7, <2>1, WithoutIs
<1>10. /\ reg' = reg \ mine
       /\ fdlist' \in [Fd -> Seq(Ref)] /\ interest' \in [Fd -> SUBSET Ev]
       /\ \A f \in Fd : /\ IsList(fdlist'[f], Watched(f) \ mine)
                        /\ interest'[f] = UNION {Blocker(z).ev : z \in Watched(f) \ mine}
  BY <1>1, RemFdsKeeps
<1>11. \A f \in Fd : Watched(f)' = Watched(f) \ mine
  BY <1>7, <1>8, <1>10 DEF Watched
<1>12. Listed'
  <2>1. reg' \subseteq {z \in Live' : Blocker(z)'.fd \in Fd}
    BY <1>7, <1>8, <1>10 DEF Listed
  <2>2. (\A f \in Fd : /\ IsList(fdlist[f], Watched(f))
                       /\ interest[f] = UNION {Blocker(z).ev : z \in Watched(f)})'
    <3>1. \A f \in Fd : \A z \in Watched(f) \ mine : Blocker(z)' = Blocker(z)
      BY <1>7, <1>8 DEF Watched
    <3>2. \A f \in Fd : UNION {Blocker(z).ev : z \in Watched(f) \ mine} = UNION {Blocker(z)'.ev : z \in Watched(f) \ mine}
      BY <3>1
    <3> QED BY <1>10, <1>11, <3>2
  <2> QED BY <1>9, <1>10, <2>1, <2>2 DEF Listed
<1>13. \A y \in Deadlines : y.el \in Live /\ y.tm = to[y.el[1]] /\ to[y.el[1]] > 0
  BY DEF Deadlines
<1>14. Deadlines' = {y \in Deadlines : y.el \notin mine}
  <2>1. \A z \in Live' : to'[z[1]] = to[z[1]]
    BY <1>3, <1>8
  <2>2. Deadlines' = {[el |-> z, tm |-> to[z[1]]] : z \in {q \in Live' : to[q[1]] > 0}}
    BY <2>1 DEF Deadlines
  <2> QED BY <2>2, <1>7 DEF Deadlines
<1>15. Heaped'
  <2>1. HeapHas(heap, Deadlines)
    BY DEF Heaped
  <2>2. CASE to[m] = 0
    <3>1. Deadlines' = Deadlines
      BY <1>6, <1>13, <1>14, <2>2
    <3> QED BY <3>1, <2>1, <2>2, <1>1 DEF Heaped
  <2>3. CASE to[m] # 0
    <3> DEFINE e(i) == [el |-> <<m, i>>, tm |-> to[m]]
    <3>1. to[m] > 0
      BY <2>3 DEF Waits
    <3>2. \A i \in DOMAIN bl[m] : e(i) \in Deadlines /\ e(i).el = <<m, i>>
      BY <3>1, LiveIs DEF Deadlines
    <3>3. CASE DOMAIN bl[m] = {0}
      <4>1. heap' = ThDel(heap, <<m, 0>>)
        BY <3>3, <2>3, <1>1
      <4>2. HeapHas(heap', {y \in Deadlines : y.el # <<m, 0>>})
        <5>1. e(0) \in Deadlines /\ e(0).el = <<m, 0>>
          BY <3>2, <3>3
        <5> HIDE DEF e
        <5> QED BY <5>1, <4>1, <2>1, HeapDels
      <4>3. mine = {<<m, 0>>}
        BY <3>3 DEF mine
      <4>4. Deadlines' = {y \in Deadlines : y.el # <<m, 0>>}
        BY <1>14, <4>3
      <4> QED BY <4>2, <4>4 DEF Heaped
    <3>4. CASE DOMAIN bl[m] = {0, 1}
      <4> DEFINE X == {y \in Deadlines : y.el # <<m, 0>>}
      <4>1. heap' = ThDel(ThDel(heap, <<m, 0>>), <<m, 1>>)
        BY <3>4, <2>3, <1>1
      <4>2. HeapHas(ThDel(heap, <<m, 0>>), X)
        <5>1. e(0) \in Deadlines /\ e(0).el = <<m, 0>>
          BY <3>2, <3>4
        <5> HIDE DEF e
        <5> QED BY <5>1, <2>1, HeapDels
      <4>3. e(1) \in X /\ e(1).el = <<m, 1>>
        BY <3>2, <3>4
      <4> HIDE DEF X, e
      <4>4. HeapHas(heap', {y \in X : y.el # <<m, 1>>})
        BY <4>1, <4>2, <4>3, HeapDels
      <4>5. mine = {<<m, 0>>, <<m, 1>>}
        BY <3>4 DEF mine
      <4>6. Deadlines' = {y \in X : y.el # <<m, 1>>}
        BY <1>14, <4>5 DEF X
      <4> QED BY <4>4, <4>6 DEF Heaped
    <3>5. CASE DOMAIN bl[m] = {}
      BY <3>5, <2>3 DEF Waits, WaitsFor
    <3> QED BY <3>3, <3>4, <3>5 DEF Waits, WaitsFor
  <2> QED BY <2>2, <2>3
<1>16. Live' = {z \in Live : z[1] # m}
  BY <1>6, <1>7
<1>17. reg' = {z \in reg : z[1] # m}
  BY <1>6, <1>10 DEF Listed
<1> QED BY <1>5, <1>8, <1>9, <1>12, <1>15, <1>16, <1>17

\* A muth that was resumed takes its blockers out of the lists: a walk goes on
\* with another.
LEMMA UnblockKeeps == ASSUME IoInv, NEW m \in Muth, Unblock(m) PROVE IoInv'
<1>1. /\ current = m /\ place[m] = "blocked" /\ GoOn /\ place' = [place EXCEPT ![m] = "own"]
      /\ RemBlocks(m) /\ stale' = (stale \/ (cur # NoRef /\ cur[1] = m))
      /\ UNCHANGED <<epfd, at, cur, evr, deadline, tnow, now>>
  BY DEF Unblock, loopvars
<1>2. MtInv' /\ Sleepers' /\ current' = m
  BY <1>1, ThreadsUnblock DEF IoInv
<1>3. /\ Waits' /\ Listed' /\ Heaped'
      /\ Live' = {z \in Live : z[1] # m} /\ reg' = {z \in reg : z[1] # m}
      /\ \A q, z \in Live' : Before(blockers', q, z) <=> Before(blockers, q, z)
      /\ \A z \in Live' : Blocker(z)' = Blocker(z)
  <2>1. DOMAIN place = Muth
    BY DEF IoInv, Sleepers
  <2> QED BY <1>1, <2>1, RemBlocksKeeps DEF IoInv
<1>4. m # NULL /\ (cur # NoRef => cur[1] # m /\ (at = "events" => cur[1] \notin Lone))
  BY <1>1, MtAssumption DEF IoInv, Walks
<1>5. ~stale'
  BY <1>1, <1>4 DEF IoInv, Walks
<1>6. cur # NoRef => cur \in Live'
  BY <1>3, <1>4, NextWaits DEF IoInv
<1>7. at = "reg" => Registering'
  <2> SUFFICES ASSUME at = "reg" PROVE Registering'
    OBVIOUS
  <2>1. \A z \in Live' : Passed(z)' <=> Passed(z)
    BY <1>1, <1>3, <1>6 DEF Passed
  <2>2. (\A z \in Live : Passed(z) \/ z \notin reg)'
    BY <1>3, <2>1 DEF IoInv, Walks, Registering
  <2>3. (\A z \in Live : Passed(z) => \/ z \in reg
                                      \/ Blocker(z).fd = NoFd
                                      \/ Blocker(z).fd \in BadFd /\ z[1] = current)'
    BY <1>1, <1>3, <2>1 DEF IoInv, Walks, Registering
  <2> QED BY <1>1, <1>6, <2>2, <2>3 DEF Registering
<1>8. (at \in {"top", "wait", "events", "times"} => \A z \in Live : z \in reg \/ Blocker(z).fd = NoFd)'
  BY <1>1, <1>3 DEF IoInv, Walks
<1>9. (at = "events" => (cur # NoRef => cur \in Watched(Head(evr).fd)))'
  <2> SUFFICES ASSUME at = "events", cur # NoRef PROVE cur \in Live' /\ cur \in reg' /\ Blocker(cur)'.fd = Head(evr).fd
    BY <1>1 DEF Watched, Blocker
  <2>1. cur \in Live /\ cur \in reg /\ Blocker(cur).fd = Head(evr).fd
    BY DEF IoInv, Walks, Watched
  <2>2. Blocker(cur)' = bl'[cur[1]][cur[2]]
    BY <1>1 DEF Blocker
  <2> QED BY <2>1, <1>1, <1>3, <1>4, <1>6
<1>10. Walks'
  BY <1>1, <1>2, <1>3, <1>4, <1>5, <1>7, <1>8, <1>9 DEF IoInv, Walks
<1>11. Clock'
  BY <1>1 DEF IoInv, Clock
<1> QED BY <1>2, <1>3, <1>10, <1>11 DEF IoInv

-----------------------------------------------------------------------------
(* The step that adds blockers.                                            *)

New(m, n) == {<<m, i>> : i \in 0 .. n - 1}

\* The blockers of one call, as a list.
LEMMA NewIs ==
  ASSUME NEW m, NEW n \in Nat
  PROVE  IsList([k \in 1 .. n |-> <<m, n - k>>], New(m, n))
<1> DEFINE s == [k \in 1 .. n |-> <<m, n - k>>]
<1>1. \A k \in 1 .. n : n - k \in 0 .. n - 1 /\ s[k] = <<m, n - k>>
  OBVIOUS
<1>2. \A k \in 1 .. n : s[k] \in New(m, n)
  BY <1>1 DEF New
<1>3. s \in Seq(New(m, n)) /\ Len(s) = n
  <2>1. s \in [1 .. n -> New(m, n)]
    BY <1>2
  <2> HIDE DEF s
  <2> QED BY <2>1, SeqDef, LenProperties
<1>4. \A j, k \in 1 .. n : s[j] = s[k] => j = k
  BY <1>1
<1>5. \A x \in New(m, n) : \E k \in 1 .. n : s[k] = x
  <2> SUFFICES ASSUME NEW i \in 0 .. n - 1 PROVE \E k \in 1 .. n : s[k] = <<m, i>>
    BY DEF New
  <2>1. n - i \in 1 .. n /\ n - (n - i) = i
    OBVIOUS
  <2> QED BY <2>1, <1>1
<1> HIDE DEF s
<1>6. IsList(s, New(m, n))
  BY <1>3, <1>4, <1>5, ListMade
<1> QED BY <1>6 DEF s

\* What block() and mblock() are called with.
LEMMA SpecIs ==
  ASSUME NEW spec \in Specs
  PROVE  /\ Len(spec) \in {0, 1, 2} /\ DOMAIN spec = 1 .. Len(spec)
         /\ \A k \in 1 .. Len(spec) : spec[k] \in WaitedFor
         /\ Len(spec) = 2 => spec[1].fd # spec[2].fd
         /\ spec = <<>> <=> Len(spec) = 0
<1>1. spec \in Seq(WaitedFor)
  BY MtioEpollAssumption DEF MtioEpollAssumption, WaitedFor
<1>2. Len(spec) \in Nat /\ DOMAIN spec = 1 .. Len(spec)
  BY <1>1, LenProperties
<1>3. \A k \in 1 .. Len(spec) : spec[k] \in WaitedFor
  BY <1>1, ElementOfSeq
<1>4. Len(spec) < 2 \/ (Len(spec) = 2 /\ spec[1].fd # spec[2].fd)
  BY MtioEpollAssumption DEF MtioEpollAssumption
<1>5. spec = <<>> <=> Len(spec) = 0
  BY <1>1, EmptySeq
<1> QED BY <1>2, <1>3, <1>4, <1>5

\* A call of block() or mblock(): the arguments, and what the code that calls
\* them keeps to.
Asks(m, spec, t) ==
  /\ spec \in Specs /\ t \in 0 .. MaxNow
  /\ m \in Muth /\ place[m] = "own" /\ DOMAIN place = Muth
  /\ m \in Lone => Len(spec) = 1
  /\ \A k \in DOMAIN spec : \A z \in Live :
       (spec[k].fd # NoFd /\ spec[k].fd = Blocker(z).fd) => m \notin Lone /\ z[1] \notin Lone
  /\ Refused(spec) => Len(spec) = 1
  /\ place' = [place EXCEPT ![m] = "blocked"]
  /\ AddBlocks(m, spec, t)

\* What it adds to what the muths wait for.
LEMMA AddedWaits ==
  ASSUME Waits, NEW m, NEW spec, NEW t, Asks(m, spec, t)
  PROVE  /\ Waits' /\ Live' = Live \cup New(m, Len(spec)) /\ New(m, Len(spec)) \cap Live = {}
         /\ \A z \in New(m, Len(spec)) : Blocker(z)' = spec[z[2] + 1] /\ z[1] = m /\ to'[z[1]] = t
         /\ \A z \in Live : Blocker(z)' = Blocker(z) /\ z[1] # m /\ to'[z[1]] = to[z[1]]
<1> DEFINE n == Len(spec)
<1>1. /\ n \in {0, 1, 2} /\ DOMAIN spec = 1 .. n /\ \A k \in 1 .. n : spec[k] \in WaitedFor
      /\ n = 2 => spec[1].fd # spec[2].fd
      /\ spec = <<>> <=> n = 0
  BY SpecIs DEF Asks
<1>2. m \in Muth /\ place[m] = "own" /\ DOMAIN bl = Muth /\ DOMAIN bl[m] = {} /\ t \in 0 .. MaxNow
  BY DEF Asks, Waits, WaitsFor
<1>3. /\ bl' = [bl EXCEPT ![m] = [i \in 0 .. n - 1 |-> spec[i + 1]]]
      /\ to' = [to EXCEPT ![m] = IF spec = <<>> THEN 0 ELSE t]
  BY DEF Asks, AddBlocks
<1> HIDE DEF n
<1>4. /\ DOMAIN bl' = Muth /\ DOMAIN bl'[m] = 0 .. n - 1 /\ \A k \in Muth : k # m => bl'[k] = bl[k]
      /\ \A i \in 0 .. n - 1 : bl'[m][i] = spec[i + 1]
  BY <1>2, <1>3
<1>5. /\ to' \in [Muth -> 0 .. MaxNow] /\ to'[m] = (IF n = 0 THEN 0 ELSE t)
      /\ \A k \in Muth : k # m => to'[k] = to[k]
  <2>1. to \in [Muth -> 0 .. MaxNow] /\ 0 \in 0 .. MaxNow
    BY MtioEpollAssumption DEF Waits, MtioEpollAssumption
  <2> QED BY <1>1, <1>2, <1>3, <2>1
<1>6. place'[m] = "blocked" /\ \A k \in Muth : k # m => place'[k] = place[k]
  BY DEF Asks
<1>7. \A i \in 0 .. n - 1 : i + 1 \in 1 .. n /\ bl'[m][i] \in WaitedFor
  BY <1>1, <1>4
<1>8. WaitsFor(m)'
  <2>1. DOMAIN bl'[m] \in {{}, {0}, {0, 1}}
    BY <1>1, <1>4
  <2>2. DOMAIN bl'[m] = {} => to'[m] = 0
    BY <1>1, <1>4, <1>5
  <2>3. 1 \in DOMAIN bl'[m] => /\ n = 2 /\ bl'[m][0] = spec[1] /\ bl'[m][1] = spec[2]
    BY <1>1, <1>4
  <2>4. n = 2 => spec[1].fd \notin BadFd /\ spec[2].fd \notin BadFd
    <3>1. n = 2 => ~Refused(spec)
      BY DEF Asks, n
    <3> QED BY <3>1, <1>1 DEF Refused
  <2>5. m \in Lone => 1 \notin DOMAIN bl'[m]
    <3>1. m \in Lone => n = 1
      BY DEF Asks, n
    <3> QED BY <3>1, <2>3
  <2>6. \A i \in DOMAIN bl'[m] : bl'[m][i] \in WaitedFor
    BY <1>4, <1>7
  <2>7. 1 \in DOMAIN bl'[m] => /\ bl'[m][0].fd # bl'[m][1].fd
                               /\ bl'[m][0].fd \notin BadFd /\ bl'[m][1].fd \notin BadFd
    BY <1>1, <2>3, <2>4
  <2> QED BY <1>6, <2>1, <2>2, <2>5, <2>6, <2>7 DEF WaitsFor
<1>9. \A k \in Muth : WaitsFor(k)'
  <2> SUFFICES ASSUME NEW k \in Muth, k # m PROVE WaitsFor(k)'
    BY <1>8
  <2>1. bl'[k] = bl[k] /\ to'[k] = to[k] /\ place'[k] = place[k] /\ WaitsFor(k)
    BY <1>4, <1>5, <1>6 DEF Waits
  <2> QED BY <2>1 DEF WaitsFor
<1>10. \A k \in Muth : \A i \in DOMAIN bl[k] : \A j \in DOMAIN bl'[m] :
         (bl[k][i].fd = bl'[m][j].fd /\ bl'[m][j].fd # NoFd) => m \notin Lone /\ k \notin Lone
  <2> SUFFICES ASSUME NEW k \in Muth, NEW i \in DOMAIN bl[k], NEW j \in DOMAIN bl'[m],
                      bl[k][i].fd = bl'[m][j].fd, bl'[m][j].fd # NoFd
               PROVE  m \notin Lone /\ k \notin Lone
    OBVIOUS
  <2>1. <<k, i>> \in Live /\ Blocker(<<k, i>>) = bl[k][i]
    BY LiveIs DEF Blocker
  <2>2. j + 1 \in DOMAIN spec /\ spec[j + 1] = bl'[m][j]
    BY <1>1, <1>4, <1>7
  <2>3. <<k, i>>[1] = k
    OBVIOUS
  <2> QED BY <2>1, <2>2, <2>3 DEF Asks
<1>11. \A l \in Lone : \A k \in Muth \ {l} : Apart(l, k)'
  <2>1. Lone \subseteq Muth
    BY MtioEpollAssumption DEF MtioEpollAssumption
  <2> SUFFICES ASSUME NEW l \in Lone, NEW k \in Muth \ {l} PROVE Apart(l, k)'
    OBVIOUS
  <2>2. CASE l = m
    <3>1. bl'[k] = bl[k]
      BY <2>2, <1>4
    <3> QED BY <3>1, <2>2, <1>10 DEF Apart
  <2>3. CASE k = m
    <3>1. bl'[l] = bl[l]
      BY <2>1, <2>3, <1>4
    <3> QED BY <2>1, <3>1, <2>3, <1>10 DEF Apart
  <2>4. CASE l # m /\ k # m
    <3>1. bl'[k] = bl[k] /\ bl'[l] = bl[l] /\ Apart(l, k)
      BY <2>1, <2>4, <1>4 DEF Waits
    <3> QED BY <3>1 DEF Apart
  <2> QED BY <2>2, <2>3, <2>4
<1>12. Waits'
  BY <1>4, <1>5, <1>9, <1>11 DEF Waits
<1>13. \A z \in Live : z[1] # m /\ z[1] \in Muth
  BY <1>2, LiveIs, RefIs
<1>14. \A i \in 0 .. n - 1 : <<m, i>> \in Ref
  BY <1>1, <1>2 DEF Ref
<1>15. Live' = Live \cup New(m, n)
  <2> SUFFICES ASSUME NEW z PROVE z \in Live' <=> z \in Live \/ z \in New(m, n)
    OBVIOUS
  <2>1. z \in Live' <=> z \in Ref /\ z[2] \in DOMAIN bl'[z[1]]
    BY <1>12, LiveIsNext
  <2>2. z \in Live <=> z \in Ref /\ z[2] \in DOMAIN bl[z[1]]
    BY LiveIs
  <2>3. z \in Ref => z[1] \in Muth /\ z = <<z[1], z[2]>>
    BY RefIs
  <2>4. z \in New(m, n) <=> z \in Ref /\ z[1] = m /\ z[2] \in 0 .. n - 1
    BY <2>3, <1>14 DEF New
  <2> QED BY <2>1, <2>2, <2>3, <2>4, <1>2, <1>4
<1>16. \A z \in New(m, n) : z[1] = m /\ z[2] \in 0 .. n - 1
  BY DEF New
<1>17. \A z \in New(m, n) : Blocker(z)' = spec[z[2] + 1] /\ z[1] = m /\ to'[z[1]] = t
  <2> SUFFICES ASSUME NEW z \in New(m, n) PROVE Blocker(z)' = spec[z[2] + 1] /\ z[1] = m /\ to'[z[1]] = t
    OBVIOUS
  <2>1. z[1] = m /\ z[2] \in 0 .. n - 1
    BY <1>16
  <2>2. Blocker(z)' = bl'[m][z[2]]
    BY <2>1 DEF Blocker
  <2>3. bl'[m][z[2]] = spec[z[2] + 1]
    BY <1>4, <2>1
  <2>4. n # 0
    BY <1>1, <2>1
  <2> QED BY <1>5, <2>1, <2>2, <2>3, <2>4
<1>18. \A z \in Live : Blocker(z)' = Blocker(z) /\ z[1] # m /\ to'[z[1]] = to[z[1]]
  BY <1>4, <1>5, <1>13 DEF Blocker
<1>19. New(m, n) \cap Live = {}
  BY <1>13, <1>16
<1> QED BY <1>12, <1>15, <1>17, <1>18, <1>19 DEF n

\* ... to the heap, ...
LEMMA AddedHeap ==
  ASSUME Waits, Heaped, NEW m, NEW spec, NEW t, Asks(m, spec, t)
  PROVE  Heaped'
<1> DEFINE n == Len(spec)
           e(i) == [el |-> <<m, i>>, tm |-> t]
           add(H, i) == IF i < n THEN ThAdd(H, [el |-> <<m, i>>, tm |-> t]) ELSE H
<1>1. n \in {0, 1, 2}
  BY SpecIs DEF Asks
<1>2. m \in Muth /\ t \in 0 .. MaxNow /\ t \in Nat
  BY MtioEpollAssumption DEF Asks, MtioEpollAssumption
<1>3. heap' = IF t = 0 THEN heap ELSE add(add(heap, 0), 1)
  BY DEF Asks, AddBlocks
<1>4. /\ Live' = Live \cup New(m, n) /\ New(m, n) \cap Live = {}
      /\ \A z \in New(m, n) : to'[z[1]] = t
      /\ \A z \in Live : to'[z[1]] = to[z[1]]
  BY AddedWaits
<1> HIDE DEF n
<1>5. HeapHas(heap, Deadlines)
  BY DEF Heaped
<1>6. Deadlines' = IF t = 0 THEN Deadlines ELSE Deadlines \cup {[el |-> z, tm |-> t] : z \in New(m, n)}
  <2>1. CASE t = 0
    <3>1. \A z : z \in Live' /\ to'[z[1]] > 0 <=> z \in Live /\ to[z[1]] > 0
      BY <1>4, <2>1
    <3>2. \A z \in Live : to'[z[1]] = to[z[1]]
      BY <1>4
    <3> QED BY <2>1, <3>1, <3>2 DEF Deadlines
  <2>2. CASE t # 0
    <3>1. \A z : z \in Live' /\ to'[z[1]] > 0 <=> (z \in Live /\ to[z[1]] > 0) \/ z \in New(m, n)
      BY <1>2, <1>4, <2>2
    <3>2. (\A z \in Live : to'[z[1]] = to[z[1]]) /\ (\A z \in New(m, n) : to'[z[1]] = t)
      BY <1>4
    <3> QED BY <2>2, <3>1, <3>2 DEF Deadlines
  <2> QED BY <2>1, <2>2
<1>7. \A y \in Deadlines : y.el \in Live
  BY DEF Deadlines
<1>8. CASE t = 0 \/ n = 0
  <2>1. heap' = heap
    BY <1>3, <1>8
  <2>2. n = 0 => New(m, n) = {}
    BY DEF New
  <2>3. Deadlines' = Deadlines
    BY <1>6, <1>8, <2>2
  <2> QED BY <1>5, <2>1, <2>3 DEF Heaped
<1>9. CASE t # 0 /\ n = 1
  <2>1. heap' = ThAdd(heap, e(0))
    BY <1>3, <1>9
  <2>2. New(m, n) = {<<m, 0>>}
    BY <1>9 DEF New
  <2>3. e(0) \in Entry(Ref) /\ \A y \in Deadlines : y.el # e(0).el
    BY <1>2, <1>4, <1>7, <2>2 DEF Entry, Ref
  <2>4. Deadlines' = Deadlines \cup {e(0)}
    BY <1>6, <1>9, <2>2
  <2> HIDE DEF e
  <2>5. HeapHas(heap', Deadlines \cup {e(0)})
    BY <2>1, <2>3, <1>5, HeapAdds
  <2> QED BY <2>4, <2>5 DEF Heaped
<1>10. CASE t # 0 /\ n = 2
  <2>1. heap' = ThAdd(ThAdd(heap, e(0)), e(1))
    BY <1>3, <1>10
  <2>2. New(m, n) = {<<m, 0>>, <<m, 1>>}
    BY <1>10 DEF New
  <2>3. e(0) \in Entry(Ref) /\ \A y \in Deadlines : y.el # e(0).el
    BY <1>2, <1>4, <1>7, <2>2 DEF Entry, Ref
  <2>4. e(1) \in Entry(Ref) /\ \A y \in Deadlines \cup {e(0)} : y.el # e(1).el
    BY <1>2, <1>4, <1>7, <2>2 DEF Entry, Ref
  <2>5. Deadlines' = (Deadlines \cup {e(0)}) \cup {e(1)}
    BY <1>6, <1>10, <2>2
  <2> HIDE DEF e
  <2> DEFINE G == ThAdd(heap, e(0))
             X == Deadlines \cup {e(0)}
  <2>6. HeapHas(G, X)
    BY <2>3, <1>5, HeapAdds
  <2>7. heap' = ThAdd(G, e(1)) /\ Deadlines' = X \cup {e(1)} /\ \A y \in X : y.el # e(1).el
    BY <2>1, <2>4, <2>5
  <2> HIDE DEF G, X
  <2>8. HeapHas(ThAdd(G, e(1)), X \cup {e(1)})
    BY <2>4, <2>6, <2>7, HeapAdds
  <2> QED BY <2>7, <2>8 DEF Heaped
<1> QED BY <1>1, <1>8, <1>9, <1>10

\* ... and to the lists.
LEMMA AddedLists ==
  ASSUME Waits, Listed, NEW m, NEW spec, NEW t, Asks(m, spec, t)
  PROVE  /\ Listed'
         /\ reg' = reg \cup {z \in New(m, Len(spec)) : epfd /\ spec[z[2] + 1].fd \in Fd}
         /\ \A q \in New(m, Len(spec)) : \A z \in Live : Before(blockers', q, z)
         /\ \A q, z \in Live : Before(blockers', q, z) <=> Before(blockers, q, z)
<1> DEFINE n == Len(spec)
           new == [k \in DOMAIN spec |-> <<m, Len(spec) - k>>]
           evOf(z) == spec[z[2] + 1].ev
           fdOf(z) == spec[z[2] + 1].fd
           on(f) == Without(new, {z \in Range(new) : spec[z[2] + 1].fd # f})
           N == New(m, n)
           On(f) == {z \in N : fdOf(z) = f}
<1>1. /\ n \in Nat /\ DOMAIN spec = 1 .. n /\ \A k \in 1 .. n : spec[k] \in WaitedFor
  BY SpecIs DEF Asks
<1>2. /\ Live' = Live \cup N /\ N \cap Live = {}
      /\ \A z \in N : Blocker(z)' = spec[z[2] + 1]
      /\ \A z \in Live : Blocker(z)' = Blocker(z)
  BY AddedWaits
<1>3. /\ blockers' = new \o blockers
      /\ IF ~epfd THEN UNCHANGED <<fdlist, interest, reg>>
         ELSE /\ fdlist' = [f \in Fd |-> on(f) \o fdlist[f]]
              /\ interest' = [f \in Fd |->
                   IF on(f) = <<>> THEN interest[f]
                   ELSE (UNION {evOf(z) : z \in Range(on(f))}) \cup Wanted(fdlist[f])]
              /\ reg' = reg \cup UNION {Range(on(f)) : f \in Fd}
  BY DEF Asks, AddBlocks
<1>4. IsList(new, N)
  BY <1>1, NewIs
<1>5. \A z \in N : spec[z[2] + 1] \in WaitedFor /\ z \in Ref
  <2>1. m \in Muth /\ n \in {0, 1, 2}
    BY SpecIs DEF Asks
  <2> HIDE DEF n
  <2> SUFFICES ASSUME NEW i \in 0 .. n - 1 PROVE spec[i + 1] \in WaitedFor /\ <<m, i>> \in Ref
    BY DEF New
  <2>2. i + 1 \in 1 .. n /\ i \in {0, 1}
    BY <2>1
  <2> QED BY <2>1, <2>2, <1>1 DEF Ref
<1>6. IsList(blockers, Live) /\ reg \subseteq {z \in Live : Blocker(z).fd \in Fd}
      /\ fdlist \in [Fd -> Seq(Ref)] /\ interest \in [Fd -> SUBSET Ev]
      /\ \A f \in Fd : /\ IsList(fdlist[f], Watched(f))
                       /\ interest[f] = UNION {Blocker(z).ev : z \in Watched(f)}
  BY DEF Listed
<1> HIDE DEF new, n, N
<1>7. /\ IsList(blockers', Live')
      /\ \A q \in N : \A z \in Live : Before(blockers', q, z)
      /\ \A q, z \in Live : Before(blockers', q, z) <=> Before(blockers, q, z)
  <2>1. IsList(new \o blockers, N \cup Live) /\ N \cup Live = Live'
    BY <1>2, <1>4, <1>6, ConcatIs
  <2>2. \A x \in N, y \in Live : Before(new \o blockers, x, y)
    BY <1>2, <1>4, <1>6, ConcatIs
  <2>3. \A x, y \in Live : Before(new \o blockers, x, y) <=> Before(blockers, x, y)
    BY <1>2, <1>4, <1>6, ConcatIs
  <2> QED BY <2>1, <2>2, <2>3, <1>3
<1>8. \A f \in Fd : IsList(on(f), On(f)) /\ Range(on(f)) = On(f)
  <2> SUFFICES ASSUME NEW f \in Fd PROVE IsList(on(f), On(f)) /\ Range(on(f)) = On(f)
    OBVIOUS
  <2>1. Range(new) = N
    BY <1>4 DEF IsList
  <2> DEFINE A == {z \in Range(new) : spec[z[2] + 1].fd # f}
  <2>2. N \ A = On(f)
    BY <2>1
  <2> HIDE DEF A
  <2>3. IsList(Without(new, A), N \ A)
    BY <1>4, WithoutIs
  <2>4. IsList(on(f), On(f))
    BY <2>2, <2>3 DEF A
  <2> QED BY <2>4 DEF IsList
<1>9. \A f : Watched(f) \cap On(f) = {}
  BY <1>2 DEF Watched
<1>10. reg' = reg \cup {z \in N : epfd /\ fdOf(z) \in Fd}
  <2>1. CASE ~epfd
    BY <2>1, <1>3
  <2>2. CASE epfd
    <3>1. UNION {Range(on(f)) : f \in Fd} = UNION {On(f) : f \in Fd}
      <4> HIDE DEF on, On
      <4> QED BY <1>8
    <3>2. reg' = reg \cup UNION {Range(on(f)) : f \in Fd}
      <4> HIDE DEF on
      <4> QED BY <2>2, <1>3
    <3>3. UNION {On(f) : f \in Fd} = {z \in N : fdOf(z) \in Fd}
      BY DEF On
    <3> HIDE DEF on, On
    <3> QED BY <2>2, <3>1, <3>2, <3>3
  <2> QED BY <2>1, <2>2
<1>11. \A f \in Fd : Watched(f)' = IF epfd THEN On(f) \cup Watched(f) ELSE Watched(f)
  <2> SUFFICES ASSUME NEW f \in Fd, NEW z
               PROVE  z \in Watched(f)' <=> z \in IF epfd THEN On(f) \cup Watched(f) ELSE Watched(f)
    OBVIOUS
  <2>1. z \in Watched(f)' <=> z \in Live' /\ z \in reg' /\ Blocker(z)'.fd = f
    BY DEF Watched
  <2>2. z \in Watched(f) <=> z \in Live /\ z \in reg /\ Blocker(z).fd = f
    BY DEF Watched
  <2>3. z \in reg => z \in Live
    BY <1>6
  <2>4. z \in N => (z \notin Live /\ z \notin reg /\ (z \in Watched(f)' <=> epfd /\ fdOf(z) = f))
    BY <2>1, <2>3, <1>2, <1>10
  <2>5. z \in Live => (z \notin N /\ (z \in Watched(f)' <=> z \in Watched(f)))
    BY <2>1, <2>2, <1>2, <1>10
  <2>6. z \in Watched(f)' => z \in N \/ z \in Live
    BY <2>1, <1>2
  <2> QED BY <2>2, <2>4, <2>5, <2>6
<1>12. \A f \in Fd : \A z \in Watched(f) : Blocker(z)' = Blocker(z)
  BY <1>2 DEF Watched
<1>13. \A f \in Fd : /\ IsList(fdlist'[f], Watched(f)')
                     /\ interest'[f] = UNION {Blocker(z)'.ev : z \in Watched(f)'}
                     /\ fdlist'[f] \in Seq(Ref) /\ interest'[f] \in SUBSET Ev
  <2> SUFFICES ASSUME NEW f \in Fd
               PROVE  /\ IsList(fdlist'[f], Watched(f)')
                      /\ interest'[f] = UNION {Blocker(z)'.ev : z \in Watched(f)'}
                      /\ fdlist'[f] \in Seq(Ref) /\ interest'[f] \in SUBSET Ev
    OBVIOUS
  <2>0. UNION {Blocker(z)'.ev : z \in Watched(f)} = interest[f]
    <3>1. UNION {Blocker(z)'.ev : z \in Watched(f)} = UNION {Blocker(z).ev : z \in Watched(f)}
      BY <1>12
    <3> QED BY <3>1, <1>6
  <2>1. CASE ~epfd
    <3>1. fdlist' = fdlist /\ interest' = interest /\ Watched(f)' = Watched(f)
      BY <2>1, <1>3, <1>11
    <3> QED BY <3>1, <2>0, <1>6
  <2>2. CASE epfd
    <3> DEFINE o == On(f)
    <3>1. /\ fdlist'[f] = on(f) \o fdlist[f]
          /\ interest'[f] = IF on(f) = <<>> THEN interest[f]
                            ELSE (UNION {evOf(z) : z \in Range(on(f))}) \cup Wanted(fdlist[f])
      BY <2>2, <1>3
    <3>2. Watched(f)' = o \cup Watched(f) /\ IsList(on(f), o) /\ Range(on(f)) = o /\ o \cap Watched(f) = {}
      BY <2>2, <1>8, <1>9, <1>11
    <3>3. Wanted(fdlist[f]) = interest[f]
      BY <1>6, WantedIs
    <3>4. \A z \in o : Blocker(z)'.ev = evOf(z) /\ evOf(z) \in SUBSET Ev /\ z \in Ref
      BY <1>2, <1>5 DEF WaitedFor
    <3> HIDE DEF on, o
    <3>5. on(f) = <<>> <=> o = {}
      BY <3>2, HeadIs
    <3>6. IsList(fdlist'[f], Watched(f)')
      <4>1. IsList(fdlist[f], Watched(f))
        BY <1>6
      <4>2. IsList(on(f) \o fdlist[f], o \cup Watched(f))
        BY <4>1, <3>2, ConcatIs
      <4> QED BY <4>2, <3>1, <3>2
    <3>7. UNION {Blocker(z)'.ev : z \in Watched(f)'} = (UNION {evOf(z) : z \in o}) \cup interest[f]
      <4>1. UNION {Blocker(z)'.ev : z \in Watched(f)'} = (UNION {Blocker(z)'.ev : z \in o}) \cup (UNION {Blocker(z)'.ev : z \in Watched(f)})
        BY <3>2
      <4>2. UNION {Blocker(z)'.ev : z \in o} = UNION {evOf(z) : z \in o}
        BY <3>4
      <4> QED BY <4>1, <4>2, <2>0
    <3>8. interest'[f] = (UNION {evOf(z) : z \in o}) \cup interest[f]
      <4>1. CASE o = {}
        <5>1. interest'[f] = interest[f]
          BY <4>1, <3>1, <3>5
        <5>2. UNION {evOf(z) : z \in o} = {}
          BY <4>1
        <5> QED BY <5>1, <5>2
      <4>2. CASE o # {}
        <5>1. interest'[f] = (UNION {evOf(z) : z \in Range(on(f))}) \cup Wanted(fdlist[f])
          BY <4>2, <3>1, <3>5
        <5> QED BY <5>1, <3>2, <3>3
      <4> QED BY <4>1, <4>2
    <3>9. fdlist'[f] \in Seq(Ref)
      <4>1. Watched(f)' \subseteq Ref
        BY <3>2, <3>4, RefIs DEF Watched
      <4> QED BY <4>1, <3>6, SeqMonotonic DEF IsList
    <3>10. interest'[f] \in SUBSET Ev
      BY <3>4, <3>8, <1>6
    <3> QED BY <3>6, <3>7, <3>8, <3>9, <3>10
  <2> QED BY <2>1, <2>2
<1>14. fdlist' \in [Fd -> Seq(Ref)] /\ interest' \in [Fd -> SUBSET Ev]
  <2>1. DOMAIN fdlist' = Fd /\ fdlist' = [f \in Fd |-> fdlist'[f]]
    <3> HIDE DEF on
    <3> QED BY <1>3, <1>6
  <2>2. DOMAIN interest' = Fd /\ interest' = [f \in Fd |-> interest'[f]]
    <3> HIDE DEF on, evOf
    <3> QED BY <1>3, <1>6
  <2> QED BY <2>1, <2>2, <1>13
<1>15. reg' \subseteq {z \in Live' : Blocker(z)'.fd \in Fd}
  BY <1>2, <1>6, <1>10
<1>16. Listed'
  BY <1>7, <1>13, <1>14, <1>15 DEF Listed
<1> QED BY <1>7, <1>10, <1>16 DEF n, N

\* block() and mblock() up to the yield().
LEMMA BlockKeeps == ASSUME IoInv, NEW m \in Muth, Block(m) PROVE IoInv'
<1>1. /\ RunsOwn(m) /\ current = m /\ place[m] = "own" /\ place' = [place EXCEPT ![m] = "blocked"] /\ Yield
      /\ UNCHANGED <<epfd, at, cur, evr, deadline, tnow, now, stale>>
  BY DEF Block, RunsOwn, loopvars
<1>2. PICK spec \in Specs, t \in Timeouts :
        /\ t > 0 => now + t <= MaxNow
        /\ m \in Lone => Len(spec) = 1
        /\ \A k \in DOMAIN spec : \A z \in Range(blockers) :
             (spec[k].fd # NoFd /\ spec[k].fd = Blocker(z).fd) => {m, z[1]} \cap Lone = {}
        /\ ~(epfd /\ Refused(spec))
        /\ Refused(spec) => Len(spec) = 1
        /\ AddBlocks(m, spec, IF t > 0 THEN now + t ELSE 0)
  BY DEF Block
<1> DEFINE T == IF t > 0 THEN now + t ELSE 0
           N == New(m, Len(spec))
<1>3. T \in 0 .. MaxNow
  BY <1>2, MtioEpollAssumption DEF IoInv, Clock, MtioEpollAssumption
<1>4. Range(blockers) = Live /\ DOMAIN place = Muth
  BY DEF IoInv, Listed, IsList, Sleepers
<1>5. Asks(m, spec, T)
  <2>1. AddBlocks(m, spec, T)
    BY <1>2
  <2> HIDE DEF T
  <2> QED BY <1>1, <1>2, <1>3, <1>4, <2>1 DEF Asks
<1> HIDE DEF T
<1>6. /\ Waits' /\ Live' = Live \cup N
      /\ \A z \in N : Blocker(z)' = spec[z[2] + 1] /\ z[1] = m
      /\ \A z \in Live : Blocker(z)' = Blocker(z) /\ z[1] # m
  BY <1>5, AddedWaits DEF IoInv
<1>7. Heaped'
  BY <1>5, AddedHeap DEF IoInv
<1>8. /\ Listed'
      /\ reg' = reg \cup {z \in N : epfd /\ spec[z[2] + 1].fd \in Fd}
      /\ \A q \in N : \A z \in Live : Before(blockers', q, z)
      /\ \A q, z \in Live : Before(blockers', q, z) <=> Before(blockers, q, z)
  BY <1>5, AddedLists DEF IoInv
<1>9. MtInv' /\ Sleepers' /\ (current' # NULL => current' \in Muth /\ place'[current'] = "own")
  BY <1>1, ThreadsBlock DEF IoInv
<1>10. \A z \in N : epfd => Blocker(z)'.fd = NoFd \/ z \in reg'
  <2>1. \A k \in DOMAIN spec : epfd => spec[k].fd \in Fd \cup {NoFd}
    <3>1. \A k \in DOMAIN spec : spec[k].fd \in Fd \cup BadFd \cup {NoFd}
      BY SpecIs DEF WaitedFor
    <3> QED BY <3>1, <1>2 DEF Refused
  <2>2. \A z \in N : z[2] + 1 \in DOMAIN spec
    <3>1. Len(spec) \in Nat /\ DOMAIN spec = 1 .. Len(spec)
      BY SpecIs
    <3> QED BY <3>1 DEF New
  <2> HIDE DEF N
  <2> QED BY <2>1, <2>2, <1>6, <1>8
<1> HIDE DEF N
<1>11. \A z \in Live : z \in reg => z \in reg'
  BY <1>8
<1>12. \A z \in Live : z \in reg' => z \in reg
  <2>1. \A z \in Live : z \notin N
    BY <1>6
  <2> QED BY <2>1, <1>8
<1>13. cur # NoRef => cur \in Live /\ place[cur[1]] = "blocked" /\ cur[1] \in Muth
  BY NextWaits, RefIs DEF IoInv
<1>14. at = "reg" => Registering'
  <2> SUFFICES ASSUME at = "reg" PROVE Registering'
    OBVIOUS
  <2>1. epfd
    BY DEF IoInv, Walks
  <2>2. \A z \in N : Passed(z)'
    BY <1>1, <1>8, <1>13 DEF Passed
  <2>3. \A z \in Live : Passed(z)' <=> Passed(z)
    BY <1>1, <1>8, <1>13 DEF Passed
  <2>4. \A z \in Live : Passed(z) \/ z \notin reg
    BY DEF IoInv, Walks, Registering
  <2>5. \A z \in Live : Passed(z) => z \in reg \/ Blocker(z).fd = NoFd
    BY <1>1, <1>6 DEF IoInv, Walks, Registering
  <2>6. (\A z \in Live : Passed(z) \/ z \notin reg)'
    BY <1>6, <1>12, <2>2, <2>3, <2>4
  <2>7. (\A z \in Live : Passed(z) => z \in reg \/ Blocker(z).fd = NoFd)'
    BY <1>6, <1>10, <1>11, <2>1, <2>3, <2>5
  <2> QED BY <1>1, <1>6, <1>13, <2>6, <2>7 DEF Registering
<1>15. (at \in {"top", "wait", "events", "times"} => \A z \in Live : z \in reg \/ Blocker(z).fd = NoFd)'
  <2> SUFFICES ASSUME at \in {"top", "wait", "events", "times"}
               PROVE  \A z \in Live' : z \in reg' \/ Blocker(z)'.fd = NoFd
    BY <1>1
  <2>1. epfd /\ \A z \in Live : z \in reg \/ Blocker(z).fd = NoFd
    BY DEF IoInv, Walks
  <2> QED BY <2>1, <1>6, <1>10, <1>11
<1>16. (at = "events" => (cur # NoRef => cur \in Watched(Head(evr).fd)))'
  <2> SUFFICES ASSUME at = "events", cur # NoRef PROVE cur \in Live' /\ cur \in reg' /\ Blocker(cur)'.fd = Head(evr).fd
    BY <1>1 DEF Watched, Blocker
  <2>1. cur \in Live /\ cur \in reg /\ Blocker(cur).fd = Head(evr).fd
    BY DEF IoInv, Walks, Watched
  <2> QED BY <2>1, <1>1, <1>6, <1>11 DEF Blocker
<1>17. at = "out" => reg' = {}
  <2>1. at = "out" => ~epfd /\ reg = {}
    BY DEF IoInv, Walks
  <2> QED BY <2>1, <1>8
<1>18. current' # NULL /\ cur # NoRef => cur[1] # current' /\ (at = "events" => cur[1] \notin Lone)
  <2> SUFFICES ASSUME current' # NULL, cur # NoRef PROVE cur[1] # current' /\ (at = "events" => cur[1] \notin Lone)
    OBVIOUS
  <2>1. cur[1] # m /\ place'[cur[1]] = "blocked"
    BY <1>1, <1>6, <1>13, <1>4
  <2>2. at = "events" => cur[1] \notin Lone
    BY <1>1, MtAssumption DEF IoInv, Walks
  <2> QED BY <2>1, <2>2, <1>9
<1>19. Walks'
  BY <1>1, <1>14, <1>15, <1>16, <1>17, <1>18 DEF IoInv, Walks
<1>20. Clock'
  BY <1>1 DEF IoInv, Clock
<1> QED BY <1>6, <1>7, <1>8, <1>9, <1>19, <1>20 DEF IoInv

-----------------------------------------------------------------------------
(* The theorems.                                                           *)

\* The initial states are in the invariant, ...
LEMMA IoInitInv == IoInit => IoInv
<1> SUFFICES ASSUME IoInit PROVE IoInv
  OBVIOUS
<1>1. MtInv
  BY MtInitInv DEF IoInit
<1>2. DOMAIN <<>> = {}
  BY EmptySeq
<1>3. Sleepers
  BY MtAssumption DEF IoInit, MtInit, Sleepers, MuthPlaces
<1>4. MaxNow \in Nat /\ Lone \subseteq Muth
  BY MtioEpollAssumption DEF MtioEpollAssumption
<1>5. \A m \in Muth : bl[m] = <<>> /\ DOMAIN bl[m] = {} /\ to[m] = 0
  BY <1>2 DEF IoInit
<1>6. Waits
  <2>1. \A m \in Muth : WaitsFor(m)
    BY <1>5 DEF WaitsFor
  <2>2. \A m \in Lone : \A n \in Muth \ {m} : Apart(m, n)
    BY <1>4, <1>5 DEF Apart
  <2>3. to \in [Muth -> 0 .. MaxNow] /\ DOMAIN bl = Muth
    BY <1>4 DEF IoInit
  <2> QED BY <2>1, <2>2, <2>3 DEF Waits
<1>7. Live = {} /\ \A f : Watched(f) = {}
  BY DEF IoInit, Live, Watched, Ref
<1>8. Listed
  <2>1. fdlist \in [Fd -> Seq(Ref)] /\ interest \in [Fd -> SUBSET Ev]
    BY DEF IoInit
  <2>2. \A f \in Fd : fdlist[f] = <<>> /\ interest[f] = {} /\ UNION {Blocker(z).ev : z \in {}} = {}
    BY DEF IoInit
  <2>3. blockers = <<>> /\ reg = {}
    BY DEF IoInit
  <2> QED BY <1>7, <2>1, <2>2, <2>3, EmptyIsList DEF Listed
<1>9. Heaped
  <2>1. Deadlines = {}
    BY <1>7 DEF Deadlines
  <2>2. 0 \in Nat /\ GoodHeap(heap, 0, Ref) /\ Content(heap) = {}
    BY EmptyIsHeap DEF IoInit
  <2> QED BY <2>1, <2>2 DEF Heaped, HeapHas
<1>10. Walks /\ Clock
  <2>1. /\ ~stale /\ epfd = FALSE /\ at = "out" /\ cur = NoRef /\ reg = {} /\ current = NULL
        /\ now = 0 /\ tnow = 0 /\ deadline = NoFd
    BY DEF IoInit, MtInit
  <2>2. Walks
    BY <2>1 DEF Walks
  <2> QED BY <1>4, <2>1, <2>2 DEF Clock
<1> QED BY <1>1, <1>3, <1>6, <1>8, <1>9, <1>10 DEF IoInv

\* ... a step of something else keeps it, ...
LEMMA IoStutterInv == IoInv /\ UNCHANGED iovars => IoInv'
<1> SUFFICES ASSUME IoInv, UNCHANGED iovars PROVE IoInv'
  OBVIOUS
<1>1. /\ UNCHANGED <<current, last, running, aborted>> /\ UNCHANGED lists
      /\ UNCHANGED <<blockers, bl, reg, epfd, at, cur, evr, deadline, tnow, now, place, stale>>
  BY DEF iovars, evars, mtvars, lists, loopvars
<1>2. MtInv' /\ Sleepers'
  BY <1>1 DEF IoInv, MtInv, MtTypeOK, Chain, Here, Sleepers
<1>3. /\ Waits' /\ Listed' /\ Heaped'
      /\ Live' = Live /\ \A f : Watched(f)' = Watched(f)
  BY <1>1, ListsStay DEF IoInv
<1>4. \A z : Blocker(z)' = Blocker(z) /\ Passed(z)' = Passed(z)
  BY <1>1 DEF Blocker, Passed
<1>5. Registering => Registering'
  BY <1>1, <1>3, <1>4 DEF Registering
<1>6. Watched(Head(evr).fd)' = Watched(Head(evr).fd)
  BY <1>1, <1>3
<1>7. Walks'
  BY <1>1, <1>3, <1>4, <1>5, <1>6 DEF IoInv, Walks
<1>8. Clock'
  BY <1>1 DEF IoInv, Clock
<1> QED BY <1>2, <1>3, <1>7, <1>8 DEF IoInv

\* ... and so does every step of the event loop and the muths.
LEMMA IoNextInv == IoInv /\ [IoNext]_iovars => IoInv'
<1> SUFFICES ASSUME IoInv, [IoNext]_iovars PROVE IoInv'
  OBVIOUS
<1>1. CASE Enter \/ WaitEvents \/ WaitInterrupted \/ Tick
  BY <1>1, EnterKeeps, WaitEventsKeeps, WaitInterruptedKeeps, TickKeeps
<1>2. CASE Ioloop
  BY <1>2, RegisterKeeps, RegisteredKeeps, PrepareKeeps, LeaveKeeps, WaitTimesOutKeeps,
     DispatchKeeps, NextEventKeeps, ExpireKeeps, NoneExpiredKeeps DEF Ioloop
<1>3. CASE \E m \in Muth : UserCode(m) \/ StartMuth(m) \/ ResumeLone(m)
  BY <1>3, BlockKeeps, UnblockKeeps, EndKeeps, StartKeeps, ResumeLoneKeeps DEF UserCode
<1>4. CASE UNCHANGED iovars
  BY <1>4, IoStutterInv
<1> QED BY <1>1, <1>2, <1>3, <1>4 DEF IoNext

\* The invariant of the event loop holds in every state.
THEOREM IoSafe == IoSpec => []IoInv
<1> QED BY IoInitInv, IoNextInv, PTL DEF IoSpec

\* The invariant has the types.
LEMMA IoTyped == IoInv => IoTypeOK
<1> SUFFICES ASSUME IoInv PROVE IoTypeOK
  OBVIOUS
<1>1. blockers \in Seq(Ref) /\ reg \subseteq Ref
  BY RefIs, SeqMonotonic DEF IoInv, Listed, IsList
<1>2. \A m \in Muth : DOMAIN bl[m] \subseteq {0, 1}
  <2>1. \A m \in Muth : DOMAIN bl[m] \in {{}, {0}, {0, 1}}
    BY DEF IoInv, Waits, WaitsFor
  <2> QED BY <2>1
<1>3. at \in {"out", "reg", "top", "wait", "events", "times"} /\ cur \in Ref \cup {NoRef} /\ epfd \in BOOLEAN
  BY DEF IoInv, Walks
<1>4. MtTypeOK /\ place \in [Muth -> MuthPlaces]
  BY DEF IoInv, MtInv, Sleepers
<1>5. to \in [Muth -> 0 .. MaxNow] /\ fdlist \in [Fd -> Seq(Ref)] /\ interest \in [Fd -> SUBSET Ev]
  BY DEF IoInv, Waits, Listed
<1>6. deadline \in {NoFd} \cup 0 .. MaxNow + 1
  BY DEF IoInv, Clock
<1> QED BY <1>1, <1>2, <1>3, <1>4, <1>5, <1>6 DEF IoTypeOK

\* No order of waits, resumes, timeouts and returns of ioloop() leaves a muth
\* that epoll would never wake, or a list with a blocker whose muth has gone on.
THEOREM ListsAlwaysAgree == IoSpec => []ListsAgree
<1>1. IoInv => ListsAgree
  <2> SUFFICES ASSUME IoInv PROVE ListsAgree
    OBVIOUS
  <2>1. IoTypeOK
    BY IoTyped
  <2>2. IsInjective(blockers) /\ Range(blockers) = Live
    BY DEF IoInv, Listed, IsList
  <2>3. \A f \in Fd : /\ IsInjective(fdlist[f]) /\ Range(fdlist[f]) = Watched(f)
                      /\ interest[f] = UNION {Blocker(z).ev : z \in Watched(f)}
    BY DEF IoInv, Listed, IsList
  <2>4. epfd /\ at # "reg" => \A z \in Live : Blocker(z).fd # NoFd => z \in reg
    BY DEF IoInv, Walks
  <2>5. ~epfd => \A z \in Live : ~z \in reg
    BY DEF IoInv, Walks
  <2> QED BY <2>1, <2>2, <2>3, <2>4, <2>5 DEF ListsAgree
<1> QED BY <1>1, IoSafe, PTL

\* The heap holds exactly the blockers with a timeout, in order, however long it
\* becomes and whatever order addtimeout() and deltimeout() came in.
THEOREM TimeoutsAlwaysOrdered == IoSpec => []TimeoutsOrdered
<1>1. IoInv => TimeoutsOrdered
  <2> SUFFICES ASSUME IoInv PROVE TimeoutsOrdered
    OBVIOUS
  <2>1. HeapOrdered(heap) /\ Content(heap) = Deadlines
    BY DEF IoInv, Heaped, HeapHas, GoodHeap
  <2>2. \A n \in DOMAIN heap.b : \E z \in Live : to[z[1]] > 0 /\ heap.b[n] = [el |-> z, tm |-> to[z[1]]]
    BY <2>1 DEF Content, Deadlines
  <2>3. \A z \in Live : to[z[1]] > 0 => \E n \in DOMAIN heap.b : heap.b[n] = [el |-> z, tm |-> to[z[1]]]
    BY <2>1 DEF Content, Deadlines
  <2>0. ASSUME NEW n \in DOMAIN heap.b
        PROVE  /\ heap.b[n].el \in {z \in Live : to[z[1]] > 0}
               /\ heap.b[n].tm = to[heap.b[n].el[1]]
    <3>1. PICK z \in Live : to[z[1]] > 0 /\ heap.b[n] = [el |-> z, tm |-> to[z[1]]]
      BY <2>2
    <3>2. heap.b[n].el = z /\ heap.b[n].tm = to[z[1]]
      BY <3>1
    <3> QED BY <3>1, <3>2
  <2>4. {heap.b[n].el : n \in DOMAIN heap.b} \subseteq {z \in Live : to[z[1]] > 0}
    BY <2>0
  <2>5. {z \in Live : to[z[1]] > 0} \subseteq {heap.b[n].el : n \in DOMAIN heap.b}
    <3> SUFFICES ASSUME NEW z \in Live, to[z[1]] > 0 PROVE \E n \in DOMAIN heap.b : heap.b[n].el = z
      OBVIOUS
    <3>1. PICK n \in DOMAIN heap.b : heap.b[n] = [el |-> z, tm |-> to[z[1]]]
      BY <2>3
    <3> QED BY <3>1
  <2>6. \A n \in DOMAIN heap.b : heap.b[n].tm = to[heap.b[n].el[1]]
    BY <2>0
  <2> QED BY <2>1, <2>4, <2>5, <2>6 DEF TimeoutsOrdered
<1> QED BY <1>1, IoSafe, PTL

\* ioloop() never resumes a muth that has not yielded, and no walk goes on from
\* a blocker that is gone.
THEOREM WalksAlwaysSafe == IoSpec => []WalksSafe
<1>1. IoInv => WalksSafe
  BY DEF IoInv, MtInv, Walks, WalksSafe
<1> QED BY <1>1, IoSafe, PTL

-----------------------------------------------------------------------------
(* The shutdown of HtParser, for any number of ports, connections and      *)
(* signals.                                                                *)

\* What the stages of the shutdown have in common with the signals and the root
\* handler.  A port is open exactly while the socket of the root handler is.
PlexOpen == /\ plexshut <=> listeners = {}
            /\ listeners # {} => Watch \in listeners

\* Without an exit status ioloop() returns only when nothing waits any more.
BackIdle == main = "back" /\ exitst = 0 => ~Blockers

\* An exit status comes from a signal; the one that made main() stop listening
\* is forgotten when ioloop() is called again, so the next is a second one; and
\* without a first one it was the root handler that ended the listening.
StatusSignalled ==
  /\ exitst = 1 => nsig > 0
  /\ pidfile = "newline" /\ exitst = 1 /\ main # "call" => nsig >= 2
  /\ plexshut /\ pidfile = "pid" => root = "exited"

HtInv == HtTypeOK /\ PlexOpen /\ BackIdle /\ StatusSignalled /\ PidTells

\* main() starts its loop in a state of the invariant.
LEMMA HtInitInv == HtInit => HtInv
<1> SUFFICES ASSUME HtInit PROVE HtInv
  OBVIOUS
<1>1. HtTypeOK
  <2>1. main \in HtPlaces /\ exitst \in {0, 1} /\ root \in {"up", "exited", "reset"}
    BY DEF HtInit, HtPlaces
  <2>2. listeners \subseteq Port \cup {Watch} /\ plexshut \in BOOLEAN
    BY DEF HtInit
  <2>3. conn \in [Conn -> States]
    BY DEF HtInit, States
  <2>4. nsig \in 0 .. MaxSignals
    BY HtParserAssumption DEF HtInit
  <2>5. pidfile \in {"pid", "newline", "empty"}
    BY DEF HtInit
  <2> QED
    BY <2>1, <2>2, <2>3, <2>4, <2>5 DEF HtTypeOK
<1>2. Watch \in listeners
  BY DEF HtInit
<1> QED
  BY <1>1, <1>2, HtParserAssumption
  DEF HtInit, HtInv, PlexOpen, BackIdle, StatusSignalled, PidTells

\* Every step of main(), of the connections, of plexwatch() and of the root
\* handler keeps the invariant.
LEMMA HtNextInv == HtInv /\ [HtNext]_htvars => HtInv'
<1> SUFFICES ASSUME HtInv, [HtNext]_htvars PROVE HtInv'
  OBVIOUS
<1> USE HtParserAssumption DEF HtInv, PlexOpen, StatusSignalled, PidTells
<1>1. CASE Main
  <2> USE <1>1 DEF HtTypeOK, HtPlaces, BackIdle, Blockers, Open
  <2>1. CASE Call
    BY <2>1 DEF Call
  <2>2. CASE CheckLoop
    BY <2>2 DEF CheckLoop
  <2>3. CASE Wait \/ EndBatch
    BY <2>3 DEF Wait, EndBatch
  <2>4. CASE StopListening
    BY <2>4 DEF StopListening
  <2>5. CASE Finish
    BY <2>5 DEF Finish
  <2> QED
    BY <2>1, <2>2, <2>3, <2>4, <2>5 DEF Main
<1>2. CASE Wake \/ Signal
  BY <1>2 DEF Wake, Signal, HtTypeOK, HtPlaces, BackIdle, Blockers, Open
<1>3. CASE PlexEof \/ PlexError
  <2>1. listeners # {} /\ pidfile = "pid"
    BY <1>3 DEF PlexEof, PlexError, HtTypeOK
  <2>2. CASE PlexEof
    BY <2>1, <2>2 DEF PlexEof, HtTypeOK, HtPlaces, BackIdle
  <2>3. CASE PlexError
    BY <2>1, <2>3 DEF PlexError, HtTypeOK, HtPlaces, BackIdle
  <2> QED
    BY <1>3, <2>2, <2>3
<1>4. CASE \E p \in Port : AcceptFails(p)
  <2>1. PICK p \in Port : AcceptFails(p)
    BY <1>4
  <2>2. Watch \in listeners /\ Watch \in listeners'
    BY <2>1 DEF AcceptFails
  <2> QED
    BY <2>1, <2>2 DEF AcceptFails, HtTypeOK, HtPlaces, BackIdle, Open
<1>5. CASE Handler
  <2>1. /\ conn' \in [Conn -> States]
        /\ \A c \in Conn : conn'[c] \notin {"free", "stuck"} <=> conn[c] \notin {"free", "stuck"}
        /\ UNCHANGED <<main, exitst, listeners, plexshut, pidfile, nsig>>
        /\ root' = root \/ (root = "up" /\ root' \in {"exited", "reset"})
    BY <1>5 DEF Handler, HandlerTakes, HandlerAnswers, HandlerExits, HtTypeOK, States, InHandler, Answers
  <2> QED
    BY <2>1 DEF HtTypeOK, BackIdle, Blockers, Open
<1>6. CASE \E c \in Conn : Serve(c)
  <2>1. /\ main = "batch"
        /\ conn' \in [Conn -> States]
        /\ UNCHANGED <<main, exitst, listeners, plexshut, pidfile, root, nsig>>
    BY <1>6 DEF Serve, WaitEnds, Accept, ReadRequest, NoRequest, SendRequest, PlexTimeout, Respond,
         GiveUp, Stick, Goes, HtTypeOK, States, InHandler, Answers
  <2> QED
    BY <2>1 DEF HtTypeOK, BackIdle
<1>7. CASE UNCHANGED htvars
  BY <1>7 DEF htvars, HtTypeOK, BackIdle, Blockers, Open
<1> QED
  BY <1>1, <1>2, <1>3, <1>4, <1>5, <1>6, <1>7 DEF HtNext

\* The inductive invariant of the shutdown of htparser: main(), sighandler() and
\* plexwatch() never disagree on how far it has come.
THEOREM HtInvariant == HtSpec => []HtInv
BY HtInitInv, HtNextInv, PTL DEF HtSpec

\* The type invariant of htparser.
THEOREM HtTypeCorrect == HtSpec => []HtTypeOK
<1>1. HtInv => HtTypeOK
  BY DEF HtInv
<1> QED
  BY <1>1, HtInvariant, PTL

\* A port of htparser is open only while the root handler's socket is: no
\* connection is accepted that serve() could only drop.
THEOREM PortsAlwaysServed == HtSpec => []PortsServed
<1>1. HtInv => PortsServed
  BY DEF HtInv, PlexOpen, PortsServed, Listening
<1> QED
  BY <1>1, HtInvariant, PTL

\* What the PID file says of the shutdown is true.
THEOREM PidFileTells == HtSpec => []PidTells
<1>1. HtInv => PidTells
  BY DEF HtInv
<1> QED
  BY <1>1, HtInvariant, PTL

-----------------------------------------------------------------------------
(* Times, levels and buckets of ratequeue.                                 *)

\* Integer division rounds down.
LEMMA DivIs ==
  ASSUME NEW a \in Int, NEW n \in Nat \ {0}
  PROVE  a \div n \in Int /\ n * (a \div n) <= a /\ a < n * (a \div n) + n
BY SMTT(20)

LEMMA ProductIs ==
  ASSUME NEW a \in Int, NEW b \in Int, NEW n \in Int
  PROVE  (a + b) * n = a * n + b * n /\ (a - b) * n = a * n - b * n /\ a * n = n * a /\ a * n \in Int
BY SMTT(20)

LEMMA TimesIs ==
  ASSUME NEW a \in Int, NEW n \in Int
  PROVE  a * n = n * a /\ a * n \in Int
BY SMTT(20)

LEMMA ProductGrows ==
  ASSUME NEW a \in Int, NEW b \in Int, NEW n \in Nat \ {0}
  PROVE  /\ a < b => a * n + n <= b * n
         /\ a >= 0 => a * n >= 0
BY SMTT(20)

\* The least and the greatest of two numbers, and of three.
LEMMA GreatestIs ==
  ASSUME NEW a \in Int, NEW b \in Int
  PROVE  Greatest({a, b}) = IF a >= b THEN a ELSE b
<1> DEFINE m == IF a >= b THEN a ELSE b
<1>1. m \in {a, b} /\ \A y \in {a, b} : m >= y
  OBVIOUS
<1>2. \A x \in {a, b} : (\A y \in {a, b} : x >= y) => x = m
  OBVIOUS
<1> HIDE DEF m
<1>3. Greatest({a, b}) = m
  BY <1>1, <1>2 DEF Greatest
<1> QED BY <1>3 DEF m

LEMMA LeastIs ==
  ASSUME NEW a \in Int, NEW b \in Int
  PROVE  Least({a, b}) = IF a <= b THEN a ELSE b
<1> DEFINE m == IF a <= b THEN a ELSE b
<1>1. m \in {a, b} /\ \A y \in {a, b} : m <= y
  OBVIOUS
<1>2. \A x \in {a, b} : (\A y \in {a, b} : x <= y) => x = m
  OBVIOUS
<1> HIDE DEF m
<1>3. Least({a, b}) = m
  BY <1>1, <1>2 DEF Least
<1> QED BY <1>3 DEF m

LEMMA LeastOfThree ==
  ASSUME NEW a \in Nat, NEW B \in SUBSET Nat, NEW C \in SUBSET Nat
  PROVE  Least({a} \cup B \cup C) \in Nat
<1>1. {a} \cup B \cup C \in SUBSET Nat /\ {a} \cup B \cup C # {}
  OBVIOUS
<1>2. PICK x \in {a} \cup B \cup C : \A y \in {a} \cup B \cup C : x <= y
  BY <1>1, LeastOf
<1> HIDE <1>1
<1> QED BY <1>1, <1>2 DEF Least

\* A configuration.
ConfOK(c) == c.size \in Nat \ {0} /\ c.rate \in Nat \ {0} /\ c.brimsize \in Nat

LEMMA ConfsOK == ASSUME NEW c \in Confs PROVE ConfOK(c)
BY RateAssumption DEF ConfOK

\* A bucket at the time t, when n requests have come.
BucketAt(t, n) == [level : Nat, last : 0 .. t, etime : 0 .. t, wtime : 0 .. t,
                   brim : Seq(Request), blocked : -1 .. n]

\* What has leaked, down to nothing.
LevelAt(b, t) == Greatest({b.level - (t - b.last) * cf.rate, 0})

LEMMA LevelIs ==
  ASSUME NEW t \in Nat, NEW n \in Nat, NEW b \in BucketAt(t, n), ConfOK(cf)
  PROVE  /\ (t - b.last) * cf.rate \in Nat
         /\ LevelAt(b, t) = IF b.level - (t - b.last) * cf.rate >= 0
                            THEN b.level - (t - b.last) * cf.rate ELSE 0
         /\ LevelAt(b, t) \in Nat /\ LevelAt(b, t) <= b.level
<1>1. b.level \in Nat /\ t - b.last \in Nat /\ cf.rate \in Nat \ {0}
  BY DEF BucketAt, ConfOK
<1> DEFINE p == (t - b.last) * cf.rate
<1>2. p \in Nat
  BY <1>1, ProductIs, ProductGrows
<1> HIDE DEF p
<1>3. b.level - p \in Int
  BY <1>1, <1>2
<1>4. Greatest({b.level - p, 0}) = IF b.level - p >= 0 THEN b.level - p ELSE 0
  BY <1>3, GreatestIs
<1> QED BY <1>1, <1>2, <1>4 DEF LevelAt, p

\* tickbucket() up to its loop.
LEMMA LeakedIs ==
  ASSUME NEW t \in Nat, NEW n \in Nat, NEW b \in BucketAt(t, n), ConfOK(cf)
  PROVE  /\ Leaked(b, t) \in BucketAt(t, n)
         /\ Leaked(b, t).level = LevelAt(b, t) /\ Leaked(b, t).last = t
         /\ Leaked(b, t).brim = b.brim /\ Leaked(b, t).blocked = b.blocked /\ Leaked(b, t).wtime = b.wtime
<1> DEFINE p == (t - b.last) * cf.rate
           l == b.level - p
           e == IF l < 0 /\ b.level > 0 THEN t - (-l) \div cf.rate ELSE b.etime
<1>1. b.level \in Nat /\ b.last \in 0 .. t /\ b.etime \in 0 .. t /\ cf.rate \in Nat \ {0}
  BY DEF BucketAt, ConfOK
<1>2. p \in Nat /\ LevelAt(b, t) \in Nat
  BY LevelIs
<1>3. e \in 0 .. t
  <2>1. CASE l < 0 /\ b.level > 0
    <3> DEFINE q == (-l) \div cf.rate
    <3>1. l \in Int /\ -l \in Nat /\ -l < p
      BY <1>1, <1>2, <2>1
    <3>2. q \in Int /\ cf.rate * q <= -l /\ -l < cf.rate * q + cf.rate
      <4> DEFINE u == -l
      <4>1. u \in Int /\ cf.rate \in Nat \ {0}
        BY <1>1, <3>1
      <4> HIDE DEF u
      <4>2. u \div cf.rate \in Int /\ cf.rate * (u \div cf.rate) <= u /\ u < cf.rate * (u \div cf.rate) + cf.rate
        BY <4>1, DivIs
      <4> QED BY <4>2 DEF u
    <3>3. q >= 0
      <4>1. q < 0 => q * cf.rate + cf.rate <= 0 * cf.rate
        BY <1>1, <3>2, ProductGrows
      <4>2. q * cf.rate = cf.rate * q /\ 0 * cf.rate = 0
        BY <1>1, <3>2, ProductIs
      <4>3. q * cf.rate \in Int
        BY <1>1, <3>2, ProductIs
      <4> HIDE DEF q, p, l
      <4> QED BY <1>1, <3>1, <3>2, <4>1, <4>2, <4>3
    <3>4. q < t - b.last
      <4>1. t - b.last < q => (t - b.last) * cf.rate + cf.rate <= q * cf.rate
        BY <1>1, <3>2, ProductGrows
      <4>2. q * cf.rate = cf.rate * q /\ q * cf.rate \in Int
        BY <1>1, <3>2, ProductIs
      <4>3. q # t - b.last
        <5>1. q = t - b.last => q * cf.rate = p
          OBVIOUS
        <5> HIDE DEF q, p, l
        <5> QED BY <1>1, <1>2, <3>1, <3>2, <4>2, <5>1
      <4>4. t - b.last < q => p + cf.rate <= q * cf.rate
        BY <4>1
      <4> HIDE DEF q, p, l
      <4> QED BY <1>1, <1>2, <3>1, <3>2, <4>2, <4>3, <4>4
    <3> HIDE DEF q
    <3>5. t - q \in 0 .. t
      BY <1>1, <3>2, <3>3, <3>4
    <3> QED BY <2>1, <3>5 DEF q
  <2>2. CASE ~(l < 0 /\ b.level > 0)
    BY <1>1, <2>2
  <2> QED BY <2>1, <2>2
<1>4. Leaked(b, t) = [b EXCEPT !.last = t, !.level = LevelAt(b, t), !.etime = e]
  BY DEF Leaked, LevelAt
<1> HIDE DEF e, p, l
<1>5. b = [level |-> b.level, last |-> b.last, etime |-> b.etime, wtime |-> b.wtime,
           brim |-> b.brim, blocked |-> b.blocked]
  BY DEF BucketAt
<1>6. Leaked(b, t) = [level |-> LevelAt(b, t), last |-> t, etime |-> e, wtime |-> b.wtime,
                      brim |-> b.brim, blocked |-> b.blocked]
  BY <1>4, <1>5
<1>7. b.wtime \in 0 .. t /\ b.brim \in Seq(Request) /\ b.blocked \in -1 .. n
  BY DEF BucketAt
<1> QED BY <1>2, <1>3, <1>6, <1>7 DEF BucketAt

\* The loop of tickbucket() sends as many as fit, and then either nothing waits or
\* the bucket is full.
LEMMA SendsIs ==
  ASSUME NEW t \in Nat, NEW n \in Nat, NEW b \in BucketAt(t, n), ConfOK(cf)
  PROVE  /\ Sends(b) \in 0 .. Len(b.brim)
         /\ Sends(b) * Unit \in Nat /\ Unit * Sends(b) = Sends(b) * Unit
         /\ Sends(b) > 0 => b.level + (Sends(b) - 1) * Unit < cf.size
         /\ Sends(b) < Len(b.brim) => b.level + Sends(b) * Unit >= cf.size
<1>1. b.level \in Nat /\ Len(b.brim) \in Nat /\ cf.size \in Nat \ {0} /\ Unit \in Nat \ {0}
  BY RateAssumption DEF BucketAt, ConfOK
<1> DEFINE k == Sends(b)
<1>2. CASE b.level >= cf.size
  <2>1. k = 0
    BY <1>2 DEF Sends
  <2>2. k * Unit = 0 /\ Unit * k = 0
    BY <1>1, <2>1
  <2> HIDE DEF k
  <2> QED BY <1>1, <1>2, <2>1, <2>2 DEF k
<1>3. CASE ~(b.level >= cf.size)
  <2> DEFINE q == (b.level - cf.size) \div Unit
             v == b.level - cf.size
  <2>1. v \in Int /\ v < 0
    BY <1>1, <1>3
  <2>2. q \in Int /\ Unit * q <= v /\ v < Unit * q + Unit
    BY <1>1, <2>1, DivIs
  <2>3. q < 0
    <3>1. q >= 0 => q * Unit >= 0
      BY <1>1, <2>2, ProductGrows
    <3>2. q * Unit = Unit * q /\ q * Unit \in Int
      BY <1>1, <2>2, ProductIs
    <3> HIDE DEF q, v
    <3> QED BY <1>1, <2>1, <2>2, <3>1, <3>2
  <2>4. k = Least({Len(b.brim), -q})
    BY <1>3 DEF Sends
  <2> HIDE DEF q, k
  <2>5. k = IF Len(b.brim) <= -q THEN Len(b.brim) ELSE -q
    <3>1. -q \in Int /\ Len(b.brim) \in Int
      BY <1>1, <2>2
    <3>2. Least({Len(b.brim), -q}) = IF Len(b.brim) <= -q THEN Len(b.brim) ELSE -q
      BY <3>1, LeastIs
    <3> QED BY <2>4, <3>2
  <2>6. k \in 0 .. Len(b.brim) /\ k <= -q
    BY <1>1, <2>2, <2>3, <2>5
  <2>7. k * Unit \in Nat /\ Unit * k = k * Unit
    BY <1>1, <2>6, ProductIs, ProductGrows
  <2>8. (k - 1) * Unit = k * Unit - Unit
    <3>1. 1 * Unit = Unit
      BY <1>1
    <3> QED BY <1>1, <2>6, <3>1, ProductIs
  <2>9. k * Unit <= (-q) * Unit
    <3>1. k < -q => k * Unit + Unit <= (-q) * Unit
      BY <1>1, <2>2, <2>6, ProductGrows
    <3>2. k = -q \/ k < -q
      BY <2>2, <2>6
    <3>3. (-q) * Unit \in Int
      BY <1>1, <2>2, ProductIs
    <3> QED BY <1>1, <2>7, <3>1, <3>2, <3>3
  <2>10. (-q) * Unit = -(Unit * q) /\ Unit * q \in Int
    <3>1. (0 - q) * Unit = 0 * Unit - q * Unit /\ q * Unit = Unit * q /\ q * Unit \in Int
      BY <1>1, <2>2, ProductIs
    <3>2. 0 * Unit = 0 /\ 0 - q = -q
      BY <1>1, <2>2
    <3> QED BY <3>1, <3>2
  <2>11. k * Unit - Unit < -v
    BY <1>1, <2>1, <2>2, <2>7, <2>9, <2>10
  <2>12. k < Len(b.brim) => k * Unit >= -v
    <3>1. k < Len(b.brim) => k = -q
      BY <1>1, <2>2, <2>5
    <3>2. k = -q => k * Unit = -(Unit * q)
      BY <2>10
    <3> QED BY <1>1, <2>1, <2>2, <2>7, <2>10, <3>1, <3>2
  <2>13. k > 0 => b.level + (k - 1) * Unit < cf.size
    BY <1>1, <2>7, <2>8, <2>11
  <2>14. k < Len(b.brim) => b.level + k * Unit >= cf.size
    BY <1>1, <2>7, <2>12
  <2> QED BY <2>6, <2>7, <2>13, <2>14 DEF k
<1> QED BY <1>2, <1>3

\* tickbucket(): what has leaked, and as many of those that wait as fit.
TickedTo(b, t, n, c, k) ==
  /\ c \in BucketAt(t, n) /\ c.last = t
  /\ k \in 0 .. Len(b.brim) /\ k * Unit \in Nat
  /\ Sent(b, t) = SubSeq(b.brim, 1, k)
  /\ c.brim = SubSeq(b.brim, k + 1, Len(b.brim))
  /\ c.level = LevelAt(b, t) + k * Unit
  /\ k > 0 => LevelAt(b, t) + (k - 1) * Unit < cf.size
  /\ c.brim # <<>> => c.level >= cf.size
  /\ c.blocked <= b.blocked \/ c.blocked = 0

LEMMA TickedIs ==
  ASSUME NEW t \in Nat, NEW n \in Nat, NEW b \in BucketAt(t, n), ConfOK(cf)
  PROVE  TickedTo(b, t, n, Ticked(b, t), Sends(Leaked(b, t)))
<1> DEFINE l == Leaked(b, t)
           k == Sends(l)
           warn == b.blocked > 0 /\ t - b.wtime >= WarnRate
           c == Ticked(b, t)
<1>1. l \in BucketAt(t, n) /\ l.level = LevelAt(b, t) /\ l.last = t /\ l.brim = b.brim
      /\ l.blocked = b.blocked /\ l.wtime = b.wtime
  BY LeakedIs
<1> HIDE DEF l
<1>2. /\ k \in 0 .. Len(l.brim) /\ k * Unit \in Nat /\ Unit * k = k * Unit
      /\ k > 0 => l.level + (k - 1) * Unit < cf.size
      /\ k < Len(l.brim) => l.level + k * Unit >= cf.size
  BY <1>1, SendsIs
<1>3. c = [l EXCEPT !.level = @ + Unit * k, !.brim = SubSeq(@, k + 1, Len(@)),
                    !.blocked = IF warn THEN 0 ELSE @, !.wtime = IF warn THEN t ELSE @]
  BY DEF Ticked, l
<1>4. Sent(b, t) = SubSeq(b.brim, 1, k)
  BY DEF Sent, l
<1> HIDE DEF k, c, warn
<1>5. l = [level |-> l.level, last |-> t, etime |-> l.etime, wtime |-> b.wtime,
           brim |-> b.brim, blocked |-> b.blocked]
  BY <1>1 DEF BucketAt
<1>6. c = [level |-> l.level + k * Unit, last |-> t, etime |-> l.etime, wtime |-> IF warn THEN t ELSE b.wtime,
           brim |-> SubSeq(b.brim, k + 1, Len(b.brim)), blocked |-> IF warn THEN 0 ELSE b.blocked]
  <2>1. c = [level |-> l.level + Unit * k, last |-> t, etime |-> l.etime, wtime |-> IF warn THEN t ELSE l.wtime,
             brim |-> SubSeq(l.brim, k + 1, Len(l.brim)), blocked |-> IF warn THEN 0 ELSE l.blocked]
    <3> DEFINE lev == l.level + Unit * k
               rest == SubSeq(l.brim, k + 1, Len(l.brim))
               bld == IF warn THEN 0 ELSE l.blocked
               wtm == IF warn THEN t ELSE l.wtime
    <3>1. c = [l EXCEPT !.level = lev, !.brim = rest, !.blocked = bld, !.wtime = wtm]
      BY <1>3
    <3> HIDE DEF lev, rest, bld, wtm
    <3>2. c = [level |-> lev, last |-> l.last, etime |-> l.etime, wtime |-> wtm, brim |-> rest, blocked |-> bld]
      BY <1>1, <3>1 DEF BucketAt
    <3> QED BY <1>1, <3>2 DEF lev, rest, bld, wtm
  <2> QED BY <1>1, <1>2, <2>1
<1>7. /\ b.brim \in Seq(Request) /\ b.wtime \in 0 .. t /\ b.blocked \in -1 .. n
      /\ l.etime \in 0 .. t /\ l.level \in Nat
  BY <1>1 DEF BucketAt
<1>8. SubSeq(b.brim, k + 1, Len(b.brim)) \in Seq(Request)
  <2>1. k \in Nat /\ k + 1 \in 1 .. Len(b.brim) + 1 /\ Len(b.brim) \in Nat
    BY <1>1, <1>2, <1>7
  <2> QED BY <2>1, <1>7
<1>9. c \in BucketAt(t, n)
  <2>1. l.level + k * Unit \in Nat
    BY <1>2, <1>7
  <2>2. (IF warn THEN t ELSE b.wtime) \in 0 .. t /\ (IF warn THEN 0 ELSE b.blocked) \in -1 .. n
    BY <1>7
  <2> QED BY <1>6, <1>7, <1>8, <2>1, <2>2 DEF BucketAt
<1>10. c.brim # <<>> => k < Len(b.brim)
  <2>1. Len(b.brim) \in Nat /\ k \in 0 .. Len(b.brim)
    BY <1>1, <1>2, <1>7
  <2>2. k = Len(b.brim) => SubSeq(b.brim, k + 1, Len(b.brim)) = <<>>
    BY <2>1, <1>7
  <2> QED BY <1>6, <2>1, <2>2
<1>11. c.last = t /\ c.brim = SubSeq(b.brim, k + 1, Len(b.brim)) /\ c.level = LevelAt(b, t) + k * Unit
       /\ c.blocked = IF warn THEN 0 ELSE b.blocked
  BY <1>1, <1>6
<1>12. c.brim # <<>> => c.level >= cf.size
  BY <1>1, <1>2, <1>10, <1>11
<1>13. c.blocked <= b.blocked \/ c.blocked = 0
  BY <1>7, <1>11
<1>14. TickedTo(b, t, n, c, k)
  BY <1>1, <1>2, <1>4, <1>9, <1>11, <1>12, <1>13 DEF TickedTo
<1> QED BY <1>14 DEF c, k, l

\* The time at which updbtime() has a bucket looked at again.
LEMMA BTimeIs ==
  ASSUME NEW t \in Nat, NEW n \in Nat, NEW b \in BucketAt(t, n), ConfOK(cf), b.brim # <<>> => b.level >= cf.size
  PROVE  BTime(b) \in Nat
<1>1. /\ b.level \in Nat /\ b.last \in Nat /\ b.etime \in Nat /\ b.wtime \in Nat
      /\ cf.rate \in Nat \ {0} /\ cf.size \in Nat /\ Retain \in Nat /\ WarnRate \in Nat
  <2>1. Retain \in Nat /\ WarnRate \in Nat
    BY RateAssumption
  <2>2. b.level \in Nat /\ b.last \in 0 .. t /\ b.etime \in 0 .. t /\ b.wtime \in 0 .. t
    BY DEF BucketAt
  <2>3. cf.rate \in Nat \ {0} /\ cf.size \in Nat
    BY DEF ConfOK
  <2> QED BY <2>1, <2>2, <2>3
<1>2. ASSUME NEW x \in Nat PROVE AtRate(x) \in Nat
  <2> DEFINE u == -x
             q == u \div cf.rate
  <2>1. u \in Int /\ u <= 0
    OBVIOUS
  <2> HIDE DEF u
  <2>2. q \in Int /\ cf.rate * q <= u
    BY <1>1, <2>1, DivIs
  <2> HIDE DEF q
  <2>3. q <= 0
    <3>1. 0 < q => 0 * cf.rate + cf.rate <= q * cf.rate
      BY <1>1, <2>2, ProductGrows
    <3>2. q * cf.rate = cf.rate * q /\ q * cf.rate \in Int
      BY <1>1, <2>2, TimesIs
    <3>3. 0 * cf.rate = 0
      BY <1>1
    <3> QED BY <1>1, <2>1, <2>2, <3>1, <3>2, <3>3
  <2>4. AtRate(x) = -q
    BY DEF AtRate, u, q
  <2> QED BY <2>2, <2>3, <2>4
<1> DEFINE empty == IF b.level = 0 THEN b.etime + Retain ELSE b.last + AtRate(b.level) + Retain
           warn == b.wtime + WarnRate
           idle == IF b.blocked > 0 THEN Greatest({empty, warn}) ELSE empty
           B == IF b.brim # <<>> THEN {b.last + AtRate(b.level - cf.size)} ELSE {}
           C == IF b.blocked > 0 THEN {warn} ELSE {}
<1>3. empty \in Nat /\ warn \in Nat
  <2>1. AtRate(b.level) \in Nat
    BY <1>1, <1>2
  <2>2. b.etime + Retain \in Nat /\ b.wtime + WarnRate \in Nat
    <3>1. b.etime \in Nat /\ b.wtime \in Nat /\ Retain \in Nat /\ WarnRate \in Nat
      BY <1>1
    <3> QED BY <3>1
  <2>3. b.last + AtRate(b.level) + Retain \in Nat
    <3> DEFINE a == AtRate(b.level)
               l == b.last
    <3>1. a \in Nat /\ l \in Nat /\ Retain \in Nat
      BY <1>1, <2>1
    <3> HIDE DEF a, l
    <3>2. l + a + Retain \in Nat
      BY <3>1
    <3> QED BY <3>2 DEF a, l
  <2> QED BY <2>2, <2>3
<1>4. B \in SUBSET Nat
  <2>1. CASE b.brim # <<>>
    <3>1. b.level - cf.size \in Nat
      BY <1>1, <2>1
    <3>2. AtRate(b.level - cf.size) \in Nat
      BY <3>1, <1>2
    <3> QED BY <1>1, <3>2
  <2> QED BY <2>1
<1>5. C \in SUBSET Nat
  BY <1>3
<1> HIDE DEF empty, warn
<1>6. idle \in Nat
  <2>1. Greatest({empty, warn}) = IF empty >= warn THEN empty ELSE warn
    BY <1>3, GreatestIs
  <2> QED BY <1>3, <2>1
<1> HIDE DEF idle, B, C
<1>7. Least({idle} \cup B \cup C) \in Nat
  BY <1>4, <1>5, <1>6, LeastOfThree
<1> QED BY <1>7 DEF BTime, idle, B, C, empty, warn

-----------------------------------------------------------------------------
(* The heap of ratequeue.                                                  *)

\* A heap that has each of S once.
HeapFor(H, S) == \E d \in Nat : GoodHeap(H, d, Source) /\ Timed(H) = S

LEMMA TimedIs == ASSUME NEW H PROVE Timed(H) = {x.el : x \in Content(H)}
BY DEF Timed, Content

\* The top of a heap that is not empty is one of its elements.
LEMMA TopOf ==
  ASSUME NEW H, NEW S, HeapFor(H, S)
  PROVE  /\ Size(H) \in Nat
         /\ Size(H) > 0 => Top(H).el \in S /\ Top(H).el \in Source /\ Top(H).tm \in Nat
<1>1. PICK d \in Nat : GoodHeap(H, d, Source) /\ Timed(H) = S
  BY DEF HeapFor
<1>2. Size(H) = d /\ H \in HeapOf(d, Source)
  BY <1>1, SizeIs DEF GoodHeap
<1>3. d > 0 => 0 \in DOMAIN H.b /\ H.b[0] \in Entry(Source)
  BY <1>2 DEF HeapOf
<1> QED BY <1>1, <1>2, <1>3 DEF Top, Timed, Entry

\* updbtime() gives a bucket its time, and a place in the heap if it had none.
LEMMA UpdTimeKeeps ==
  ASSUME NEW S, HeapFor(timeheap, S), NEW s \in Source, NEW b, BTime(b) \in Nat
  PROVE  HeapFor(UpdTime(s, b), S \cup {s})
<1> DEFINE x == [el |-> s, tm |-> BTime(b)]
           H == timeheap
<1>1. PICK d \in Nat : GoodHeap(H, d, Source) /\ Timed(H) = S
  BY DEF HeapFor
<1>2. x \in Entry(Source) /\ x.el = s
  BY DEF Entry
<1> HIDE DEF x
<1>3. /\ H \in HeapOf(d, Source) /\ DOMAIN H.b = 0 .. d - 1 /\ H.pos[s] \in Int
      /\ \A j \in 0 .. d - 1 : H.pos[H.b[j].el] = j /\ H.b[j].el \in Source
      /\ \A e \in Source : H.pos[e] >= 0 => H.pos[e] \in 0 .. d - 1 /\ H.b[H.pos[e]].el = e
  BY <1>1 DEF GoodHeap, HeapOf, HeapOrdered, Entry
<1>4. CASE H.pos[s] < 0
  <2>1. UpdTime(s, b) = ThAdd(H, x)
    BY <1>4 DEF UpdTime, x
  <2>2. s \notin Timed(H)
    BY <1>3, <1>4 DEF Timed
  <2>3. GoodHeap(ThAdd(H, x), d + 1, Source) /\ Content(ThAdd(H, x)) = Content(H) \cup {x}
    BY <1>1, <1>2, <2>2, AddKeeps
  <2>4. Timed(ThAdd(H, x)) = S \cup {s}
    BY <1>1, <1>2, <2>3, TimedIs
  <2> QED BY <2>1, <2>3, <2>4 DEF HeapFor
<1>5. CASE H.pos[s] >= 0
  <2> DEFINE n == H.pos[s]
  <2>1. UpdTime(s, b) = ThAdjust(H, x, n)
    BY <1>3, <1>5 DEF UpdTime, x
  <2>2. n \in 0 .. d - 1 /\ H.b[n].el = s
    BY <1>3, <1>5
  <2>3. \A j \in 1 .. d - 1 : H.b[ThParent(j)].tm <= H.b[j].tm /\ ThParent(j) \in 0 .. d - 1
    BY <1>1, OrderIs
  <2>4. \A j \in 0 .. d - 1 : H.b[j].tm \in Nat
    BY <1>3 DEF HeapOf, Entry
  <2>5. \A j \in 1 .. d - 1 : ThParent(j) = n /\ n > 0 => H.b[ThParent(n)].tm <= H.b[j].tm
    <3> SUFFICES ASSUME NEW j \in 1 .. d - 1, ThParent(j) = n, n > 0 PROVE H.b[ThParent(n)].tm <= H.b[j].tm
      OBVIOUS
    <3>1. n \in 1 .. d - 1 /\ j \in 0 .. d - 1
      BY <2>2
    <3>2. H.b[ThParent(n)].tm <= H.b[n].tm /\ ThParent(n) \in 0 .. d - 1 /\ H.b[n].tm <= H.b[j].tm
      BY <2>3, <3>1
    <3> HIDE DEF n
    <3> QED BY <2>2, <2>4, <3>1, <3>2
  <2>6. \A j \in 0 .. d - 1 : j # n => H.pos[H.b[j].el] = j /\ H.b[j].el # x.el
    BY <1>2, <1>3
  <2>7. \A e \in Source : e # x.el /\ H.pos[e] >= 0 => H.pos[e] \in 0 .. d - 1 /\ H.pos[e] # n /\ H.b[H.pos[e]].el = e
    BY <1>2, <1>3, <2>2
  <2> HIDE DEF n, H
  <2>8. HoleAt(H, d, Source, n, x)
    BY <1>2, <1>3, <2>2, <2>3, <2>5, <2>6, <2>7 DEF HoleAt
  <2>9. GoodHeap(ThAdjust(H, x, n), d, Source) /\ Content(ThAdjust(H, x, n)) = Others(H, d, n) \cup {x}
    BY <2>8, AdjustFills
  <2>10. Timed(ThAdjust(H, x, n)) = S \cup {s}
    <3>1. Timed(ThAdjust(H, x, n)) = {z.el : z \in Others(H, d, n)} \cup {s}
      BY <1>2, <2>9, TimedIs
    <3>2. Timed(H) = {H.b[j].el : j \in 0 .. d - 1}
      BY <1>3 DEF Timed
    <3>3. {z.el : z \in Others(H, d, n)} = {H.b[j].el : j \in (0 .. d - 1) \ {n}}
      BY DEF Others
    <3>4. {H.b[j].el : j \in 0 .. d - 1} = {H.b[j].el : j \in (0 .. d - 1) \ {n}} \cup {s}
      BY <2>2
    <3> QED BY <1>1, <3>1, <3>2, <3>3, <3>4
  <2>11. HeapFor(ThAdjust(H, x, n), S \cup {s})
    BY <2>9, <2>10 DEF HeapFor
  <2> QED BY <2>1, <2>11
<1> QED BY <1>3, <1>4, <1>5

\* freebucket() takes one out.
LEMMA FreeKeeps ==
  ASSUME NEW S, HeapFor(timeheap, S), NEW s \in S
  PROVE  HeapFor(ThDel(timeheap, s), S \ {s})
<1>1. PICK d \in Nat : GoodHeap(timeheap, d, Source) /\ Timed(timeheap) = S
  BY DEF HeapFor
<1>2. /\ d > 0 /\ GoodHeap(ThDel(timeheap, s), d - 1, Source)
      /\ Content(ThDel(timeheap, s)) = {x \in Content(timeheap) : x.el # s}
  BY <1>1, DelKeeps
<1>3. Timed(ThDel(timeheap, s)) = S \ {s}
  BY <1>1, <1>2, TimedIs
<1> QED BY <1>2, <1>3 DEF HeapFor

-----------------------------------------------------------------------------
(* The inductive invariant of ratequeue.                                   *)

RqCounts == /\ cf \in Confs /\ reload \in BOOLEAN
            /\ clock \in 0 .. MaxClock /\ lag \in 0 .. Lag /\ nreq \in 0 .. MaxReq
            /\ phase \in {"top", "poll", "due", "ended"}
            /\ wait \in {Never} \cup Nat
            /\ fwd \in Seq(Request) /\ refused \subseteq Request

Buckets == /\ bk = [s \in DOMAIN bk |-> bk[s]] /\ DOMAIN bk \subseteq Source
           /\ \A s \in DOMAIN bk : bk[s] \in BucketAt(clock, nreq)

\* Those that have a bucket are those in the heap.
BucketInv == RqCounts /\ Buckets /\ HeapFor(timeheap, DOMAIN bk)

\* A bucket of an earlier time, when fewer requests had come.
LEMMA BucketLater ==
  ASSUME NEW t \in Nat, NEW n \in Nat, NEW t2 \in Nat, NEW n2 \in Nat, t <= t2, n <= n2
  PROVE  BucketAt(t, n) \subseteq BucketAt(t2, n2)
<1>1. 0 .. t \subseteq 0 .. t2 /\ -1 .. n \subseteq -1 .. n2
  OBVIOUS
<1> QED BY <1>1 DEF BucketAt

LEMMA RqBounds == {Lag, MaxReq, LastArrival, MaxClock, MaxHups} \subseteq Nat
BY RateAssumption

LEMMA BucketInvInit == RqInit => BucketInv
<1> SUFFICES ASSUME RqInit PROVE BucketInv
  OBVIOUS
<1>1. RqCounts
  <2>1. fwd \in Seq(Request)
    BY EmptySeq DEF RqInit
  <2>2. 0 \in 0 .. MaxClock /\ 0 \in 0 .. Lag /\ 0 \in 0 .. MaxReq
    BY RqBounds
  <2>3. refused = {} /\ cf \in Confs /\ reload = FALSE /\ phase = "top" /\ wait = Never
    BY DEF RqInit
  <2> QED BY <2>1, <2>2, <2>3 DEF RqInit, RqCounts
<1>2. Buckets
  BY DEF RqInit, Buckets
<1>3. HeapFor(timeheap, DOMAIN bk)
  <2>1. GoodHeap(EmptyHeap(Source), 0, Source) /\ Content(EmptyHeap(Source)) = {}
    BY EmptyIsHeap
  <2>2. Timed(EmptyHeap(Source)) = {} /\ DOMAIN bk = {}
    BY <2>1, TimedIs DEF RqInit
  <2> QED BY <2>1, <2>2 DEF RqInit, HeapFor
<1> QED BY <1>1, <1>2, <1>3 DEF BucketInv

\* What a call leaves of a bucket.
LEMMA KeepIs ==
  ASSUME BucketInv, NEW n \in Nat, nreq <= n, NEW s \in Source, NEW b \in BucketAt(clock, n),
         b.brim # <<>> => b.level >= cf.size, Keep(s, b)
  PROVE  /\ HeapFor(timeheap', DOMAIN bk')
         /\ bk' = [o \in DOMAIN bk \cup {s} |-> IF o = s THEN b ELSE bk[o]]
         /\ bk' = [o \in DOMAIN bk' |-> bk'[o]] /\ DOMAIN bk' \subseteq Source
         /\ \A o \in DOMAIN bk' : bk'[o] \in BucketAt(clock, n)
<1>1. clock \in Nat /\ nreq \in Nat /\ ConfOK(cf)
  BY RqBounds, ConfsOK DEF BucketInv, RqCounts
<1>2. BTime(b) \in Nat
  BY <1>1, BTimeIs
<1>3. HeapFor(UpdTime(s, b), DOMAIN bk \cup {s})
  BY <1>2, UpdTimeKeeps DEF BucketInv
<1>4. bk' = [o \in DOMAIN bk \cup {s} |-> IF o = s THEN b ELSE bk[o]]
  BY DEF Keep
<1>5. DOMAIN bk' = DOMAIN bk \cup {s}
  BY <1>4
<1>6. \A o \in DOMAIN bk : bk[o] \in BucketAt(clock, n)
  BY <1>1, BucketLater DEF BucketInv, Buckets
<1>7. timeheap' = UpdTime(s, b)
  BY DEF Keep
<1> QED BY <1>3, <1>4, <1>5, <1>6, <1>7 DEF BucketInv, Buckets

-----------------------------------------------------------------------------
(* The calls of ratequeue.                                                 *)

\* The bucket that hashget() returns.
Found(s) == IF s \in DOMAIN bk THEN bk[s] ELSE NewBucket(clock)

LEMMA InvBounds ==
  ASSUME BucketInv
  PROVE  clock \in Nat /\ nreq \in Nat /\ nreq <= MaxReq /\ ConfOK(cf) /\ fwd \in Seq(Request)
BY RqBounds, ConfsOK DEF BucketInv, RqCounts

LEMMA FoundIs ==
  ASSUME BucketInv, NEW s \in Source
  PROVE  Found(s) \in BucketAt(clock, nreq) /\ Waiting(s) = Found(s).brim /\ LevelNow(s) = LevelAt(Found(s), clock)
<1>1. CASE s \in DOMAIN bk
  BY <1>1 DEF BucketInv, Buckets, Found, Waiting, LevelNow, LevelAt
<1>2. CASE s \notin DOMAIN bk
  <2>1. Found(s) = [level |-> 0, last |-> clock, etime |-> clock, wtime |-> 0, brim |-> <<>>, blocked |-> -1]
    BY <1>2 DEF Found, NewBucket
  <2>2. Waiting(s) = <<>> /\ LevelNow(s) = 0
    BY <1>2 DEF Waiting, LevelNow
  <2>3. clock \in Nat /\ nreq \in Nat /\ ConfOK(cf)
    BY InvBounds
  <2>4. Found(s) \in BucketAt(clock, nreq)
    <3>1. clock \in 0 .. clock /\ 0 \in 0 .. clock /\ -1 \in -1 .. nreq /\ <<>> \in Seq(Request)
      BY <2>3, EmptySeq
    <3> QED BY <2>1, <3>1 DEF BucketAt
  <2>5. LevelAt(Found(s), clock) \in Nat /\ LevelAt(Found(s), clock) <= Found(s).level
    BY <2>3, <2>4, LevelIs
  <2>6. Found(s).level = 0 /\ Found(s).brim = <<>>
    BY <2>1
  <2>7. LevelAt(Found(s), clock) = 0
    BY <2>5, <2>6
  <2> QED BY <2>2, <2>4, <2>6, <2>7
<1> QED BY <1>1, <1>2

\* The bucket nb is what a call leaves of that of s, when it has passed on the
\* first k of those that waited.
Leaves(s, nb, k) ==
  /\ nb \in BucketAt(clock, nreq + 1) /\ nb.last = clock
  /\ nb.brim # <<>> => nb.level >= cf.size
  /\ k \in 0 .. Len(Waiting(s))
  /\ k > 0 => LevelNow(s) + (k - 1) * Unit < cf.size

Past(s, k) == fwd \o SubSeq(Waiting(s), 1, k)
Rest(s, k) == SubSeq(Waiting(s), k + 1, Len(Waiting(s)))
LevelThen(s, k) == LevelNow(s) + k * Unit

\* The three ends of serve().
LetThrough(s, nb, k) == /\ Rest(s, k) = <<>> /\ LevelThen(s, k) < cf.size
                        /\ nb.level = LevelThen(s, k) + Unit /\ nb.brim = <<>>
                        /\ fwd' = Append(Past(s, k), <<nreq + 1, s>>) /\ refused' = refused
MadeWait(s, nb, k) == /\ LevelThen(s, k) >= cf.size /\ Len(Rest(s, k)) < cf.brimsize
                      /\ nb.level = LevelThen(s, k) /\ nb.brim = Append(Rest(s, k), <<nreq + 1, s>>)
                      /\ fwd' = Past(s, k) /\ refused' = refused
TurnedAway(s, nb, k) == /\ LevelThen(s, k) >= cf.size /\ Len(Rest(s, k)) >= cf.brimsize
                        /\ nb.level = LevelThen(s, k) /\ nb.brim = Rest(s, k)
                        /\ fwd' = Past(s, k) /\ refused' = refused \cup {<<nreq + 1, s>>}

\* One element after a concatenation.
LEMMA AppendAfter ==
  ASSUME NEW a \in Seq(Request), NEW b \in Seq(Request), NEW req \in Request
  PROVE  a \o Append(b, req) = Append(a \o b, req)
OBVIOUS

\* What is left of those that wait, and what has passed.
LEMMA PartsAre ==
  ASSUME NEW q \in Seq(Request), NEW k \in 0 .. Len(q)
  PROVE  SubSeq(q, 1, k) \in Seq(Request) /\ SubSeq(q, k + 1, Len(q)) \in Seq(Request)
OBVIOUS

LEMMA ServeIs ==
  ASSUME BucketInv, NEW s \in Source, ServeReq(s)
  PROVE  \E nb, k : /\ Leaves(s, nb, k) /\ Keep(s, nb)
                    /\ LetThrough(s, nb, k) \/ MadeWait(s, nb, k) \/ TurnedAway(s, nb, k)
<1> DEFINE f == Found(s)
           c == Ticked(f, clock)
           k == Sends(Leaked(f, clock))
           req == <<nreq + 1, s>>
<1>1. clock \in Nat /\ nreq \in Nat /\ nreq < MaxReq /\ ConfOK(cf) /\ fwd \in Seq(Request) /\ MaxReq \in Nat
  BY InvBounds, RqBounds DEF ServeReq
<1>2. f \in BucketAt(clock, nreq) /\ Waiting(s) = f.brim /\ LevelNow(s) = LevelAt(f, clock)
  BY FoundIs
<1> HIDE DEF f
<1>3. TickedTo(f, clock, nreq, c, k)
  BY <1>1, <1>2, TickedIs
<1> HIDE DEF c, k
<1>4. /\ c \in BucketAt(clock, nreq) /\ c.last = clock
      /\ k \in 0 .. Len(Waiting(s)) /\ k * Unit \in Nat
      /\ Sent(f, clock) = SubSeq(Waiting(s), 1, k) /\ c.brim = Rest(s, k)
      /\ c.level = LevelThen(s, k)
      /\ k > 0 => LevelNow(s) + (k - 1) * Unit < cf.size
      /\ c.brim # <<>> => c.level >= cf.size
  BY <1>2, <1>3 DEF TickedTo, Rest, LevelThen
<1>5. req \in Request
  BY <1>1 DEF Request
<1>6. /\ c.level \in Nat /\ c.brim \in Seq(Request) /\ Len(c.brim) \in Nat /\ cf.size \in Nat
      /\ cf.brimsize \in Nat /\ Unit \in Nat /\ c.blocked \in -1 .. nreq
  <2>1. c.level \in Nat /\ c.brim \in Seq(Request) /\ c.blocked \in -1 .. nreq
    BY <1>4 DEF BucketAt
  <2>2. cf.size \in Nat /\ cf.brimsize \in Nat /\ Unit \in Nat
    BY <1>1, RateAssumption DEF ConfOK
  <2>3. Len(c.brim) \in Nat
    BY <2>1
  <2> QED BY <2>1, <2>2, <2>3
<1>7. Waiting(s) \in Seq(Request)
  BY <1>2 DEF BucketAt
<1>8. c \in BucketAt(clock, nreq + 1)
  BY <1>1, <1>4, BucketLater
<1>9. Admit(f, req)
  BY DEF ServeReq, f, Found
<1>10. CASE /\ c.level < cf.size
            /\ Keep(s, [c EXCEPT !.level = @ + Unit])
            /\ Forward(Append(Sent(f, clock), req))
            /\ UNCHANGED refused
  <2> DEFINE lev == c.level + Unit
             nb == [c EXCEPT !.level = lev]
  <2>1. lev \in Nat
    BY <1>6
  <2> HIDE DEF lev
  <2>2. nb \in BucketAt(clock, nreq + 1) /\ nb.last = clock /\ nb.level = lev /\ nb.brim = c.brim
    BY <1>4, <1>8, <2>1 DEF BucketAt
  <2>3. c.brim = <<>>
    BY <1>4, <1>6, <1>10
  <2>4. Keep(s, nb)
    BY <1>10 DEF lev
  <2> HIDE DEF nb
  <2>5. fwd' = Append(Past(s, k), req)
    <3>1. SubSeq(Waiting(s), 1, k) \in Seq(Request)
      BY <1>4, <1>7, PartsAre
    <3>2. fwd' = fwd \o Append(SubSeq(Waiting(s), 1, k), req)
      BY <1>4, <1>10 DEF Forward
    <3> HIDE DEF req
    <3>3. fwd' = Append(fwd \o SubSeq(Waiting(s), 1, k), req)
      BY <1>1, <1>5, <3>1, <3>2, AppendAfter
    <3> QED BY <3>3 DEF Past
  <2>6. Leaves(s, nb, k)
    BY <1>4, <2>2, <2>3 DEF Leaves
  <2>7. LetThrough(s, nb, k)
    BY <1>4, <1>10, <2>2, <2>3, <2>5 DEF LetThrough, lev
  <2> QED BY <2>4, <2>6, <2>7
<1>11. CASE /\ c.level >= cf.size
            /\ Len(c.brim) < cf.brimsize
            /\ Keep(s, [c EXCEPT !.brim = Append(@, req)])
            /\ Forward(Sent(f, clock))
            /\ UNCHANGED refused
  <2> DEFINE more == Append(c.brim, req)
             nb == [c EXCEPT !.brim = more]
  <2>1. more \in Seq(Request)
    BY <1>5, <1>6
  <2>2. Keep(s, nb)
    BY <1>11
  <2> HIDE DEF more
  <2>3. nb \in BucketAt(clock, nreq + 1) /\ nb.last = clock /\ nb.level = c.level /\ nb.brim = more
    BY <1>4, <1>8, <2>1 DEF BucketAt
  <2> HIDE DEF nb
  <2>4. Leaves(s, nb, k)
    BY <1>4, <1>11, <2>3 DEF Leaves
  <2>5. MadeWait(s, nb, k)
    BY <1>4, <1>11, <2>3 DEF MadeWait, more, Forward, Past
  <2> QED BY <2>2, <2>4, <2>5
<1>12. CASE /\ c.level >= cf.size
            /\ Len(c.brim) >= cf.brimsize
            /\ Keep(s, IF c.blocked < 0 THEN [c EXCEPT !.blocked = 1, !.wtime = clock]
                                        ELSE [c EXCEPT !.blocked = @ + 1])
            /\ Forward(Sent(f, clock))
            /\ refused' = refused \cup {req}
  <2> DEFINE more == c.blocked + 1
             nb == IF c.blocked < 0 THEN [c EXCEPT !.blocked = 1, !.wtime = clock] ELSE [c EXCEPT !.blocked = more]
  <2>1. c.blocked >= 0 => more \in -1 .. nreq + 1
    BY <1>1, <1>6
  <2>2. Keep(s, nb)
    BY <1>12
  <2> HIDE DEF more
  <2>3. nb \in BucketAt(clock, nreq + 1) /\ nb.last = clock /\ nb.level = c.level /\ nb.brim = c.brim
    <3>1. 1 \in -1 .. nreq + 1 /\ clock \in 0 .. clock
      BY <1>1
    <3>2. CASE c.blocked < 0
      BY <1>4, <1>8, <3>1, <3>2 DEF BucketAt
    <3>3. CASE ~(c.blocked < 0)
      <4>1. more \in -1 .. nreq + 1
        BY <1>6, <2>1, <3>3
      <4> QED BY <1>4, <1>8, <4>1, <3>3 DEF BucketAt
    <3> QED BY <3>2, <3>3
  <2> HIDE DEF nb
  <2>4. Leaves(s, nb, k)
    BY <1>4, <2>3 DEF Leaves
  <2>5. TurnedAway(s, nb, k)
    BY <1>4, <1>12, <2>3 DEF TurnedAway, Forward, Past
  <2> QED BY <2>2, <2>4, <2>5
<1> QED BY <1>9, <1>10, <1>11, <1>12 DEF Admit, c

\* One call of checkbtime() sends what fits, and then keeps the bucket or, when
\* there is nothing to remember, drops it.
Dropped(s) == /\ Waiting(s) = <<>> /\ LevelNow(s) = 0
              /\ bk' = [o \in DOMAIN bk \ {s} |-> bk[o]]
              /\ timeheap' = ThDel(timeheap, s)

LEMMA CheckIs ==
  ASSUME BucketInv, Check
  PROVE  /\ Soonest.el \in DOMAIN bk /\ Soonest.el \in Source
         /\ \E k : /\ k \in 0 .. Len(Waiting(Soonest.el))
                   /\ k > 0 => LevelNow(Soonest.el) + (k - 1) * Unit < cf.size
                   /\ fwd' = Past(Soonest.el, k)
                   /\ \/ k = 0 /\ Dropped(Soonest.el)
                      \/ \E nb : /\ Leaves(Soonest.el, nb, k) /\ Keep(Soonest.el, nb)
                                 /\ nb \in BucketAt(clock, nreq)
                                 /\ nb.level = LevelThen(Soonest.el, k) /\ nb.brim = Rest(Soonest.el, k)
<1> DEFINE s == Soonest.el
           f == bk[s]
           c == Ticked(f, clock)
           k == Sends(Leaked(f, clock))
<1>1. clock \in Nat /\ nreq \in Nat /\ ConfOK(cf) /\ fwd \in Seq(Request)
  BY InvBounds
<1>2. s \in DOMAIN bk /\ s \in Source
  <2>1. HeapFor(timeheap, DOMAIN bk) /\ Size(timeheap) > 0
    BY DEF BucketInv, Check, Due
  <2> QED BY <2>1, TopOf DEF Soonest
<1>3. /\ Forward(Sent(f, clock))
      /\ IF Idle(c) THEN timeheap' = ThDel(timeheap, s) /\ bk' = [o \in DOMAIN bk \ {s} |-> bk[o]]
                    ELSE Keep(s, c)
  BY DEF Check
<1> HIDE DEF s
<1>4. f \in BucketAt(clock, nreq) /\ Waiting(s) = f.brim /\ LevelNow(s) = LevelAt(f, clock)
  BY <1>2, FoundIs DEF Found
<1> HIDE DEF f
<1>5. TickedTo(f, clock, nreq, c, k)
  BY <1>1, <1>4, TickedIs
<1>6. LevelNow(s) \in Nat
  BY <1>1, <1>4, LevelIs
<1> HIDE DEF c, k
<1>7. /\ c \in BucketAt(clock, nreq) /\ c.last = clock
      /\ k \in 0 .. Len(Waiting(s)) /\ k * Unit \in Nat
      /\ Sent(f, clock) = SubSeq(Waiting(s), 1, k) /\ c.brim = Rest(s, k)
      /\ c.level = LevelThen(s, k)
      /\ k > 0 => LevelNow(s) + (k - 1) * Unit < cf.size
      /\ c.brim # <<>> => c.level >= cf.size
  BY <1>4, <1>5 DEF TickedTo, Rest, LevelThen
<1>8. Waiting(s) \in Seq(Request) /\ Len(Waiting(s)) \in Nat
  <2>1. Waiting(s) \in Seq(Request)
    BY <1>4 DEF BucketAt
  <2> QED BY <2>1
<1>9. fwd' = Past(s, k)
  BY <1>3, <1>7 DEF Forward, Past
<1>10. CASE ~Idle(c)
  <2>1. c \in BucketAt(clock, nreq + 1)
    BY <1>1, <1>7, BucketLater
  <2>2. Leaves(s, c, k)
    BY <1>7, <2>1 DEF Leaves
  <2> QED BY <1>2, <1>3, <1>7, <1>9, <1>10, <2>2 DEF s
<1>11. CASE Idle(c)
  <2>1. c.level = 0
    BY <1>11 DEF Idle
  <2>2. k * Unit = 0 /\ LevelNow(s) = 0
    BY <1>6, <1>7, <2>1 DEF LevelThen
  <2>3. k = 0
    <3>1. Unit \in Nat \ {0} /\ k \in Nat
      BY <1>7, <1>8, RateAssumption
    <3>2. 0 < k => 0 * Unit + Unit <= k * Unit
      BY <3>1, ProductGrows
    <3>3. 0 * Unit = 0
      BY <3>1
    <3> QED BY <2>2, <3>1, <3>2, <3>3
  <2>4. Rest(s, k) = <<>>
    <3>1. ~(c.level >= cf.size)
      BY <1>1, <2>1 DEF ConfOK
    <3> QED BY <1>7, <3>1
  <2>5. Waiting(s) = <<>>
    <3>1. SubSeq(Waiting(s), 1, Len(Waiting(s))) = Waiting(s)
      BY <1>8
    <3>2. k + 1 = 1
      BY <2>3
    <3> QED BY <2>4, <3>1, <3>2 DEF Rest
  <2>6. Dropped(s)
    BY <1>3, <1>11, <2>2, <2>5 DEF Dropped
  <2> QED BY <1>2, <1>7, <1>9, <2>3, <2>6 DEF s
<1> QED BY <1>10, <1>11

\* What a call leaves is the bucket of its source from then on.
LEMMA KeepMaps ==
  ASSUME BucketInv, NEW s \in Source, NEW nb, NEW k, Leaves(s, nb, k), Keep(s, nb), cf' = cf, clock' = clock
  PROVE  \A o \in Source : /\ LevelNow(o)' = IF o = s THEN nb.level ELSE LevelNow(o)
                           /\ Waiting(o)' = IF o = s THEN nb.brim ELSE Waiting(o)
<1>1. bk' = [o \in DOMAIN bk \cup {s} |-> IF o = s THEN nb ELSE bk[o]]
  BY DEF Keep
<1>2. LevelAt(nb, clock) = nb.level
  <2>1. clock \in Nat /\ nreq + 1 \in Nat /\ ConfOK(cf)
    BY InvBounds
  <2>2. nb \in BucketAt(clock, nreq + 1) /\ nb.last = clock
    BY DEF Leaves
  <2>3. LevelAt(nb, clock) = IF nb.level - (clock - nb.last) * cf.rate >= 0
                             THEN nb.level - (clock - nb.last) * cf.rate ELSE 0
    BY <2>1, <2>2, LevelIs
  <2>4. (clock - nb.last) * cf.rate = 0
    BY <2>1, <2>2 DEF ConfOK
  <2>5. nb.level \in Nat
    BY <2>2 DEF BucketAt
  <2> QED BY <2>3, <2>4, <2>5
<1>3. LevelNow(s)' = nb.level /\ Waiting(s)' = nb.brim
  BY <1>1, <1>2 DEF LevelNow, LevelAt, Waiting
<1>4. ASSUME NEW o \in Source, o # s PROVE LevelNow(o)' = LevelNow(o) /\ Waiting(o)' = Waiting(o)
  <2>1. o \in DOMAIN bk' <=> o \in DOMAIN bk
    BY <1>1, <1>4
  <2>2. o \in DOMAIN bk => bk'[o] = bk[o]
    BY <1>1, <1>4
  <2> QED BY <2>1, <2>2 DEF LevelNow, Waiting
<1> QED BY <1>3, <1>4

-----------------------------------------------------------------------------
(* The invariant of ratequeue holds after every step.                      *)

LEMMA HistIs ==
  ASSUME BucketInv, NEW s \in Source, NEW k \in 0 .. Len(Waiting(s)), nreq < MaxReq
  PROVE  /\ Past(s, k) \in Seq(Request) /\ <<nreq + 1, s>> \in Request
         /\ Append(Past(s, k), <<nreq + 1, s>>) \in Seq(Request)
<1>1. Waiting(s) \in Seq(Request)
  BY FoundIs DEF BucketAt
<1>2. SubSeq(Waiting(s), 1, k) \in Seq(Request)
  BY <1>1, PartsAre
<1>3. fwd \in Seq(Request) /\ nreq \in Nat /\ MaxReq \in Nat
  BY InvBounds, RqBounds
<1>4. Past(s, k) \in Seq(Request)
  BY <1>2, <1>3 DEF Past
<1>5. <<nreq + 1, s>> \in Request
  BY <1>3 DEF Request
<1> QED BY <1>4, <1>5

LEMMA ServeInv == ASSUME BucketInv, NEW s \in Source, ServeReq(s) PROVE BucketInv'
<1>1. PICK nb, k : /\ Leaves(s, nb, k) /\ Keep(s, nb)
                   /\ LetThrough(s, nb, k) \/ MadeWait(s, nb, k) \/ TurnedAway(s, nb, k)
  BY ServeIs
<1>2. UNCHANGED <<cf, reload, clock, lag, hups>> /\ nreq < MaxReq /\ nreq' = nreq + 1 /\ phase' = "due" /\ wait' = Never
  BY DEF ServeReq
<1>3. clock \in Nat /\ nreq \in Nat /\ MaxReq \in Nat
  BY InvBounds, RqBounds
<1>4. nreq + 1 \in Nat /\ nreq <= nreq + 1 /\ nreq' \in 0 .. MaxReq
  BY <1>2, <1>3
<1>5. k \in 0 .. Len(Waiting(s)) /\ nb \in BucketAt(clock, nreq + 1) /\ (nb.brim # <<>> => nb.level >= cf.size)
  BY <1>1 DEF Leaves
<1>6. /\ HeapFor(timeheap', DOMAIN bk')
      /\ bk' = [o \in DOMAIN bk' |-> bk'[o]] /\ DOMAIN bk' \subseteq Source
      /\ \A o \in DOMAIN bk' : bk'[o] \in BucketAt(clock, nreq + 1)
  BY <1>1, <1>4, <1>5, KeepIs
<1>7. fwd' \in Seq(Request) /\ refused' \subseteq Request
  <2>1. /\ Past(s, k) \in Seq(Request) /\ <<nreq + 1, s>> \in Request
        /\ Append(Past(s, k), <<nreq + 1, s>>) \in Seq(Request)
    BY <1>2, <1>5, HistIs
  <2>2. refused \subseteq Request
    BY DEF BucketInv, RqCounts
  <2> QED BY <1>1, <2>1, <2>2 DEF LetThrough, MadeWait, TurnedAway
<1>8. RqCounts'
  BY <1>2, <1>4, <1>7 DEF BucketInv, RqCounts
<1>9. Buckets'
  BY <1>2, <1>6 DEF Buckets
<1>10. HeapFor(timeheap, DOMAIN bk)'
  BY <1>6 DEF HeapFor
<1> QED BY <1>8, <1>9, <1>10 DEF BucketInv

LEMMA CheckInv == ASSUME BucketInv, Check PROVE BucketInv'
<1> DEFINE s == Soonest.el
<1>1. s \in DOMAIN bk /\ s \in Source
  BY CheckIs
<1>2. PICK k : /\ k \in 0 .. Len(Waiting(s)) /\ fwd' = Past(s, k)
               /\ \/ k = 0 /\ Dropped(s)
                  \/ \E nb \in BucketAt(clock, nreq) : Leaves(s, nb, k) /\ Keep(s, nb)
  BY CheckIs
<1> HIDE DEF s
<1>3. UNCHANGED <<cf, reload, clock, phase, wait, lag, nreq, refused, hups>>
  BY DEF Check
<1>4. clock \in Nat /\ nreq \in Nat
  BY InvBounds
<1>5. fwd' \in Seq(Request)
  <2>1. Waiting(s) \in Seq(Request) /\ fwd \in Seq(Request)
    BY <1>1, FoundIs, InvBounds DEF BucketAt
  <2>2. SubSeq(Waiting(s), 1, k) \in Seq(Request)
    BY <1>2, <2>1, PartsAre
  <2> QED BY <1>2, <2>1, <2>2 DEF Past
<1>6. RqCounts'
  BY <1>3, <1>5 DEF BucketInv, RqCounts
<1>7. CASE Dropped(s)
  <2>1. timeheap' = ThDel(timeheap, s) /\ bk' = [o \in DOMAIN bk \ {s} |-> bk[o]]
    BY <1>7 DEF Dropped
  <2>2. DOMAIN bk' = DOMAIN bk \ {s}
    BY <2>1
  <2>3. HeapFor(timeheap, DOMAIN bk)'
    <3>1. HeapFor(ThDel(timeheap, s), DOMAIN bk \ {s})
      BY <1>1, FreeKeeps DEF BucketInv
    <3> QED BY <2>1, <2>2, <3>1 DEF HeapFor
  <2>4. Buckets'
    <3>1. bk' = [o \in DOMAIN bk' |-> bk'[o]] /\ DOMAIN bk' \subseteq Source
      BY <2>1, <2>2 DEF BucketInv, Buckets
    <3>2. \A o \in DOMAIN bk' : bk'[o] \in BucketAt(clock, nreq)
      BY <2>1, <2>2 DEF BucketInv, Buckets
    <3> QED BY <1>3, <3>1, <3>2 DEF Buckets
  <2> QED BY <1>6, <2>3, <2>4 DEF BucketInv
<1>8. ASSUME NEW nb \in BucketAt(clock, nreq), Leaves(s, nb, k), Keep(s, nb) PROVE BucketInv'
  <2>1. nb.brim # <<>> => nb.level >= cf.size
    BY <1>8 DEF Leaves
  <2>2. /\ HeapFor(timeheap', DOMAIN bk')
        /\ bk' = [o \in DOMAIN bk' |-> bk'[o]] /\ DOMAIN bk' \subseteq Source
        /\ \A o \in DOMAIN bk' : bk'[o] \in BucketAt(clock, nreq)
    <3>1. nreq <= nreq
      BY <1>4
    <3> QED BY <1>1, <1>4, <1>8, <2>1, <3>1, KeepIs
  <2>3. Buckets' /\ HeapFor(timeheap, DOMAIN bk)'
    BY <1>3, <2>2 DEF Buckets, HeapFor
  <2> QED BY <1>6, <2>3 DEF BucketInv
<1> QED BY <1>2, <1>7, <1>8

\* The buckets stay as they are, and time does not go back.
LEMMA SameBuckets ==
  ASSUME BucketInv, UNCHANGED <<bk, timeheap, nreq>>, clock' \in Nat, clock <= clock', RqCounts'
  PROVE  BucketInv'
<1>1. clock \in Nat /\ nreq \in Nat
  BY InvBounds
<1>2. nreq <= nreq
  BY <1>1
<1>3. BucketAt(clock, nreq) \subseteq BucketAt(clock', nreq)
  BY <1>1, <1>2, BucketLater
<1>4. Buckets'
  BY <1>3 DEF BucketInv, Buckets
<1>5. HeapFor(timeheap, DOMAIN bk)'
  BY DEF BucketInv, HeapFor
<1> QED BY <1>4, <1>5 DEF BucketInv

LEMMA NextBucketInv == BucketInv /\ [RqNext]_rqvars => BucketInv'
<1> SUFFICES ASSUME BucketInv, [RqNext]_rqvars PROVE BucketInv'
  OBVIOUS
<1>1. clock \in Nat /\ clock <= clock /\ {Lag, MaxClock} \subseteq Nat
  BY InvBounds, RqBounds
<1>2. CASE LoopHead
  <2>1. wait' \in {Never} \cup Nat
    <3>1. Size(timeheap) \in Nat /\ (Size(timeheap) > 0 => Soonest.tm \in Nat)
      BY TopOf DEF BucketInv, Soonest
    <3>2. Size(timeheap) = 0 \/ Size(timeheap) > 0
      BY <3>1
    <3> QED BY <1>2, <3>1, <3>2 DEF LoopHead, PollUntil
  <2>2. 0 \in 0 .. Lag
    BY <1>1
  <2>3. RqCounts'
    BY <1>2, <2>1, <2>2 DEF LoopHead, store, hist, BucketInv, RqCounts
  <2> QED BY <1>1, <1>2, <2>3, SameBuckets DEF LoopHead, store, hist
<1>3. CASE TimesOut \/ NoneDue \/ Exit \/ Hup
  <2>1. UNCHANGED <<cf, bk, timeheap, nreq, clock, lag, fwd, refused>>
        /\ phase' \in {"top", "poll", "due", "ended"} /\ wait' \in {Never, wait} /\ reload' \in BOOLEAN
    BY <1>3 DEF TimesOut, NoneDue, Exit, Hup, store, hist, BucketInv, RqCounts
  <2>2. RqCounts'
    BY <2>1 DEF BucketInv, RqCounts
  <2> QED BY <1>1, <2>1, <2>2, SameBuckets
<1>4. CASE RqTick
  <2>1. UNCHANGED <<cf, reload, bk, timeheap, phase, wait, nreq, fwd, refused>>
        /\ clock' = clock + 1 /\ clock < MaxClock /\ (lag' = lag \/ (lag < Lag /\ lag' = lag + 1))
    BY <1>4 DEF RqTick, store, hist
  <2>2. lag \in 0 .. Lag /\ clock \in 0 .. MaxClock
    BY DEF BucketInv, RqCounts
  <2>3. lag' \in 0 .. Lag /\ clock' \in 0 .. MaxClock /\ clock' \in Nat /\ clock <= clock'
    BY <1>1, <2>1, <2>2
  <2>4. RqCounts'
    BY <2>1, <2>3 DEF BucketInv, RqCounts
  <2> QED BY <2>1, <2>3, <2>4, SameBuckets
<1>5. CASE UNCHANGED rqvars
  <2>1. UNCHANGED <<cf, reload, bk, timeheap, phase, wait, lag, nreq, clock, fwd, refused>>
    BY <1>5 DEF rqvars, store, hist
  <2>2. RqCounts'
    BY <2>1 DEF BucketInv, RqCounts
  <2> QED BY <1>1, <2>1, <2>2, SameBuckets
<1>6. CASE Check
  BY <1>6, CheckInv
<1>7. CASE \E s \in Source : ServeReq(s)
  BY <1>7, ServeInv
<1> QED BY <1>2, <1>3, <1>4, <1>5, <1>6, <1>7 DEF RqNext, Loop

\* In every state of ratequeue the buckets are those in the heap, each once and at
\* its thpos, with the least time on top; no time of a bucket lies in the future.
THEOREM BucketsAlwaysTimed == RqSpec => []BucketInv
BY BucketInvInit, NextBucketInv, PTL DEF RqSpec

-----------------------------------------------------------------------------
(* The program is a leaky bucket for every source.                         *)

Lev == [s \in Source |-> LevelNow(s)]
Queue == [s \in Source |-> Waiting(s)]

LEMMA KeepLeaks ==
  ASSUME BucketInv, NEW s \in Source, NEW nb, NEW k, Leaves(s, nb, k), Keep(s, nb), cf' = cf, clock' = clock
  PROVE  Lev' = [Lev EXCEPT ![s] = nb.level] /\ Queue' = [Queue EXCEPT ![s] = nb.brim]
<1>1. \A o \in Source : /\ LevelNow(o)' = IF o = s THEN nb.level ELSE LevelNow(o)
                        /\ Waiting(o)' = IF o = s THEN nb.brim ELSE Waiting(o)
  BY KeepMaps
<1>2. Lev' = [o \in Source |-> IF o = s THEN nb.level ELSE LevelNow(o)]
  BY <1>1 DEF Lev
<1>3. Queue' = [o \in Source |-> IF o = s THEN nb.brim ELSE Waiting(o)]
  BY <1>1 DEF Queue
<1> QED BY <1>2, <1>3 DEF Lev, Queue

\* A request of s arrives at its bucket.
LEMMA ServeArrives == ASSUME BucketInv, NEW s \in Source, ServeReq(s) PROVE Bucket!Next
<1> DEFINE req == <<nreq + 1, s>>
<1>1. PICK nb, k : /\ Leaves(s, nb, k) /\ Keep(s, nb)
                   /\ LetThrough(s, nb, k) \/ MadeWait(s, nb, k) \/ TurnedAway(s, nb, k)
  BY ServeIs
<1>2. cf' = cf /\ clock' = clock /\ nreq < MaxReq
  BY DEF ServeReq
<1>3. Lev' = [Lev EXCEPT ![s] = nb.level] /\ Queue' = [Queue EXCEPT ![s] = nb.brim]
  BY <1>1, <1>2, KeepLeaks
<1>4. Lev[s] = LevelNow(s) /\ Queue[s] = Waiting(s)
  BY DEF Lev, Queue
<1>5. k \in 0 .. Len(Queue[s]) /\ (k > 0 => Lev[s] + (k - 1) * Unit < cf.size)
  BY <1>1, <1>4 DEF Leaves
<1>6. req \in Request
  BY <1>1, <1>2, HistIs DEF Leaves
<1> HIDE DEF req
<1>7. /\ Rest(s, k) = SubSeq(Queue[s], k + 1, Len(Queue[s]))
      /\ Past(s, k) = fwd \o SubSeq(Queue[s], 1, k)
      /\ LevelThen(s, k) = Lev[s] + k * Unit
  BY <1>4 DEF Rest, Past, LevelThen
<1>8. LET rest == SubSeq(Queue[s], k + 1, Len(Queue[s]))
          past == fwd \o SubSeq(Queue[s], 1, k)
          level == Lev[s] + k * Unit
      IN  \/ /\ rest = <<>>
             /\ level < cf.size
             /\ fwd' = Append(past, req)
             /\ Lev' = [Lev EXCEPT ![s] = level + Unit]
             /\ Queue' = [Queue EXCEPT ![s] = <<>>]
             /\ UNCHANGED refused
          \/ /\ level >= cf.size
             /\ Len(rest) < cf.brimsize
             /\ fwd' = past
             /\ Lev' = [Lev EXCEPT ![s] = level]
             /\ Queue' = [Queue EXCEPT ![s] = Append(rest, req)]
             /\ UNCHANGED refused
          \/ /\ level >= cf.size
             /\ Len(rest) >= cf.brimsize
             /\ fwd' = past
             /\ Lev' = [Lev EXCEPT ![s] = level]
             /\ Queue' = [Queue EXCEPT ![s] = rest]
             /\ refused' = refused \cup {req}
  <2>1. CASE LetThrough(s, nb, k)
    BY <1>3, <1>7, <2>1 DEF LetThrough, req
  <2>2. CASE MadeWait(s, nb, k)
    BY <1>3, <1>7, <2>2 DEF MadeWait, req
  <2>3. CASE TurnedAway(s, nb, k)
    BY <1>3, <1>7, <2>3 DEF TurnedAway, req
  <2> QED BY <1>1, <2>1, <2>2, <2>3
<1>9. Bucket!Arrive(s, req)
  BY <1>2, <1>5, <1>8 DEF Bucket!Arrive, Bucket!Passes, Lev, Queue
<1> QED BY <1>6, <1>9 DEF Bucket!Next

\* checkbtime() lets some of those that wait pass, or changes nothing that shows.
LEMMA CheckPasses == ASSUME BucketInv, Check PROVE [Bucket!Next]_(Bucket!svars)
<1>1. PICK s \in Source : s = Soonest.el
  BY CheckIs
<1>2. PICK k : /\ k \in 0 .. Len(Waiting(s)) /\ (k > 0 => LevelNow(s) + (k - 1) * Unit < cf.size)
               /\ fwd' = Past(s, k)
               /\ \/ k = 0 /\ Dropped(s)
                  \/ \E nb : /\ Leaves(s, nb, k) /\ Keep(s, nb)
                             /\ nb.level = LevelThen(s, k) /\ nb.brim = Rest(s, k)
  BY <1>1, CheckIs
<1>3. UNCHANGED <<cf, clock, refused>>
  BY DEF Check
<1>4. Lev[s] = LevelNow(s) /\ Queue[s] = Waiting(s)
  BY <1>1 DEF Lev, Queue
<1>5. Waiting(s) \in Seq(Request) /\ fwd \in Seq(Request) /\ LevelNow(s) \in Nat
  BY <1>1, FoundIs, InvBounds, LevelIs DEF BucketAt
<1>6. CASE Dropped(s)
  <2>1. \A o \in Source : LevelNow(o)' = LevelNow(o) /\ Waiting(o)' = Waiting(o)
    <3>1. bk' = [o \in DOMAIN bk \ {s} |-> bk[o]] /\ Waiting(s) = <<>> /\ LevelNow(s) = 0
      BY <1>6 DEF Dropped
    <3>2. LevelNow(s)' = 0 /\ Waiting(s)' = <<>>
      <4>1. s \notin DOMAIN bk'
        BY <3>1
      <4> QED BY <4>1 DEF LevelNow, Waiting
    <3>3. ASSUME NEW o \in Source, o # s PROVE LevelNow(o)' = LevelNow(o) /\ Waiting(o)' = Waiting(o)
      <4>1. (o \in DOMAIN bk' <=> o \in DOMAIN bk) /\ (o \in DOMAIN bk => bk'[o] = bk[o])
        BY <3>1, <3>3
      <4> QED BY <1>3, <4>1 DEF LevelNow, Waiting
    <3>4. LevelNow(s)' = LevelNow(s) /\ Waiting(s)' = Waiting(s)
      BY <3>1, <3>2
    <3>5. ASSUME NEW o \in Source PROVE LevelNow(o)' = LevelNow(o) /\ Waiting(o)' = Waiting(o)
      <4>1. CASE o = s
        BY <3>4, <4>1
      <4>2. CASE o # s
        BY <3>3, <4>2
      <4> QED BY <4>1, <4>2
    <3> QED BY <3>5
  <2>2. Lev' = Lev /\ Queue' = Queue
    BY <2>1 DEF Lev, Queue
  <2>3. fwd' = fwd
    <3>1. Waiting(s) = <<>>
      BY <1>6 DEF Dropped
    <3>2. k = 0
      BY <1>2, <3>1
    <3>3. SubSeq(Waiting(s), 1, k) = <<>>
      BY <3>1, <3>2
    <3>4. fwd \o <<>> = fwd
      BY <1>5
    <3> QED BY <1>2, <3>3, <3>4 DEF Past
  <2> QED BY <1>3, <2>2, <2>3 DEF Bucket!svars, Lev, Queue
<1>7. ASSUME NEW nb, Leaves(s, nb, k), Keep(s, nb), nb.level = LevelThen(s, k), nb.brim = Rest(s, k)
      PROVE  [Bucket!Next]_(Bucket!svars)
  <2>1. Lev' = [Lev EXCEPT ![s] = nb.level] /\ Queue' = [Queue EXCEPT ![s] = nb.brim]
    BY <1>1, <1>3, <1>7, KeepLeaks
  <2>2. nb.level = Lev[s] + k * Unit /\ nb.brim = SubSeq(Queue[s], k + 1, Len(Queue[s]))
        /\ fwd' = fwd \o SubSeq(Queue[s], 1, k)
    BY <1>2, <1>4, <1>7 DEF LevelThen, Rest, Past
  <2>3. k \in 0 .. Len(Queue[s]) /\ (k > 0 => Lev[s] + (k - 1) * Unit < cf.size)
    BY <1>2, <1>4
  <2>4. Len(Queue[s]) \in Nat
    BY <1>4, <1>5
  <2>5. CASE k = 0
    <3>1. Lev[s] + k * Unit = Lev[s]
      <4>1. k * Unit = 0
        BY <2>5, RateAssumption
      <4> QED BY <1>4, <1>5, <4>1
    <3>2. SubSeq(Queue[s], k + 1, Len(Queue[s])) = Queue[s] /\ SubSeq(Queue[s], 1, k) = <<>>
      BY <1>4, <1>5, <2>5
    <3>3. Lev' = Lev /\ Queue' = Queue /\ fwd' = fwd
      <4>1. fwd \o <<>> = fwd
        BY <1>5
      <4>2. Lev = [Lev EXCEPT ![s] = Lev[s]] /\ Queue = [Queue EXCEPT ![s] = Queue[s]]
        BY DEF Lev, Queue
      <4> QED BY <2>1, <2>2, <3>1, <3>2, <4>1, <4>2
    <3> QED BY <1>3, <3>3 DEF Bucket!svars, Lev, Queue
  <2>6. CASE k # 0
    <3>1. k \in 1 .. Len(Queue[s])
      BY <2>3, <2>4, <2>6
    <3>2. /\ fwd' = fwd \o SubSeq(Queue[s], 1, k)
          /\ Queue' = [Queue EXCEPT ![s] = SubSeq(@, k + 1, Len(@))]
          /\ Lev' = [Lev EXCEPT ![s] = @ + k * Unit]
      BY <2>1, <2>2
    <3>3. Bucket!Pass(s)
      BY <1>3, <2>3, <3>1, <3>2 DEF Bucket!Pass, Bucket!Passes, Lev, Queue
    <3> QED BY <1>1, <3>3 DEF Bucket!Next
  <2> QED BY <2>5, <2>6
<1> QED BY <1>2, <1>6, <1>7

\* Each level leaks by the rate, as time passes.
LEMMA LeakIs ==
  ASSUME BucketInv, RqTick, NEW s \in Source
  PROVE  LevelNow(s)' = IF LevelNow(s) > cf.rate THEN LevelNow(s) - cf.rate ELSE 0
<1>0. clock \in Nat /\ nreq \in Nat /\ ConfOK(cf) /\ clock' = clock + 1
      /\ UNCHANGED <<cf, bk, fwd, refused>>
  BY InvBounds DEF RqTick, store, hist
<1>1. CASE s \in DOMAIN bk
  <2> DEFINE b == bk[s]
             p == (clock - b.last) * cf.rate
  <2>1. b \in BucketAt(clock, nreq) /\ b.level \in Nat /\ b.last \in 0 .. clock /\ cf.rate \in Nat \ {0}
    <3>1. b \in BucketAt(clock, nreq) /\ cf.rate \in Nat \ {0}
      BY <1>0, <1>1 DEF BucketInv, Buckets, ConfOK
    <3> QED BY <3>1 DEF BucketAt
  <2>2. LevelNow(s) = Greatest({b.level - p, 0})
    BY <1>1 DEF LevelNow
  <2>3. LevelNow(s)' = Greatest({b.level - (clock + 1 - b.last) * cf.rate, 0})
    <3>1. s \in DOMAIN bk' /\ bk'[s] = b /\ cf' = cf /\ clock' = clock + 1
      BY <1>0, <1>1
    <3>2. LevelNow(s)' = Greatest({bk'[s].level - (clock' - bk'[s].last) * cf'.rate, 0})
      BY <3>1 DEF LevelNow
    <3> HIDE DEF b
    <3>3. LevelNow(s)' = Greatest({b.level - (clock' - b.last) * cf.rate, 0})
      BY <3>1, <3>2
    <3>4. clock' - b.last = clock + 1 - b.last
      BY <1>0, <2>1, <3>1
    <3>5. b.level - (clock' - b.last) * cf.rate = b.level - (clock + 1 - b.last) * cf.rate
      BY <3>4
    <3>6. {b.level - (clock' - b.last) * cf.rate, 0} = {b.level - (clock + 1 - b.last) * cf.rate, 0}
      BY <3>5
    <3> QED BY <3>3, <3>6
  <2> HIDE DEF b
  <2>4. (clock + 1 - b.last) * cf.rate = p + cf.rate /\ p \in Int
    <3>1. clock - b.last \in Int /\ 1 \in Int
      BY <1>0, <2>1
    <3>2. ((clock - b.last) + 1) * cf.rate = (clock - b.last) * cf.rate + 1 * cf.rate
          /\ (clock - b.last) * cf.rate \in Int
      BY <2>1, <3>1, ProductIs
    <3>3. 1 * cf.rate = cf.rate /\ (clock - b.last) + 1 = clock + 1 - b.last
      BY <1>0, <2>1
    <3> QED BY <3>2, <3>3
  <2> HIDE DEF p
  <2>5. Greatest({b.level - p, 0}) = IF b.level - p >= 0 THEN b.level - p ELSE 0
    BY <2>1, <2>4, GreatestIs
  <2>6. Greatest({b.level - (p + cf.rate), 0})
          = IF b.level - (p + cf.rate) >= 0 THEN b.level - (p + cf.rate) ELSE 0
    BY <2>1, <2>4, GreatestIs
  <2> DEFINE old == LevelNow(s)
             new == LevelNow(s)'
  <2>7. old = IF b.level - p >= 0 THEN b.level - p ELSE 0
    BY <2>2, <2>5
  <2>8. new = IF b.level - (p + cf.rate) >= 0 THEN b.level - (p + cf.rate) ELSE 0
    BY <2>3, <2>4, <2>6
  <2> HIDE DEF old, new
  <2>9. new = IF old > cf.rate THEN old - cf.rate ELSE 0
    BY <2>1, <2>4, <2>7, <2>8
  <2> QED BY <2>9 DEF old, new
<1>2. CASE s \notin DOMAIN bk
  <2>1. LevelNow(s) = 0 /\ LevelNow(s)' = 0
    BY <1>0, <1>2 DEF LevelNow
  <2> QED BY <1>0, <2>1 DEF ConfOK
<1> QED BY <1>1, <1>2

\* Each bucket leaks by the rate, as time passes.
LEMMA TickLeaks == ASSUME BucketInv, RqTick PROVE Bucket!Next
<1>1. clock \in Nat /\ nreq \in Nat /\ ConfOK(cf) /\ clock' = clock + 1
      /\ UNCHANGED <<cf, bk, fwd, refused>>
  BY InvBounds DEF RqTick, store, hist
<1>2. \A s \in Source : Waiting(s)' = Waiting(s)
  BY <1>1 DEF Waiting
<1>3. ASSUME NEW s \in Source
      PROVE  LevelNow(s)' = IF LevelNow(s) > cf.rate THEN LevelNow(s) - cf.rate ELSE 0
  BY LeakIs
<1>4. Lev' = [s \in Source |-> IF Lev[s] > cf.rate THEN Lev[s] - cf.rate ELSE 0] /\ Queue' = Queue
  BY <1>2, <1>3 DEF Lev, Queue
<1>5. Bucket!Tick
  BY <1>1, <1>4 DEF Bucket!Tick, Lev, Queue
<1> QED BY <1>5 DEF Bucket!Next

\* Nothing that shows changes.
LEMMA NothingShows ==
  ASSUME UNCHANGED <<cf, bk, clock, fwd, refused>>
  PROVE  UNCHANGED Bucket!svars
<1>1. \A s \in Source : LevelNow(s)' = LevelNow(s) /\ Waiting(s)' = Waiting(s)
  BY DEF LevelNow, Waiting
<1> QED BY <1>1 DEF Bucket!svars

\* More leaks at a higher rate.
LEMMA RateGrows ==
  ASSUME NEW d \in Nat, NEW m \in Nat, NEW n \in Nat, m <= n
  PROVE  d * m <= d * n
<1>1. (n - m) * d = n * d - m * d /\ n * d = d * n /\ m * d = d * m /\ d * n \in Int /\ d * m \in Int
  BY ProductIs
<1>2. (n - m) * d >= 0
  <2>1. CASE d = 0
    <3>1. (n - m) * 0 = 0
      OBVIOUS
    <3> QED BY <2>1, <3>1
  <2>2. CASE d # 0
    BY <2>2, ProductGrows
  <2> QED BY <2>1, <2>2
<1> QED BY <1>1, <1>2

\* A level at another rate.
LEMMA LevelReloads ==
  ASSUME BucketInv, UNCHANGED <<bk, clock>>, ConfOK(cf'), NEW s \in Source
  PROVE  /\ LevelNow(s)' \in Nat
         /\ cf'.rate >= cf.rate => LevelNow(s)' <= LevelNow(s)
         /\ cf'.rate <= cf.rate => LevelNow(s)' >= LevelNow(s)
<1>1. CASE s \in DOMAIN bk
  <2> DEFINE b == bk[s]
             d == clock - b.last
             old == d * cf.rate
             new == d * cf'.rate
  <2>1. b.level \in Nat /\ d \in Nat /\ cf.rate \in Nat /\ cf'.rate \in Nat
    <3>1. b \in BucketAt(clock, nreq) /\ clock \in Nat /\ ConfOK(cf)
      BY <1>1, InvBounds DEF BucketInv, Buckets
    <3>2. b.level \in Nat /\ b.last \in 0 .. clock
      BY <3>1 DEF BucketAt
    <3> QED BY <3>1, <3>2 DEF ConfOK
  <2>2. LevelNow(s) = Greatest({b.level - old, 0})
    BY <1>1 DEF LevelNow
  <2>3. LevelNow(s)' = Greatest({b.level - new, 0})
    BY <1>1 DEF LevelNow
  <2> HIDE DEF b, d
  <2>4. /\ old \in Int /\ new \in Int
        /\ cf'.rate >= cf.rate => new >= old
        /\ cf'.rate <= cf.rate => new <= old
    BY <2>1, TimesIs, RateGrows
  <2> HIDE DEF old, new
  <2>5. /\ Greatest({b.level - old, 0}) = IF b.level - old >= 0 THEN b.level - old ELSE 0
        /\ Greatest({b.level - new, 0}) = IF b.level - new >= 0 THEN b.level - new ELSE 0
    BY <2>1, <2>4, GreatestIs
  <2> QED BY <2>1, <2>2, <2>3, <2>4, <2>5
<1>2. CASE s \notin DOMAIN bk
  <2>1. LevelNow(s) = 0 /\ LevelNow(s)' = 0
    BY <1>2 DEF LevelNow
  <2> QED BY <2>1
<1> QED BY <1>1, <1>2

\* Another configuration: the levels are those at the new rate.
LEMMA HeadReloads == ASSUME BucketInv, BucketInv', LoopHead PROVE [Bucket!Next]_(Bucket!svars)
<1>1. UNCHANGED <<bk, clock, fwd, refused>>
  BY DEF LoopHead, store, hist
<1>2. cf' \in Confs /\ ConfOK(cf')
  BY ConfsOK DEF BucketInv, RqCounts
<1>3. CASE cf' = cf
  BY <1>1, <1>3, NothingShows
<1>4. CASE cf' # cf
  <2>1. \A s \in Source : Waiting(s)' = Waiting(s)
    BY <1>1 DEF Waiting
  <2>2. \A s \in Source : /\ LevelNow(s)' \in Nat
                          /\ cf'.rate >= cf.rate => LevelNow(s)' <= LevelNow(s)
                          /\ cf'.rate <= cf.rate => LevelNow(s)' >= LevelNow(s)
    BY <1>1, <1>2, LevelReloads
  <2>3. Queue' = Queue /\ \A s \in Source : Lev[s] = LevelNow(s) /\ Lev'[s] = LevelNow(s)'
    BY <2>1 DEF Lev, Queue
  <2>4. Bucket!Reload
    BY <1>1, <1>2, <1>4, <2>2, <2>3 DEF Bucket!Reload, Lev, Queue
  <2> QED BY <2>4 DEF Bucket!Next
<1> QED BY <1>3, <1>4

\* Every step of ratequeue is a step of the buckets, or changes nothing of them.
LEMMA StepLeaks == BucketInv /\ BucketInv' /\ [RqNext]_rqvars => [Bucket!Next]_(Bucket!svars)
<1> SUFFICES ASSUME BucketInv, BucketInv', [RqNext]_rqvars PROVE [Bucket!Next]_(Bucket!svars)
  OBVIOUS
<1>1. CASE LoopHead
  BY <1>1, HeadReloads
<1>2. CASE TimesOut \/ NoneDue \/ Exit \/ Hup \/ UNCHANGED rqvars
  <2>1. UNCHANGED <<cf, bk, clock, fwd, refused>>
    BY <1>2 DEF TimesOut, NoneDue, Exit, Hup, rqvars, store, hist
  <2> QED BY <2>1, NothingShows
<1>3. CASE RqTick
  BY <1>3, TickLeaks
<1>4. CASE Check
  BY <1>4, CheckPasses
<1>5. CASE \E s \in Source : ServeReq(s)
  BY <1>5, ServeArrives
<1> QED BY <1>1, <1>2, <1>3, <1>4, <1>5 DEF RqNext, Loop

\* ratequeue is a leaky bucket for every source, whether it keeps a bucket for it
\* or not, whenever it looks at the buckets and however often the configuration
\* changes: what it lets through, makes wait and turns away is what the bucket does.
THEOREM LeaksLikeBuckets == RqSpec => BucketSpec
<1>1. RqInit => Bucket!Init
  <2> SUFFICES ASSUME RqInit PROVE Bucket!Init
    OBVIOUS
  <2>1. \A s \in Source : LevelNow(s) = 0 /\ Waiting(s) = <<>>
    BY DEF RqInit, LevelNow, Waiting
  <2> QED BY <2>1 DEF RqInit, Bucket!Init
<1> QED BY <1>1, BucketsAlwaysTimed, StepLeaks, PTL DEF RqSpec, BucketSpec, Bucket!Spec

-----------------------------------------------------------------------------
(* Slots, as distances around the table.                                   *)

\* A remainder is the one number below the divisor that a multiple of it leaves.
LEMMA RemainderIs ==
  ASSUME NEW n \in Nat \ {0}, NEW q \in Int, NEW x \in 0 .. n - 1
  PROVE  (n * q + x) % n = x
<1> DEFINE a == n * q + x
           d == a \div n
           e == a % n
<1>1. a \in Int /\ d \in Int /\ e \in 0 .. n - 1 /\ a = n * d + e
  OBVIOUS
<1>2. n * (q - d) = e - x
  BY <1>1
<1> HIDE DEF a, d, e
<1>3. ~(q - d >= 1)
  <2> SUFFICES ASSUME q - d >= 1 PROVE FALSE
    OBVIOUS
  <2>1. n * (q - d) >= n
    BY <1>1
  <2> QED BY <1>1, <1>2, <2>1
<1>4. ~(d - q >= 1)
  <2> SUFFICES ASSUME d - q >= 1 PROVE FALSE
    OBVIOUS
  <2>1. n * (d - q) >= n
    BY <1>1
  <2>2. n * (d - q) = x - e
    BY <1>1, <1>2
  <2> QED BY <1>1, <2>1, <2>2
<1>5. q = d
  BY <1>1, <1>3, <1>4
<1>6. e = x
  BY <1>1, <1>2, <1>5
<1> QED BY <1>6 DEF e, a

\* The slot that s hashes to in a table of n slots, the steps from the slot h
\* to the slot j, and the slot that is k steps from h.
Home(s, n) == Hash[s] % n
Dst(n, h, j) == IF j >= h THEN j - h ELSE j - h + n
SlotAt(n, h, k) == IF h + k < n THEN h + k ELSE h + k - n

LEMMA HomeIs ==
  ASSUME NEW n \in Nat \ {0}, NEW s \in Source
  PROVE  /\ Home(s, n) \in 0 .. n - 1
         /\ \A k \in 0 .. n - 1 : (Hash[s] + k) % n = SlotAt(n, Home(s, n), k)
         /\ \A j \in 0 .. n - 1 : (j - Hash[s]) % n = Dst(n, Home(s, n), j)
         /\ \A j \in 0 .. n - 1 : (Hash[s] - j) % n = Dst(n, j, Home(s, n))
<1> DEFINE a == Hash[s]
           q == a \div n
           h == Home(s, n)
<1>1. a \in Nat /\ q \in Int /\ h \in 0 .. n - 1 /\ a = n * q + h
  BY TableAssumption DEF Home
<1> HIDE DEF a, q, h
<1>2. \A k \in 0 .. n - 1 : (a + k) % n = SlotAt(n, h, k)
  <2> SUFFICES ASSUME NEW k \in 0 .. n - 1 PROVE (a + k) % n = SlotAt(n, h, k)
    OBVIOUS
  <2>1. CASE h + k < n
    <3>1. (n * q + (h + k)) % n = h + k
      BY <1>1, <2>1, RemainderIs
    <3>2. a + k = n * q + (h + k)
      BY <1>1
    <3> QED BY <2>1, <3>1, <3>2 DEF SlotAt
  <2>2. CASE ~(h + k < n)
    <3>1. (n * (q + 1) + (h + k - n)) % n = h + k - n
      <4>1. h + k - n \in 0 .. n - 1 /\ q + 1 \in Int
        BY <1>1, <2>2
      <4> QED BY <4>1, RemainderIs
    <3>2. a + k = n * (q + 1) + (h + k - n)
      BY <1>1
    <3> QED BY <2>2, <3>1, <3>2 DEF SlotAt
  <2> QED BY <2>1, <2>2
<1>3. \A j \in 0 .. n - 1 : (j - a) % n = Dst(n, h, j)
  <2> SUFFICES ASSUME NEW j \in 0 .. n - 1 PROVE (j - a) % n = Dst(n, h, j)
    OBVIOUS
  <2>1. CASE j >= h
    <3>1. (n * (-q) + (j - h)) % n = j - h
      <4>1. j - h \in 0 .. n - 1 /\ -q \in Int
        BY <1>1, <2>1
      <4> QED BY <4>1, RemainderIs
    <3>2. j - a = n * (-q) + (j - h)
      BY <1>1
    <3> QED BY <2>1, <3>1, <3>2 DEF Dst
  <2>2. CASE ~(j >= h)
    <3>1. (n * (-q - 1) + (j - h + n)) % n = j - h + n
      <4>1. j - h + n \in 0 .. n - 1 /\ -q - 1 \in Int
        BY <1>1, <2>2
      <4> QED BY <4>1, RemainderIs
    <3>2. j - a = n * (-q - 1) + (j - h + n)
      BY <1>1
    <3> QED BY <2>2, <3>1, <3>2 DEF Dst
  <2> QED BY <2>1, <2>2
<1>4. \A j \in 0 .. n - 1 : (a - j) % n = Dst(n, j, h)
  <2> SUFFICES ASSUME NEW j \in 0 .. n - 1 PROVE (a - j) % n = Dst(n, j, h)
    OBVIOUS
  <2>1. CASE h >= j
    <3>1. (n * q + (h - j)) % n = h - j
      <4>1. h - j \in 0 .. n - 1
        BY <1>1, <2>1
      <4> QED BY <1>1, <4>1, RemainderIs
    <3>2. a - j = n * q + (h - j)
      BY <1>1
    <3> QED BY <2>1, <3>1, <3>2 DEF Dst
  <2>2. CASE ~(h >= j)
    <3>1. (n * (q - 1) + (h - j + n)) % n = h - j + n
      <4>1. h - j + n \in 0 .. n - 1 /\ q - 1 \in Int
        BY <1>1, <2>2
      <4> QED BY <4>1, RemainderIs
    <3>2. a - j = n * (q - 1) + (h - j + n)
      BY <1>1
    <3> QED BY <2>2, <3>1, <3>2 DEF Dst
  <2> QED BY <2>1, <2>2
<1> QED BY <1>1, <1>2, <1>3, <1>4 DEF a, h

\* Steps and slots are inverse to each other.
LEMMA StepsAre ==
  ASSUME NEW n \in Nat \ {0}, NEW h \in 0 .. n - 1
  PROVE  /\ \A j \in 0 .. n - 1 : Dst(n, h, j) \in 0 .. n - 1 /\ SlotAt(n, h, Dst(n, h, j)) = j
         /\ \A k \in 0 .. n - 1 : SlotAt(n, h, k) \in 0 .. n - 1 /\ Dst(n, h, SlotAt(n, h, k)) = k
         /\ \A j, k \in 0 .. n - 1 : Dst(n, h, j) = Dst(n, h, k) => j = k
BY DEF Dst, SlotAt

\* The same, of the expressions in the code.
LEMMA StepIs ==
  ASSUME NEW n \in Nat \ {0}, NEW h \in 0 .. n - 1
  PROVE  /\ \A k \in 0 .. n - 1 : (h + k) % n = SlotAt(n, h, k)
         /\ (h + n) % n = h
<1>1. ASSUME NEW k \in 0 .. n - 1 PROVE (h + k) % n = SlotAt(n, h, k)
  <2>1. CASE h + k < n
    <3>1. h + k \in 0 .. n - 1 /\ 0 \in Int /\ n * 0 + (h + k) = h + k
      BY <2>1
    <3>2. (n * 0 + (h + k)) % n = h + k
      BY <3>1, RemainderIs
    <3> QED BY <2>1, <3>1, <3>2 DEF SlotAt
  <2>2. CASE ~(h + k < n)
    <3>1. h + k - n \in 0 .. n - 1 /\ 1 \in Int /\ n * 1 + (h + k - n) = h + k
      BY <2>2
    <3>2. (n * 1 + (h + k - n)) % n = h + k - n
      BY <3>1, RemainderIs
    <3> QED BY <2>2, <3>1, <3>2 DEF SlotAt
  <2> QED BY <2>1, <2>2
<1>2. (h + n) % n = h
  <2>1. 1 \in Int /\ n * 1 + h = h + n
    OBVIOUS
  <2>2. (n * 1 + h) % n = h
    BY <2>1, RemainderIs
  <2> QED BY <2>1, <2>2
<1> QED BY <1>1, <1>2

LEMMA GapIs ==
  ASSUME NEW n \in Nat \ {0}, NEW h \in 0 .. n - 1, NEW o \in 0 .. n - 1
  PROVE  (o - h) % n = Dst(n, h, o)
<1>1. CASE o >= h
  <2>1. o - h \in 0 .. n - 1 /\ 0 \in Int /\ n * 0 + (o - h) = o - h
    BY <1>1
  <2>2. (n * 0 + (o - h)) % n = o - h
    BY <2>1, RemainderIs
  <2> QED BY <1>1, <2>1, <2>2 DEF Dst
<1>2. CASE ~(o >= h)
  <2>1. o - h + n \in 0 .. n - 1 /\ -1 \in Int /\ n * (-1) + (o - h + n) = o - h
    BY <1>2
  <2>2. (n * (-1) + (o - h + n)) % n = o - h + n
    BY <2>1, RemainderIs
  <2> QED BY <1>2, <2>1, <2>2 DEF Dst
<1> QED BY <1>1, <1>2

-----------------------------------------------------------------------------
(* Arrays of slots.                                                        *)

InArray(b) == {b[i] : i \in DOMAIN b} \ {NoSource}
ArrayOf(n) == [0 .. n - 1 -> Source \cup {NoSource}]
Distinct(b) == \A i, j \in DOMAIN b : b[i] = b[j] /\ b[i] # NoSource => i = j

\* From the slot that a source hashes to one comes to its bucket before one
\* comes to a free slot.
Reached(b, n, j, p) == Dst(n, Home(b[j], n), j) < Dst(n, Home(b[j], n), p)
Probed(b, n) == /\ b \in ArrayOf(n) /\ Distinct(b)
                /\ \A j, p \in 0 .. n - 1 : b[j] # NoSource /\ b[p] = NoSource => Reached(b, n, j, p)

LEMMA InArrayIs ==
  ASSUME NEW n \in Nat, NEW b \in ArrayOf(n)
  PROVE  /\ DOMAIN b = 0 .. n - 1 /\ InArray(b) \subseteq Source
         /\ \A i \in 0 .. n - 1 : b[i] # NoSource => b[i] \in InArray(b) /\ b[i] \in Source
         /\ \A s \in InArray(b) : \E i \in 0 .. n - 1 : b[i] = s /\ s # NoSource
BY DEF InArray, ArrayOf

\* An array has finitely many sources, and a free slot if it has fewer of them
\* than slots.
LEMMA FreeIs ==
  ASSUME NEW n \in Nat, NEW b \in ArrayOf(n), Distinct(b)
  PROVE  /\ IsFiniteSet(InArray(b)) /\ Cardinality(InArray(b)) \in Nat
         /\ Cardinality(InArray(b)) < n => \E p \in 0 .. n - 1 : b[p] = NoSource
<1>1. DOMAIN b = 0 .. n - 1 /\ b \in [0 .. n - 1 -> Source \cup {NoSource}]
  BY DEF ArrayOf
<1>2. IsFiniteSet(0 .. n - 1) /\ Cardinality(0 .. n - 1) = n
  BY FS_Interval
<1>3. IsFiniteSet({b[i] : i \in DOMAIN b})
  <2>1. b \in Surjection(DOMAIN b, {b[i] : i \in DOMAIN b})
    BY <1>1 DEF Surjection
  <2> QED BY <1>1, <1>2, <2>1, FS_Surjection
<1>4. IsFiniteSet(InArray(b))
  BY <1>3, FS_RemoveElement DEF InArray
<1>5. Cardinality(InArray(b)) \in Nat
  BY <1>4, FS_CardinalityType
<1>6. ASSUME Cardinality(InArray(b)) < n, \A p \in 0 .. n - 1 : b[p] # NoSource PROVE FALSE
  <2>1. b \in [0 .. n - 1 -> InArray(b)]
    BY <1>1, <1>6 DEF InArray
  <2>2. \E x, y \in 0 .. n - 1 : x # y /\ b[x] = b[y]
    BY <1>2, <1>4, <1>6, <2>1, FS_PigeonHole
  <2> QED BY <1>1, <1>6, <2>2 DEF Distinct
<1> QED BY <1>4, <1>5, <1>6

\* The slot that the loops of hashget() and rehash() find: a free one, and
\* none before it is free.
LEMMA FreeSlotIs ==
  ASSUME NEW n \in Nat \ {0}, NEW b \in ArrayOf(n), NEW s \in Source,
         NEW q \in 0 .. n - 1, b[q] = NoSource
  PROVE  /\ FreeSlot(b, n, s) \in 0 .. n - 1 /\ b[FreeSlot(b, n, s)] = NoSource
         /\ \A p \in 0 .. n - 1 : b[p] = NoSource =>
              Dst(n, Home(s, n), FreeSlot(b, n, s)) <= Dst(n, Home(s, n), p)
<1> DEFINE h == Home(s, n)
           slot(k) == (Hash[s] + k) % n
           K == {k \in 0 .. n - 1 : b[slot(k)] = NoSource}
           first == CHOOSE k \in 0 .. n - 1 : /\ b[slot(k)] = NoSource
                                              /\ \A j \in 0 .. k - 1 : b[slot(j)] # NoSource
<1>1. h \in 0 .. n - 1 /\ \A k \in 0 .. n - 1 : slot(k) = SlotAt(n, h, k)
  BY HomeIs
<1>2. \A p \in 0 .. n - 1 : Dst(n, h, p) \in 0 .. n - 1 /\ slot(Dst(n, h, p)) = p
  <2> HIDE DEF slot, h
  <2>1. \A p \in 0 .. n - 1 : Dst(n, h, p) \in 0 .. n - 1 /\ SlotAt(n, h, Dst(n, h, p)) = p
    BY <1>1, StepsAre
  <2> QED BY <1>1, <2>1
<1>3. \E k \in K : \A j \in K : k <= j
  <2> HIDE DEF slot, h
  <2>1. Dst(n, h, q) \in K /\ K \in SUBSET Nat
    BY <1>2
  <2> HIDE DEF K
  <2> QED BY <2>1, LeastOf
<1>4. \E k \in 0 .. n - 1 : /\ b[slot(k)] = NoSource
                            /\ \A j \in 0 .. k - 1 : b[slot(j)] # NoSource
  <2> HIDE DEF slot, h
  <2>1. PICK k \in K : \A j \in K : k <= j
    BY <1>3
  <2>2. \A j \in 0 .. k - 1 : j \in 0 .. n - 1 /\ ~(k <= j)
    BY <2>1
  <2> QED BY <2>1, <2>2
<1>5. first \in 0 .. n - 1 /\ b[slot(first)] = NoSource /\ \A j \in 0 .. first - 1 : b[slot(j)] # NoSource
  <2> HIDE DEF slot
  <2> QED BY <1>4
<1>6. FreeSlot(b, n, s) = slot(first)
  BY DEF FreeSlot
<1> HIDE DEF slot, first
<1>7. slot(first) \in 0 .. n - 1 /\ Dst(n, h, slot(first)) = first
  <2> HIDE DEF h
  <2> QED BY <1>1, <1>5, StepsAre
<1>8. \A p \in 0 .. n - 1 : b[p] = NoSource => first <= Dst(n, h, p)
  <2> SUFFICES ASSUME NEW p \in 0 .. n - 1, b[p] = NoSource, ~(first <= Dst(n, h, p)) PROVE FALSE
    BY <1>2, <1>5
  <2>1. Dst(n, h, p) \in 0 .. first - 1
    <3> HIDE DEF h
    <3> QED BY <1>2, <1>5
  <2> QED BY <1>2, <1>5, <2>1
<1> QED BY <1>5, <1>6, <1>7, <1>8

\* A bucket that is put there is found, and so are the others.
LEMMA InsertIs ==
  ASSUME NEW n \in Nat \ {0}, NEW b, Probed(b, n), NEW s \in Source, s \notin InArray(b),
         Cardinality(InArray(b)) < n
  PROVE  /\ Probed(Place(b, n, s), n)
         /\ InArray(Place(b, n, s)) = InArray(b) \cup {s}
<1> DEFINE f == FreeSlot(b, n, s)
           c == Place(b, n, s)
<1>1. b \in ArrayOf(n) /\ Distinct(b) /\ DOMAIN b = 0 .. n - 1
  BY DEF Probed, ArrayOf
<1>2. PICK q \in 0 .. n - 1 : b[q] = NoSource
  BY <1>1, FreeIs
<1>3. /\ f \in 0 .. n - 1 /\ b[f] = NoSource
      /\ \A p \in 0 .. n - 1 : b[p] = NoSource => Dst(n, Home(s, n), f) <= Dst(n, Home(s, n), p)
  BY <1>1, <1>2, FreeSlotIs
<1>0. c = [b EXCEPT ![f] = s]
  BY DEF Place
<1> HIDE DEF f, c
<1>4. c \in ArrayOf(n) /\ DOMAIN c = 0 .. n - 1 /\ c[f] = s /\ \A j \in 0 .. n - 1 : j # f => c[j] = b[j]
  BY <1>0, <1>1, <1>3 DEF ArrayOf
<1>5. s # NoSource
  BY TableAssumption
<1>6. \A j \in 0 .. n - 1 : b[j] # s
  BY <1>1, <1>5 DEF InArray
<1>7. Distinct(c)
  BY <1>1, <1>4, <1>6 DEF Distinct
<1>8. InArray(c) = InArray(b) \cup {s}
  BY <1>1, <1>3, <1>4, <1>5 DEF InArray
<1>9. ASSUME NEW j \in 0 .. n - 1, NEW p \in 0 .. n - 1, c[j] # NoSource, c[p] = NoSource
      PROVE  Reached(c, n, j, p)
  <2>1. p # f /\ b[p] = NoSource
    BY <1>4, <1>5, <1>9
  <2>2. CASE j = f
    <3>1. Home(s, n) \in 0 .. n - 1
      BY HomeIs
    <3>2. Dst(n, Home(s, n), f) # Dst(n, Home(s, n), p)
      BY <1>3, <2>1, <3>1, StepsAre
    <3>3. Dst(n, Home(s, n), f) \in 0 .. n - 1 /\ Dst(n, Home(s, n), p) \in 0 .. n - 1
      BY <1>3, <3>1, StepsAre
    <3> QED BY <1>3, <1>4, <2>1, <2>2, <3>2, <3>3 DEF Reached
  <2>3. CASE j # f
    BY <1>4, <1>9, <2>1, <2>3 DEF Probed, Reached
  <2> QED BY <2>2, <2>3
<1> QED BY <1>4, <1>7, <1>8, <1>9 DEF Probed, c

-----------------------------------------------------------------------------
(* rehash() and hashget().                                                 *)

Moves(a, m, n, f) ==
  f = [i \in 0 .. m |-> IF i = 0 THEN [o \in 0 .. n - 1 |-> NoSource]
                        ELSE LET b == f[i - 1]
                                 s == a[i - 1]
                             IN  IF s = NoSource THEN b ELSE Place(b, n, s)]

\* Its loop ends.
LEMMA MovesEnd == ASSUME NEW a, NEW n, NEW m \in Nat PROVE \E f : Moves(a, m, n, f)
<1> DEFINE Bad == {k \in Nat : ~\E f : Moves(a, k, n, f)}
<1> SUFFICES ASSUME Bad # {} PROVE FALSE
  OBVIOUS
<1>1. PICK k \in Bad : \A j \in Bad : k <= j
  <2>1. Bad \in SUBSET Nat
    OBVIOUS
  <2> HIDE DEF Bad
  <2> QED BY <2>1, LeastOf
<1>2. k \in Nat /\ ~\E f : Moves(a, k, n, f)
  BY <1>1
<1>3. k # 0
  <2>1. Moves(a, 0, n, [i \in 0 .. 0 |-> [o \in 0 .. n - 1 |-> NoSource]])
    BY DEF Moves
  <2> QED BY <1>2, <2>1
<1>4. PICK g : Moves(a, k - 1, n, g)
  BY <1>1, <1>2, <1>3
<1> DEFINE v(i, u) == IF i = 0 THEN [o \in 0 .. n - 1 |-> NoSource]
                      ELSE IF a[i - 1] = NoSource THEN u ELSE Place(u, n, a[i - 1])
           h == [i \in 0 .. k |-> IF i = k THEN v(i, g[i - 1]) ELSE g[i]]
<1>5. \A i \in 0 .. k - 1 : g[i] = v(i, g[i - 1])
  BY <1>4 DEF Moves
<1>6. \A i \in 0 .. k : i # 0 => h[i - 1] = g[i - 1]
  <2> HIDE DEF v
  <2> QED BY <1>2
<1>7. \A i \in 0 .. k : i # 0 => h[i] = v(i, h[i - 1])
  <2>1. \A i \in 0 .. k : i # 0 => h[i] = v(i, g[i - 1])
    <3> HIDE DEF v
    <3> QED BY <1>2, <1>5
  <2> HIDE DEF v, h
  <2> QED BY <1>6, <2>1
<1>8. h[0] = v(0, h[0 - 1])
  <2>1. h[0] = g[0]
    BY <1>2, <1>3
  <2>2. g[0] = v(0, g[0 - 1])
    <3> HIDE DEF v
    <3> QED BY <1>2, <1>3, <1>5
  <2>3. v(0, g[0 - 1]) = v(0, h[0 - 1])
    OBVIOUS
  <2> QED BY <2>1, <2>2, <2>3
<1>9. h = [i \in 0 .. k |-> v(i, h[i - 1])]
  <2>1. h = [i \in 0 .. k |-> h[i]]
    OBVIOUS
  <2> HIDE DEF h, v
  <2> QED BY <1>7, <1>8, <2>1
<1> HIDE DEF h
<1>10. Moves(a, k, n, h)
  BY <1>9 DEF Moves
<1> QED BY <1>2, <1>10

\* Every array on the way is probed, and has the buckets of the slots so far.
LEMMA MovesKeep ==
  ASSUME NEW m \in Nat \ {0}, NEW a \in ArrayOf(m), Distinct(a),
         NEW n \in Nat \ {0}, Cardinality(InArray(a)) < n, NEW f, Moves(a, m, n, f)
  PROVE  Probed(f[m], n) /\ InArray(f[m]) = InArray(a)
<1> DEFINE Good(i) == Probed(f[i], n) /\ InArray(f[i]) = {a[j] : j \in 0 .. i - 1} \ {NoSource}
<1>1. DOMAIN a = 0 .. m - 1 /\ \A j \in 0 .. m - 1 : a[j] \in Source \cup {NoSource}
  BY DEF ArrayOf
<1>2. Good(0)
  <2>1. f[0] = [o \in 0 .. n - 1 |-> NoSource]
    BY DEF Moves
  <2>2. {a[j] : j \in 0 .. 0 - 1} = {}
    OBVIOUS
  <2> QED BY <2>1, <2>2 DEF Probed, ArrayOf, Distinct, InArray
<1>3. ASSUME NEW i \in 1 .. m, Good(i - 1) PROVE Good(i)
  <2> DEFINE b == f[i - 1]
             s == a[i - 1]
  <2>1. f[i] = IF s = NoSource THEN b ELSE Place(b, n, s)
    <3> DEFINE v(k) == IF k = 0 THEN [o \in 0 .. n - 1 |-> NoSource]
                       ELSE IF a[k - 1] = NoSource THEN f[k - 1]
                            ELSE Place(f[k - 1], n, a[k - 1])
    <3>1. f = [k \in 0 .. m |-> v(k)]
      BY DEF Moves
    <3>2. f[i] = v(i)
      <4> HIDE DEF v
      <4> QED BY <3>1
    <3>3. i # 0
      OBVIOUS
    <3> QED BY <3>2, <3>3
  <2>2. InArray(b) = {a[j] : j \in 0 .. i - 2} \ {NoSource} /\ Probed(b, n)
    BY <1>3
  <2>3. s \in Source \cup {NoSource} /\ i - 1 \in 0 .. m - 1
    BY <1>1
  <2>4. {a[j] : j \in 0 .. i - 1} = {a[j] : j \in 0 .. i - 2} \cup {s}
    OBVIOUS
  <2> HIDE DEF b, s
  <2>5. CASE s = NoSource
    BY <2>1, <2>2, <2>4, <2>5
  <2>6. CASE s # NoSource
    <3>1. s \notin InArray(b)
      <4> SUFFICES ASSUME NEW j \in 0 .. i - 2, a[j] = s PROVE FALSE
        BY <2>2
      <4>1. j \in 0 .. m - 1 /\ j # i - 1
        OBVIOUS
      <4> QED BY <1>1, <2>3, <2>6, <4>1 DEF Distinct, s
    <3>2. InArray(b) \subseteq InArray(a)
      <4>1. {a[j] : j \in 0 .. i - 2} \subseteq {a[j] : j \in DOMAIN a}
        BY <1>1
      <4>2. InArray(a) = {a[j] : j \in DOMAIN a} \ {NoSource}
        BY DEF InArray
      <4> QED BY <2>2, <4>1, <4>2
    <3>3. Cardinality(InArray(b)) < n
      <4>1. IsFiniteSet(InArray(a)) /\ Cardinality(InArray(a)) \in Nat
        BY FreeIs
      <4>2. IsFiniteSet(InArray(b)) /\ Cardinality(InArray(b)) <= Cardinality(InArray(a))
        BY <3>2, <4>1, FS_Subset
      <4>3. Cardinality(InArray(b)) \in Nat
        BY <4>2, FS_CardinalityType
      <4> QED BY <4>1, <4>2, <4>3
    <3>4. /\ Probed(Place(b, n, s), n)
          /\ InArray(Place(b, n, s)) = InArray(b) \cup {s}
      <4>1. s \in Source
        BY <2>3, <2>6
      <4>2. Probed(b, n)
        BY <2>2
      <4> QED BY <3>1, <3>3, <4>1, <4>2, InsertIs
    <3> QED BY <2>1, <2>2, <2>4, <2>6, <3>4
  <2> QED BY <2>5, <2>6
<1> DEFINE Bad == {i \in 0 .. m : ~Good(i)}
<1>4. ASSUME Bad # {} PROVE FALSE
  <2>1. PICK i \in Bad : \A j \in Bad : i <= j
    <3>1. Bad \in SUBSET Nat
      OBVIOUS
    <3> HIDE DEF Bad
    <3> QED BY <1>4, <3>1, LeastOf
  <2> HIDE DEF Good
  <2>2. i \in 0 .. m /\ ~Good(i)
    BY <2>1
  <2>3. i # 0
    BY <1>2, <2>2
  <2>4. i - 1 \in 0 .. m /\ i - 1 \notin Bad
    BY <2>1, <2>2, <2>3
  <2>5. i \in 1 .. m /\ Good(i - 1)
    BY <2>2, <2>3, <2>4
  <2> QED BY <1>3, <2>2, <2>5
<1>5. Good(m)
  <2> HIDE DEF Good
  <2> QED BY <1>4
<1>6. {a[j] : j \in 0 .. m - 1} \ {NoSource} = InArray(a)
  BY <1>1 DEF InArray
<1> QED BY <1>5, <1>6

\* A table of buckets, with room for n of them.
TableOf(T) == /\ T = [size |-> T.size, buckets |-> T.buckets]
              /\ T.size \in Nat /\ T.size >= MinSize
              /\ Probed(T.buckets, T.size)

\* And with no more than half of its slots taken.
GoodTable(T) == TableOf(T) /\ 2 * Cardinality(Held(T)) <= T.size

LEMMA HeldIs == ASSUME NEW T, TableOf(T)
  PROVE  /\ Held(T) = InArray(T.buckets) /\ Held(T) \subseteq Source
         /\ IsFiniteSet(Held(T)) /\ Cardinality(Held(T)) \in Nat
         /\ T.size \in Nat \ {0} /\ T.size >= 2
<1>1. Held(T) = InArray(T.buckets)
  BY DEF Held, Slots, InArray
<1> QED BY <1>1, InArrayIs, FreeIs, TableAssumption DEF TableOf, Probed

\* A table of another size has the same buckets.
LEMMA RehashIs ==
  ASSUME NEW T, TableOf(T), NEW z \in Nat,
         2 * Cardinality(Held(T)) <= z \/ 2 * Cardinality(Held(T)) <= MinSize
  PROVE  GoodTable(Rehash(T, z)) /\ Held(Rehash(T, z)) = Held(T)
<1> DEFINE n == IF z <= MinSize THEN MinSize ELSE z
           Made == CHOOSE f : Moves(T.buckets, T.size, n, f)
           R == [size |-> n, buckets |-> Made[T.size]]
<1>1. n \in Nat \ {0} /\ n >= MinSize /\ 2 * Cardinality(Held(T)) <= n /\ Cardinality(Held(T)) \in Nat
  BY HeldIs, TableAssumption
<1>2. Rehash(T, z) = IF n = T.size THEN T ELSE R
  BY DEF Rehash, Moves
<1> HIDE DEF n
<1>3. Moves(T.buckets, T.size, n, Made)
  BY MovesEnd, HeldIs
<1> HIDE DEF Made
<1>4. Probed(Made[T.size], n) /\ InArray(Made[T.size]) = InArray(T.buckets)
  <2>1. Cardinality(InArray(T.buckets)) < n
    BY <1>1, HeldIs
  <2>2. T.size \in Nat \ {0} /\ T.buckets \in ArrayOf(T.size) /\ Distinct(T.buckets)
    BY HeldIs DEF TableOf, Probed
  <2> QED BY <1>1, <1>3, <2>1, <2>2, MovesKeep
<1>5. R.size = n /\ R.buckets = Made[T.size] /\ R = [size |-> R.size, buckets |-> R.buckets]
  OBVIOUS
<1> HIDE DEF R
<1>6. TableOf(R)
  BY <1>1, <1>4, <1>5 DEF TableOf
<1>7. Held(R) = Held(T)
  BY <1>4, <1>5, <1>6, HeldIs
<1>8. CASE n = T.size
  BY <1>1, <1>2, <1>8 DEF GoodTable
<1>9. CASE n # T.size
  BY <1>1, <1>2, <1>5, <1>6, <1>7, <1>9 DEF GoodTable
<1> QED BY <1>8, <1>9

\* hashget() adds at most the source, and keeps the table.
LEMMA HashGetIs ==
  ASSUME NEW T, GoodTable(T), NEW s \in Source
  PROVE  GoodTable(HashGet(T, s)) /\ Held(HashGet(T, s)) = Held(T) \cup {s}
<1> DEFINE N == T.size
           b == Place(T.buckets, N, s)
           W == [T EXCEPT !.buckets = Place(@, N, s)]
<1>1. CASE s \in Held(T)
  BY <1>1 DEF HashGet
<1>2. CASE s \notin Held(T)
  <2>1. /\ TableOf(T) /\ 2 * Cardinality(Held(T)) <= N /\ Cardinality(Held(T)) \in Nat
        /\ Held(T) = InArray(T.buckets) /\ IsFiniteSet(Held(T)) /\ N \in Nat \ {0} /\ N >= 2
    BY HeldIs DEF GoodTable
  <2>2. Probed(b, N) /\ InArray(b) = InArray(T.buckets) \cup {s}
    <3>1. Cardinality(InArray(T.buckets)) < N
      BY <2>1
    <3>2. Probed(T.buckets, N)
      BY <2>1 DEF TableOf
    <3> QED BY <1>2, <2>1, <3>1, <3>2, InsertIs
  <2>3. W = [size |-> N, buckets |-> b]
    BY <2>1 DEF TableOf
  <2>4. HashGet(T, s) = IF Cardinality(Held(W)) > N \div 2 THEN Rehash(W, 2 * N) ELSE W
    BY <1>2 DEF HashGet
  <2> HIDE DEF b
  <2>5. W.size = N /\ W.buckets = b /\ W = [size |-> W.size, buckets |-> W.buckets]
    BY <2>3
  <2> HIDE DEF W
  <2>6. TableOf(W)
    BY <2>1, <2>2, <2>5 DEF TableOf
  <2>7. Held(W) = Held(T) \cup {s} /\ Cardinality(Held(W)) = Cardinality(Held(T)) + 1
    <3>1. Held(W) = Held(T) \cup {s}
      BY <2>1, <2>2, <2>5, <2>6, HeldIs
    <3> QED BY <1>2, <2>1, <3>1, FS_AddElement
  <2>8. CASE Cardinality(Held(W)) > N \div 2
    <3>1. 2 * N \in Nat /\ 2 * Cardinality(Held(W)) <= 2 * N
      BY <2>1, <2>7
    <3>2. GoodTable(Rehash(W, 2 * N)) /\ Held(Rehash(W, 2 * N)) = Held(W)
      BY <2>6, <3>1, RehashIs
    <3> QED BY <2>4, <2>7, <2>8, <3>2
  <2>9. CASE ~(Cardinality(Held(W)) > N \div 2)
    <3>1. 2 * Cardinality(Held(W)) <= N
      BY <2>1, <2>7, <2>9
    <3> QED BY <2>4, <2>5, <2>6, <2>7, <2>9, <3>1 DEF GoodTable
  <2> QED BY <2>8, <2>9
<1> QED BY <1>1, <1>2

-----------------------------------------------------------------------------
(* hashdel().                                                              *)

\* The loop that moves buckets into the hole, over the run slots after i.
Shifts(b, n, i, run, f) ==
  f = [k \in 0 .. run |->
         IF k = 0 THEN [b |-> [b EXCEPT ![i] = NoSource], hole |-> i]
         ELSE LET h == f[k - 1].hole
                  c == f[k - 1].b
                  o == (i + k) % n
                  p == (Hash[c[o]] - h) % n
              IN  IF p = 0 \/ p > (o - h) % n
                  THEN [b |-> [c EXCEPT ![h] = c[o], ![o] = NoSource], hole |-> o]
                  ELSE [b |-> c, hole |-> h]]

LEMMA ShiftsEnd ==
  ASSUME NEW b, NEW n, NEW i, NEW run \in Nat PROVE \E f : Shifts(b, n, i, run, f)
<1> DEFINE Bad == {k \in Nat : ~\E f : Shifts(b, n, i, k, f)}
<1> SUFFICES ASSUME Bad # {} PROVE FALSE
  OBVIOUS
<1>1. PICK k \in Bad : \A j \in Bad : k <= j
  <2>1. Bad \in SUBSET Nat
    OBVIOUS
  <2> HIDE DEF Bad
  <2> QED BY <2>1, LeastOf
<1>2. k \in Nat /\ ~\E f : Shifts(b, n, i, k, f)
  BY <1>1
<1> DEFINE first == [b |-> [b EXCEPT ![i] = NoSource], hole |-> i]
           turn(j, h, c, o) == IF (Hash[c[o]] - h) % n = 0 \/ (Hash[c[o]] - h) % n > (o - h) % n
                            THEN [b |-> [c EXCEPT ![h] = c[o], ![o] = NoSource], hole |-> o]
                            ELSE [b |-> c, hole |-> h]
           v(j, u) == IF j = 0 THEN first ELSE turn(j, u.hole, u.b, (i + j) % n)
<1>3. \A m \in Nat : \A f : Shifts(b, n, i, m, f) <=> f = [j \in 0 .. m |-> v(j, f[j - 1])]
  BY DEF Shifts
<1> HIDE DEF first, turn
<1>4. k # 0
  <2> DEFINE z == [j \in 0 .. 0 |-> first]
  <2>1. z = [j \in 0 .. 0 |-> v(j, z[j - 1])]
    <3>1. \A j \in 0 .. 0 : v(j, z[j - 1]) = first
      OBVIOUS
    <3> HIDE DEF v
    <3> QED BY <3>1
  <2> HIDE DEF z, v
  <2>2. Shifts(b, n, i, 0, z)
    BY <1>3, <2>1
  <2> QED BY <1>2, <2>2
<1>5. PICK g : Shifts(b, n, i, k - 1, g)
  BY <1>1, <1>2, <1>4
<1> DEFINE h == [j \in 0 .. k |-> IF j = k THEN v(j, g[j - 1]) ELSE g[j]]
<1>6. \A j \in 0 .. k - 1 : g[j] = v(j, g[j - 1])
  <2> HIDE DEF v
  <2>1. g = [j \in 0 .. k - 1 |-> v(j, g[j - 1])]
    BY <1>2, <1>3, <1>4, <1>5
  <2> QED BY <2>1
<1>7. \A j \in 0 .. k : j # 0 => h[j - 1] = g[j - 1]
  <2> HIDE DEF v
  <2> QED BY <1>2
<1>8. \A j \in 0 .. k : j # 0 => h[j] = v(j, h[j - 1])
  <2>1. \A j \in 0 .. k : j # 0 => h[j] = v(j, g[j - 1])
    <3> HIDE DEF v
    <3> QED BY <1>2, <1>6
  <2> HIDE DEF v, h
  <2> QED BY <1>7, <2>1
<1>9. h[0] = v(0, h[0 - 1])
  <2>1. h[0] = g[0]
    BY <1>2, <1>4
  <2>2. g[0] = v(0, g[0 - 1])
    <3> HIDE DEF v
    <3> QED BY <1>2, <1>4, <1>6
  <2>3. v(0, g[0 - 1]) = v(0, h[0 - 1])
    OBVIOUS
  <2> QED BY <2>1, <2>2, <2>3
<1>10. h = [j \in 0 .. k |-> v(j, h[j - 1])]
  <2>1. h = [j \in 0 .. k |-> h[j]]
    OBVIOUS
  <2> HIDE DEF h, v
  <2> QED BY <1>8, <1>9, <2>1
<1> HIDE DEF h, v
<1>11. Shifts(b, n, i, k, h)
  BY <1>2, <1>3, <1>10
<1> QED BY <1>2, <1>11

\* The table on the way: the slots up to k steps from i have been looked at,
\* and of those the hole may be in the way of a bucket behind them only.
Shifted(b, n, i, s, k, c, h) ==
  /\ c \in ArrayOf(n) /\ Distinct(c) /\ InArray(c) = InArray(b) \ {s}
  /\ h \in 0 .. n - 1 /\ Dst(n, i, h) <= k /\ c[h] = NoSource
  /\ \A j \in 0 .. n - 1 : Dst(n, i, j) > k => c[j] = b[j]
  /\ \A j, p \in 0 .. n - 1 : c[j] # NoSource /\ c[p] = NoSource =>
       Reached(c, n, j, p) \/ (p = h /\ Dst(n, i, j) > k)

\* One turn of the loop, at the slot o, when e is a free slot behind it.
LEMMA ShiftStep ==
  ASSUME NEW n \in Nat \ {0}, NEW b \in ArrayOf(n), NEW i \in 0 .. n - 1, NEW s, NEW k \in Nat,
         NEW o \in 0 .. n - 1, Dst(n, i, o) = k + 1, b[o] # NoSource,
         NEW e \in 0 .. n - 1, Dst(n, i, e) > k + 1, b[e] = NoSource,
         NEW c, NEW h, Shifted(b, n, i, s, k, c, h),
         NEW d, d = [c EXCEPT ![h] = c[o], ![o] = NoSource],
         NEW moves \in BOOLEAN, moves <=> (Hash[c[o]] - h) % n = 0 \/ (Hash[c[o]] - h) % n > (o - h) % n
  PROVE  /\ moves => Shifted(b, n, i, s, k + 1, d, o)
         /\ ~moves => Shifted(b, n, i, s, k + 1, c, h)
<1> DEFINE q == Home(c[o], n)
<1>1. /\ c \in ArrayOf(n) /\ Distinct(c) /\ InArray(c) = InArray(b) \ {s}
      /\ h \in 0 .. n - 1 /\ Dst(n, i, h) <= k /\ c[h] = NoSource
      /\ \A j \in 0 .. n - 1 : Dst(n, i, j) > k => c[j] = b[j]
      /\ \A j, p \in 0 .. n - 1 : c[j] # NoSource /\ c[p] = NoSource =>
           Reached(c, n, j, p) \/ (p = h /\ Dst(n, i, j) > k)
  BY DEF Shifted
<1>2. c[o] = b[o] /\ c[o] \in Source /\ c[e] = NoSource
  <2>1. Dst(n, i, o) > k /\ Dst(n, i, e) > k
    BY DEF Dst
  <2>2. c[o] = b[o] /\ c[e] = b[e]
    BY <1>1, <2>1
  <2>3. c[o] \in Source
    BY <1>1, <2>2, InArrayIs
  <2> QED BY <2>2, <2>3
<1>3. o # h /\ h # e /\ o # e
  <2>1. Dst(n, i, h) \in 0 .. n - 1
    BY <1>1, StepsAre
  <2> QED BY <1>1, <2>1
<1>4. q \in 0 .. n - 1 /\ (Hash[c[o]] - h) % n = Dst(n, h, q)
  BY <1>1, <1>2, HomeIs
<1>5. (o - h) % n = Dst(n, h, o)
  BY <1>1, GapIs
<1>6. \A j \in 0 .. n - 1 : Dst(n, i, j) \in 0 .. n - 1 /\ (Dst(n, i, j) = k + 1 => j = o)
  <2>1. \A j \in 0 .. n - 1 : Dst(n, i, j) \in 0 .. n - 1
    BY DEF Dst
  <2>2. \A j \in 0 .. n - 1 : Dst(n, i, j) = Dst(n, i, o) => j = o
    BY DEF Dst
  <2> QED BY <2>1, <2>2
<1>7. \A j \in 0 .. n - 1 : c[j] # NoSource => c[j] \in Source /\ Home(c[j], n) \in 0 .. n - 1
  BY <1>1, InArrayIs, HomeIs
<1> HIDE DEF q
<1>8. CASE Dst(n, h, q) = 0 \/ Dst(n, h, q) > Dst(n, h, o)
  <2>1. Dst(n, q, h) < Dst(n, q, o)
    BY <1>1, <1>3, <1>4, <1>8 DEF Dst
  <2>2. /\ d \in ArrayOf(n) /\ d[h] = c[o] /\ d[o] = NoSource /\ DOMAIN d = 0 .. n - 1
        /\ \A j \in 0 .. n - 1 : j # h /\ j # o => d[j] = c[j]
    BY <1>1, <1>3 DEF ArrayOf
  <2>3. DOMAIN c = 0 .. n - 1 /\ c[h] = NoSource /\ c[o] # NoSource
    BY <1>1, <1>2 DEF ArrayOf
  <2>4. Distinct(d)
    BY <1>1, <1>3, <2>2, <2>3 DEF Distinct
  <2>5. InArray(d) = InArray(c)
    <3>1. ASSUME NEW x \in InArray(d) PROVE x \in InArray(c)
      <4>1. PICK j \in 0 .. n - 1 : d[j] = x /\ x # NoSource
        BY <2>2 DEF InArray
      <4>2. j = h \/ (j # h /\ j # o)
        BY <2>2, <4>1
      <4> QED BY <2>2, <2>3, <4>1, <4>2 DEF InArray
    <3>2. ASSUME NEW x \in InArray(c) PROVE x \in InArray(d)
      <4>1. PICK j \in 0 .. n - 1 : c[j] = x /\ x # NoSource
        BY <2>3 DEF InArray
      <4>2. j = o \/ (j # h /\ j # o)
        BY <2>3, <4>1
      <4> QED BY <1>1, <2>2, <4>1, <4>2 DEF InArray
    <3> QED BY <3>1, <3>2
  <2>6. \A j \in 0 .. n - 1 : Dst(n, i, j) > k + 1 => d[j] = b[j]
    <3> SUFFICES ASSUME NEW j \in 0 .. n - 1, Dst(n, i, j) > k + 1 PROVE d[j] = b[j]
      OBVIOUS
    <3>1. Dst(n, i, j) \in Nat /\ Dst(n, i, h) \in Nat
      BY <1>1, <1>6
    <3>2. j # o /\ j # h /\ Dst(n, i, j) > k
      BY <1>1, <3>1
    <3> QED BY <1>1, <2>2, <3>2
  <2>7. ASSUME NEW j \in 0 .. n - 1, NEW p \in 0 .. n - 1, d[j] # NoSource, d[p] = NoSource,
               ~(p = o /\ Dst(n, i, j) > k + 1)
        PROVE  Reached(d, n, j, p)
    <3>1. j # o /\ p # h
      BY <2>2, <2>3, <2>7
    <3>2. CASE j = h
      <4>1. d[j] = c[o]
        BY <2>2, <3>2
      <4>2. CASE p = o
        BY <2>1, <3>2, <4>1, <4>2 DEF Reached, q
      <4>3. CASE p # o
        <5>1. c[p] = NoSource
          BY <2>2, <2>7, <3>1, <4>3
        <5>2. Dst(n, q, o) < Dst(n, q, p)
          BY <1>1, <2>3, <3>1, <5>1 DEF Reached, q
        <5>3. Dst(n, q, h) < Dst(n, q, p)
          BY <1>1, <1>4, <2>1, <5>2 DEF Dst
        <5> QED BY <3>2, <4>1, <5>3 DEF Reached, q
      <4> QED BY <4>2, <4>3
    <3>3. CASE j # h
      <4> DEFINE g == Home(c[j], n)
      <4>1. d[j] = c[j] /\ c[j] # NoSource
        BY <2>2, <2>7, <3>1, <3>3
      <4>2. CASE p # o
        <5>1. c[p] = NoSource
          BY <2>2, <2>7, <3>1, <4>2
        <5> QED BY <1>1, <3>1, <4>1, <5>1 DEF Reached
      <4>3. CASE p = o
        <5>1. Dst(n, i, j) <= k
          BY <1>6, <2>7, <3>1, <4>3
        <5>2. Dst(n, g, j) < Dst(n, g, h)
          BY <1>1, <4>1, <5>1, <1>6 DEF Reached
        <5>3. Dst(n, g, j) < Dst(n, g, e)
          BY <1>1, <1>2, <1>3, <4>1 DEF Reached
        <5>4. g \in 0 .. n - 1
          BY <1>7, <4>1
        <5> HIDE DEF g
        <5>5. Dst(n, g, j) < Dst(n, g, o)
          BY <5>1, <5>3, <5>4 DEF Dst
        <5> QED BY <4>1, <4>3, <5>5 DEF Reached, g
      <4> QED BY <4>2, <4>3
    <3> QED BY <3>2, <3>3
  <2>8. Shifted(b, n, i, s, k + 1, d, o)
    <3>1. InArray(d) = InArray(b) \ {s}
      BY <1>1, <2>5
    <3>2. Dst(n, i, o) <= k + 1
      OBVIOUS
    <3> QED BY <2>2, <2>4, <2>6, <2>7, <3>1, <3>2 DEF Shifted
  <2> QED BY <1>4, <1>5, <1>8, <2>8
<1>9. CASE ~(Dst(n, h, q) = 0 \/ Dst(n, h, q) > Dst(n, h, o))
  <2>1. Dst(n, q, o) < Dst(n, q, h)
    BY <1>1, <1>3, <1>4, <1>9 DEF Dst
  <2>2. ASSUME NEW j \in 0 .. n - 1, NEW p \in 0 .. n - 1, c[j] # NoSource, c[p] = NoSource,
               ~(p = h /\ Dst(n, i, j) > k + 1)
        PROVE  Reached(c, n, j, p)
    <3>1. CASE j = o /\ p = h
      BY <2>1, <3>1 DEF Reached, q
    <3>2. CASE ~(j = o /\ p = h)
      BY <1>1, <1>6, <2>2, <3>2
    <3> QED BY <3>1, <3>2
  <2>3. Shifted(b, n, i, s, k + 1, c, h)
    <3>1. Dst(n, i, h) <= k + 1
      BY <1>1, <1>6
    <3>2. \A j \in 0 .. n - 1 : Dst(n, i, j) > k + 1 => c[j] = b[j]
      BY <1>1, <1>6
    <3> QED BY <1>1, <2>2, <3>1, <3>2 DEF Shifted
  <2> QED BY <1>4, <1>5, <1>9, <2>3
<1> QED BY <1>8, <1>9

\* Before the loop the slot of s is empty, and is the hole.
LEMMA ShiftFirst ==
  ASSUME NEW n \in Nat \ {0}, NEW b, Probed(b, n), NEW i \in 0 .. n - 1, NEW s \in Source, b[i] = s
  PROVE  Shifted(b, n, i, s, 0, [b EXCEPT ![i] = NoSource], i)
<1> DEFINE c == [b EXCEPT ![i] = NoSource]
<1>1. b \in ArrayOf(n) /\ Distinct(b) /\ DOMAIN b = 0 .. n - 1
  BY DEF Probed, ArrayOf
<1>2. /\ c \in ArrayOf(n) /\ DOMAIN c = 0 .. n - 1 /\ c[i] = NoSource
      /\ \A j \in 0 .. n - 1 : j # i => c[j] = b[j]
  BY <1>1 DEF ArrayOf
<1> HIDE DEF c
<1>3. Distinct(c)
  BY <1>1, <1>2 DEF Distinct
<1>4. InArray(c) = InArray(b) \ {s}
  <2>1. \A j \in 0 .. n - 1 : j # i => b[j] # s
    BY <1>1, TableAssumption DEF Distinct
  <2>2. ASSUME NEW x \in InArray(c) PROVE x \in InArray(b) \ {s}
    <3>1. PICK j \in 0 .. n - 1 : c[j] = x /\ x # NoSource
      BY <1>2 DEF InArray
    <3> QED BY <1>1, <1>2, <2>1, <3>1 DEF InArray
  <2>3. ASSUME NEW x \in InArray(b) \ {s} PROVE x \in InArray(c)
    <3>1. PICK j \in 0 .. n - 1 : b[j] = x /\ x # NoSource /\ x # s
      BY <1>1 DEF InArray
    <3> QED BY <1>2, <3>1 DEF InArray
  <2> QED BY <2>2, <2>3
<1>5. ASSUME NEW j \in 0 .. n - 1, NEW p \in 0 .. n - 1, c[j] # NoSource, c[p] = NoSource,
             ~(p = i /\ Dst(n, i, j) > 0)
      PROVE  Reached(c, n, j, p)
  <2>1. j # i
    BY <1>2, <1>5
  <2>2. p # i
    BY <1>5, <2>1 DEF Dst
  <2> QED BY <1>2, <1>5, <2>1, <2>2 DEF Probed, Reached
<1>6. Dst(n, i, i) = 0 /\ \A j \in 0 .. n - 1 : Dst(n, i, j) > 0 => j # i
  BY DEF Dst
<1>7. Shifted(b, n, i, s, 0, c, i)
  BY <1>2, <1>3, <1>4, <1>5, <1>6 DEF Shifted
<1> QED BY <1>7 DEF c

\* At the free slot that ends the loop every bucket can be reached.
LEMMA ShiftLast ==
  ASSUME NEW n \in Nat \ {0}, NEW b \in ArrayOf(n), NEW i \in 0 .. n - 1, NEW s, NEW run \in Nat,
         NEW e \in 0 .. n - 1, Dst(n, i, e) = run + 1, b[e] = NoSource,
         NEW c, NEW h, Shifted(b, n, i, s, run, c, h)
  PROVE  Probed(c, n) /\ InArray(c) = InArray(b) \ {s}
<1>1. /\ c \in ArrayOf(n) /\ Distinct(c) /\ InArray(c) = InArray(b) \ {s}
      /\ h \in 0 .. n - 1 /\ Dst(n, i, h) <= run
      /\ \A j \in 0 .. n - 1 : Dst(n, i, j) > run => c[j] = b[j]
      /\ \A j, p \in 0 .. n - 1 : c[j] # NoSource /\ c[p] = NoSource =>
           Reached(c, n, j, p) \/ (p = h /\ Dst(n, i, j) > run)
  BY DEF Shifted
<1>2. c[e] = NoSource
  BY <1>1
<1>3. ASSUME NEW j \in 0 .. n - 1, NEW p \in 0 .. n - 1, c[j] # NoSource, c[p] = NoSource
      PROVE  Reached(c, n, j, p)
  <2>1. CASE ~(p = h /\ Dst(n, i, j) > run)
    BY <1>1, <1>3, <2>1
  <2>2. CASE p = h /\ Dst(n, i, j) > run
    <3> DEFINE g == Home(c[j], n)
    <3>1. j # e /\ e # h
      <4>1. Dst(n, i, h) \in 0 .. n - 1
        BY <1>1, StepsAre
      <4> QED BY <1>1, <1>2, <1>3, <4>1
    <3>2. Dst(n, g, j) < Dst(n, g, e)
      BY <1>1, <1>2, <1>3, <3>1 DEF Reached
    <3>3. g \in 0 .. n - 1
      BY <1>1, <1>3, InArrayIs, HomeIs
    <3> HIDE DEF g
    <3>4. Dst(n, i, j) > run + 1
      BY <2>2, <3>1 DEF Dst
    <3>5. Dst(n, g, j) < Dst(n, g, h)
      BY <1>1, <3>2, <3>3, <3>4 DEF Dst
    <3> QED BY <2>2, <3>5 DEF Reached, g
  <2> QED BY <2>1, <2>2
<1> QED BY <1>1, <1>3 DEF Probed

\* What the loop leaves.
LEMMA ShiftsKeep ==
  ASSUME NEW n \in Nat \ {0}, NEW b, Probed(b, n), NEW i \in 0 .. n - 1, NEW s \in Source, b[i] = s,
         NEW run \in 0 .. n - 2, \A k \in 1 .. run : b[SlotAt(n, i, k)] # NoSource,
         b[SlotAt(n, i, run + 1)] = NoSource, NEW f, Shifts(b, n, i, run, f)
  PROVE  Probed(f[run].b, n) /\ InArray(f[run].b) = InArray(b) \ {s}
<1> DEFINE e == SlotAt(n, i, run + 1)
           Good(k) == Shifted(b, n, i, s, k, f[k].b, f[k].hole)
           Bad == {k \in 0 .. run : ~Good(k)}
<1>1. run + 1 \in 0 .. n - 1 /\ b \in ArrayOf(n)
  BY DEF Probed
<1>2. \A k \in 0 .. n - 1 : SlotAt(n, i, k) \in 0 .. n - 1 /\ Dst(n, i, SlotAt(n, i, k)) = k
  BY StepsAre
<1>3. e \in 0 .. n - 1 /\ Dst(n, i, e) = run + 1 /\ b[e] = NoSource
  BY <1>1, <1>2
<1> HIDE DEF e
<1>4. Good(0)
  <2>1. f[0] = [b |-> [b EXCEPT ![i] = NoSource], hole |-> i]
    BY DEF Shifts
  <2> DEFINE z == [b EXCEPT ![i] = NoSource]
  <2>2. Shifted(b, n, i, s, 0, z, i)
    BY ShiftFirst
  <2>3. f[0] = [b |-> z, hole |-> i]
    BY <2>1
  <2> HIDE DEF z
  <2>4. f[0].b = z /\ f[0].hole = i
    BY <2>3
  <2> QED BY <2>2, <2>4
<1>5. ASSUME NEW k \in 1 .. run, Good(k - 1) PROVE Good(k)
  <2> DEFINE h == f[k - 1].hole
             c == f[k - 1].b
             o == SlotAt(n, i, k)
             p == (Hash[c[o]] - h) % n
             d == [c EXCEPT ![h] = c[o], ![o] = NoSource]
             moves == p = 0 \/ p > (o - h) % n
             v(j) == IF j = 0 THEN [b |-> [b EXCEPT ![i] = NoSource], hole |-> i]
                     ELSE LET x == f[j - 1].hole
                              u == f[j - 1].b
                              y == (i + j) % n
                              z == (Hash[u[y]] - x) % n
                          IN  IF z = 0 \/ z > (y - x) % n
                              THEN [b |-> [u EXCEPT ![x] = u[y], ![y] = NoSource], hole |-> y]
                              ELSE [b |-> u, hole |-> x]
  <2>1. k \in 0 .. n - 1 /\ k # 0 /\ k - 1 \in Nat /\ (k - 1) + 1 = k
    BY <1>1
  <2>2. (i + k) % n = o /\ o \in 0 .. n - 1 /\ Dst(n, i, o) = k
    BY <1>2, <2>1, StepIs
  <2>3. f[k] = v(k)
    <3>1. f = [j \in 0 .. run |-> v(j)]
      BY DEF Shifts
    <3> HIDE DEF v
    <3> QED BY <3>1
  <2>4. f[k] = IF moves THEN [b |-> d, hole |-> o] ELSE [b |-> c, hole |-> h]
    <3> HIDE DEF h, c, o
    <3>1. v(k) = IF moves THEN [b |-> d, hole |-> o] ELSE [b |-> c, hole |-> h]
      BY <2>1, <2>2 DEF h, c
    <3> QED BY <2>3, <3>1
  <2> HIDE DEF v
  <2>5. Shifted(b, n, i, s, k - 1, c, h)
    BY <1>5
  <2> HIDE DEF c, h
  <2>6. b[o] # NoSource /\ Dst(n, i, e) > (k - 1) + 1 /\ Dst(n, i, o) = (k - 1) + 1
    BY <1>3, <2>1, <2>2
  <2> HIDE DEF o, Good
  <2>7. d = [c EXCEPT ![h] = c[o], ![o] = NoSource]
    OBVIOUS
  <2>8. /\ moves \in BOOLEAN
        /\ moves <=> (Hash[c[o]] - h) % n = 0 \/ (Hash[c[o]] - h) % n > (o - h) % n
    OBVIOUS
  <2> HIDE DEF p, d, moves
  <2>9. /\ moves => Shifted(b, n, i, s, (k - 1) + 1, d, o)
        /\ ~moves => Shifted(b, n, i, s, (k - 1) + 1, c, h)
    BY <1>1, <1>3, <2>1, <2>2, <2>5, <2>6, <2>7, <2>8, ShiftStep
  <2>10. CASE moves
    <3>1. f[k].b = d /\ f[k].hole = o
      BY <2>4, <2>10
    <3> QED BY <2>1, <2>9, <2>10, <3>1 DEF Good
  <2>11. CASE ~moves
    <3>1. f[k].b = c /\ f[k].hole = h
      BY <2>4, <2>11
    <3> QED BY <2>1, <2>9, <2>11, <3>1 DEF Good
  <2> QED BY <2>10, <2>11
<1>6. ASSUME Bad # {} PROVE FALSE
  <2>1. PICK k \in Bad : \A j \in Bad : k <= j
    <3>1. Bad \in SUBSET Nat
      OBVIOUS
    <3> HIDE DEF Bad
    <3> QED BY <1>6, <3>1, LeastOf
  <2> HIDE DEF Good
  <2>2. k \in 0 .. run /\ ~Good(k)
    BY <2>1
  <2>3. k # 0
    BY <1>4, <2>2
  <2>4. k - 1 \in 0 .. run /\ k - 1 \notin Bad
    BY <2>1, <2>2, <2>3
  <2>5. k \in 1 .. run /\ Good(k - 1)
    BY <2>2, <2>3, <2>4
  <2> QED BY <1>5, <2>2, <2>5
<1>7. Shifted(b, n, i, s, run, f[run].b, f[run].hole)
  <2>1. Good(run)
    <3> HIDE DEF Good
    <3> QED BY <1>6
  <2> QED BY <2>1
<1> DEFINE c == f[run].b
           h == f[run].hole
<1>8. Shifted(b, n, i, s, run, c, h)
  BY <1>7
<1> HIDE DEF c, h
<1>9. run \in Nat
  OBVIOUS
<1>10. Probed(c, n) /\ InArray(c) = InArray(b) \ {s}
  <2>1. b \in ArrayOf(n)
    BY <1>1
  <2>2. e \in 0 .. n - 1
    BY <1>3
  <2>3. Dst(n, i, e) = run + 1
    BY <1>3
  <2>4. b[e] = NoSource
    BY <1>3
  <2> HIDE DEF Good, Bad
  <2>5. Probed(c, n)
    BY <1>8, <1>9, <2>1, <2>2, <2>3, <2>4, ShiftLast
  <2>6. InArray(c) = InArray(b) \ {s}
    BY <1>8 DEF Shifted
  <2> QED BY <2>5, <2>6
<1> QED BY <1>10 DEF c

\* hashdel() takes the source out, and keeps the table.
LEMMA HashDelIs ==
  ASSUME NEW T, GoodTable(T), NEW s \in Held(T)
  PROVE  GoodTable(HashDel(T, s)) /\ Held(HashDel(T, s)) = Held(T) \ {s}
<1> DEFINE N == T.size
           b == T.buckets
           i == CHOOSE k \in Slots(T) : T.buckets[k] = s
           slot(k) == (i + k) % N
           run == CHOOSE k \in 0 .. N - 1 : /\ T.buckets[slot(k + 1)] \in {NoSource, s}
                                            /\ \A j \in 1 .. k : T.buckets[slot(j)] # NoSource
           f == CHOOSE g : Shifts(b, N, i, run, g)
           rest == [T EXCEPT !.buckets = f[run].b]
<1>1. /\ TableOf(T) /\ 2 * Cardinality(Held(T)) <= N /\ Cardinality(Held(T)) \in Nat
      /\ Held(T) = InArray(b) /\ IsFiniteSet(Held(T)) /\ N \in Nat \ {0} /\ N >= 2
      /\ Probed(b, N) /\ Held(T) \subseteq Source
  BY HeldIs DEF GoodTable, TableOf
<1>2. b \in ArrayOf(N) /\ Distinct(b) /\ DOMAIN b = 0 .. N - 1 /\ s \in Source /\ s # NoSource
  BY <1>1, TableAssumption DEF Probed, ArrayOf
<1>3. i \in 0 .. N - 1 /\ b[i] = s
  <2>1. \E k \in Slots(T) : T.buckets[k] = s
    BY DEF Held
  <2> QED BY <1>2, <2>1 DEF Slots
<1>4. HashDel(T, s) = IF Cardinality(Held(rest)) <= N \div 8 THEN Rehash(rest, N \div 2) ELSE rest
  BY DEF HashDel, Shifts
<1> HIDE DEF i
<1>5. /\ \A k \in 0 .. N - 1 : slot(k) = SlotAt(N, i, k) /\ slot(k) \in 0 .. N - 1 /\ Dst(N, i, slot(k)) = k
      /\ slot(N) = i
  <2> HIDE DEF N
  <2>1. \A k \in 0 .. N - 1 : slot(k) = SlotAt(N, i, k)
    BY <1>1, <1>3, StepIs
  <2>2. \A k \in 0 .. N - 1 : SlotAt(N, i, k) \in 0 .. N - 1 /\ Dst(N, i, SlotAt(N, i, k)) = k
    BY <1>1, <1>3, StepsAre
  <2>3. slot(N) = i
    BY <1>1, <1>3, StepIs
  <2> QED BY <2>1, <2>2, <2>3
<1> HIDE DEF slot, b, N
<1>6. run \in 0 .. N - 1 /\ b[slot(run + 1)] \in {NoSource, s} /\ \A j \in 1 .. run : b[slot(j)] # NoSource
  <2> DEFINE K == {k \in 0 .. N - 1 : b[slot(k + 1)] \in {NoSource, s}}
  <2>1. N - 1 \in K
    <3>1. (N - 1) + 1 = N /\ N - 1 \in 0 .. N - 1
      BY <1>1
    <3> QED BY <1>3, <1>5, <3>1
  <2>2. PICK k \in K : \A j \in K : k <= j
    <3>1. K \in SUBSET Nat
      OBVIOUS
    <3> HIDE DEF K
    <3> QED BY <2>1, <3>1, LeastOf
  <2>3. \A j \in 1 .. k : b[slot(j)] # NoSource
    <3> SUFFICES ASSUME NEW j \in 1 .. k PROVE b[slot(j)] # NoSource
      OBVIOUS
    <3>1. j - 1 \in 0 .. N - 1 /\ ~(k <= j - 1) /\ (j - 1) + 1 = j
      BY <1>1, <2>2
    <3>2. j - 1 \notin K
      BY <2>2, <3>1
    <3> QED BY <3>1, <3>2
  <2>4. \E m \in 0 .. N - 1 : b[slot(m + 1)] \in {NoSource, s} /\ \A j \in 1 .. m : b[slot(j)] # NoSource
    BY <2>2, <2>3
  <2> QED BY <2>4 DEF b
<1> HIDE DEF run
<1>7. run \in 0 .. N - 2 /\ b[SlotAt(N, i, run + 1)] = NoSource
      /\ \A k \in 1 .. run : b[SlotAt(N, i, k)] # NoSource
  <2>1. PICK z \in 0 .. N - 1 : b[z] = NoSource
    <3>1. Cardinality(InArray(b)) < N
      BY <1>1
    <3> QED BY <1>1, <1>2, <3>1, FreeIs
  <2>2. Dst(N, i, z) \in 1 .. N - 1 /\ slot(Dst(N, i, z)) = z
    <3>1. Dst(N, i, z) \in 0 .. N - 1 /\ SlotAt(N, i, Dst(N, i, z)) = z
      BY <1>1, <1>3, <2>1, StepsAre
    <3>2. Dst(N, i, z) # 0
      BY <1>1, <1>2, <1>3, <2>1 DEF Dst
    <3> QED BY <1>5, <3>1, <3>2
  <2>3. run \in 0 .. N - 2
    <3>1. ~(Dst(N, i, z) \in 1 .. run)
      BY <1>6, <2>1, <2>2
    <3> QED BY <1>1, <1>6, <2>2, <3>1
  <2>4. run + 1 \in 0 .. N - 1
    BY <1>1, <2>3
  <2>5. b[slot(run + 1)] = NoSource
    <3>1. slot(run + 1) \in 0 .. N - 1 /\ Dst(N, i, slot(run + 1)) = run + 1
      BY <1>5, <2>4
    <3>2. slot(run + 1) # i
      BY <1>1, <1>3, <2>3, <3>1 DEF Dst
    <3>3. b[slot(run + 1)] # s
      BY <1>2, <1>3, <3>1, <3>2 DEF Distinct
    <3> QED BY <1>6, <3>3
  <2>6. \A k \in 1 .. run : b[SlotAt(N, i, k)] # NoSource
    <3> SUFFICES ASSUME NEW k \in 1 .. run PROVE b[SlotAt(N, i, k)] # NoSource
      OBVIOUS
    <3>1. k \in 0 .. N - 1
      BY <1>1, <2>3
    <3> QED BY <1>5, <1>6, <3>1
  <2> QED BY <1>5, <2>3, <2>4, <2>5, <2>6
<1>8. Shifts(b, N, i, run, f)
  <2>1. run \in Nat
    BY <1>7
  <2> QED BY <2>1, ShiftsEnd
<1> HIDE DEF f
<1> DEFINE c == f[run].b
<1>9. Probed(c, N) /\ InArray(c) = InArray(b) \ {s}
  <2>1. N \in Nat \ {0} /\ Probed(b, N)
    BY <1>1
  <2>2. s \in Source
    BY <1>2
  <2> HIDE DEF rest
  <2>3. Probed(f[run].b, N) /\ InArray(f[run].b) = InArray(b) \ {s}
    BY <1>3, <1>7, <1>8, <2>1, <2>2, ShiftsKeep
  <2> QED BY <2>3
<1> HIDE DEF c
<1>10. rest.size = N /\ rest.buckets = c /\ rest = [size |-> rest.size, buckets |-> rest.buckets]
  BY <1>1 DEF TableOf, N, c
<1> HIDE DEF rest
<1>11. TableOf(rest)
  BY <1>1, <1>9, <1>10 DEF TableOf, N
<1>12. Held(rest) = Held(T) \ {s} /\ Cardinality(Held(rest)) = Cardinality(Held(T)) - 1
  <2>1. Held(rest) = Held(T) \ {s}
    BY <1>1, <1>9, <1>10, <1>11, HeldIs
  <2> QED BY <1>1, <2>1, FS_RemoveElement
<1>13. Cardinality(Held(rest)) \in Nat
  BY <1>11, HeldIs
<1>14. CASE Cardinality(Held(rest)) <= N \div 8
  <2>1. N \div 2 \in Nat /\ 2 * Cardinality(Held(rest)) <= N \div 2
    BY <1>1, <1>13, <1>14
  <2>2. GoodTable(Rehash(rest, N \div 2)) /\ Held(Rehash(rest, N \div 2)) = Held(rest)
    BY <1>11, <2>1, RehashIs
  <2> QED BY <1>4, <1>12, <1>14, <2>2
<1>15. CASE ~(Cardinality(Held(rest)) <= N \div 8)
  <2>1. 2 * Cardinality(Held(rest)) <= rest.size
    BY <1>1, <1>10, <1>12, <1>13
  <2> QED BY <1>4, <1>11, <1>12, <1>15, <2>1 DEF GoodTable
<1> QED BY <1>14, <1>15

\* The empty table.
LEMMA EmptyTableIs == GoodTable(EmptyTable) /\ Held(EmptyTable) = {}
<1>1. EmptyTable.size = MinSize /\ EmptyTable.buckets = [k \in 0 .. MinSize - 1 |-> NoSource]
  BY DEF EmptyTable
<1>2. Probed(EmptyTable.buckets, MinSize)
  BY <1>1 DEF Probed, ArrayOf, Distinct
<1>3. Held(EmptyTable) = {}
  BY <1>1 DEF Held, Slots
<1>4. Cardinality(Held(EmptyTable)) = 0
  BY <1>3, FS_EmptySet
<1>5. EmptyTable = [size |-> EmptyTable.size, buckets |-> EmptyTable.buckets]
  BY DEF EmptyTable
<1> QED BY <1>1, <1>2, <1>3, <1>4, <1>5, TableAssumption DEF GoodTable, TableOf

\* Such a table is what TableOK says.
LEMMA GoodIsOK == ASSUME NEW T, GoodTable(T) PROVE TableOK(T)
<1> DEFINE N == T.size
           b == T.buckets
<1>1. N \in Nat \ {0} /\ Probed(b, N) /\ 2 * Cardinality(Held(T)) <= N
  BY HeldIs DEF GoodTable, TableOf
<1>2. b \in ArrayOf(N) /\ Distinct(b) /\ Slots(T) = 0 .. N - 1 /\ DOMAIN b = 0 .. N - 1
  BY <1>1 DEF Probed, ArrayOf, Slots
<1>3. ASSUME NEW i \in 0 .. N - 1, b[i] # NoSource,
             NEW k \in 0 .. ((i - Hash[b[i]]) % N) - 1, b[(Hash[b[i]] + k) % N] = NoSource
      PROVE  FALSE
  <2> DEFINE s == b[i]
             h == Home(s, N)
             p == SlotAt(N, h, k)
  <2> HIDE DEF N, b
  <2>1. s \in Source
    BY <1>1, <1>2, <1>3, InArrayIs
  <2>2. h \in 0 .. N - 1 /\ (i - Hash[s]) % N = Dst(N, h, i)
    BY <1>1, <2>1, HomeIs
  <2>3. Dst(N, h, i) \in 0 .. N - 1
    BY <1>1, <2>2, StepsAre
  <2>4. k \in 0 .. N - 1 /\ k < Dst(N, h, i)
    BY <1>1, <2>2, <2>3
  <2>5. (Hash[s] + k) % N = p
    BY <1>1, <2>1, <2>4, HomeIs
  <2> HIDE DEF h
  <2>6. p \in 0 .. N - 1 /\ Dst(N, h, p) = k
    BY <1>1, <2>2, <2>4, StepsAre
  <2>7. Dst(N, h, i) < Dst(N, h, p)
    BY <1>1, <1>3, <2>5, <2>6 DEF Probed, Reached, h
  <2> HIDE DEF p
  <2> QED BY <2>3, <2>4, <2>6, <2>7
<1> QED BY <1>1, <1>2, <1>3 DEF TableOK, Distinct

-----------------------------------------------------------------------------
(* The table and the buckets of ratequeue agree.                           *)

TableInv == GoodTable(table) /\ Held(table) = DOMAIN bk

LEMMA ServeTable == ASSUME BucketInv, TableInv, NEW s \in Source, ServeReq(s) PROVE TableInv'
<1>1. PICK nb : Keep(s, nb)
  BY ServeIs
<1>2. DOMAIN bk' = DOMAIN bk \cup {s}
  BY <1>1 DEF Keep
<1>3. table' = HashGet(table, s)
  BY DEF ServeReq
<1>4. GoodTable(HashGet(table, s)) /\ Held(HashGet(table, s)) = Held(table) \cup {s}
  BY HashGetIs DEF TableInv
<1> QED BY <1>2, <1>3, <1>4 DEF TableInv

LEMMA CheckTable == ASSUME BucketInv, TableInv, Check PROVE TableInv'
<1> DEFINE s == Soonest.el
<1>1. s \in DOMAIN bk
  BY CheckIs
<1>2. \/ table' = HashDel(table, s) /\ bk' = [o \in DOMAIN bk \ {s} |-> bk[o]]
      \/ UNCHANGED table /\ \E b : Keep(s, b)
  BY DEF Check
<1> HIDE DEF s
<1>3. CASE table' = HashDel(table, s) /\ bk' = [o \in DOMAIN bk \ {s} |-> bk[o]]
  <2>1. DOMAIN bk' = DOMAIN bk \ {s}
    BY <1>3
  <2>2. s \in Held(table)
    BY <1>1 DEF TableInv
  <2>3. GoodTable(HashDel(table, s)) /\ Held(HashDel(table, s)) = Held(table) \ {s}
    BY <2>2, HashDelIs DEF TableInv
  <2> QED BY <1>3, <2>1, <2>3 DEF TableInv
<1>4. CASE UNCHANGED table /\ \E b : Keep(s, b)
  <2>1. DOMAIN bk' = DOMAIN bk \cup {s}
    BY <1>4 DEF Keep
  <2> QED BY <1>1, <1>4, <2>1 DEF TableInv
<1> QED BY <1>2, <1>3, <1>4

LEMMA NextTable == BucketInv /\ TableInv /\ [RqNext]_rqvars => TableInv'
<1> SUFFICES ASSUME BucketInv, TableInv, [RqNext]_rqvars PROVE TableInv'
  OBVIOUS
<1>1. CASE Check
  BY <1>1, CheckTable
<1>2. CASE \E s \in Source : ServeReq(s)
  BY <1>2, ServeTable
<1>3. CASE LoopHead \/ TimesOut \/ NoneDue \/ Exit \/ Hup \/ RqTick \/ UNCHANGED rqvars
  <2>1. UNCHANGED <<table, bk>>
    BY <1>3 DEF LoopHead, TimesOut, NoneDue, Exit, Hup, RqTick, rqvars, store
  <2> QED BY <2>1 DEF TableInv
<1> QED BY <1>1, <1>2, <1>3 DEF RqNext, Loop

LEMMA StoreIs == BucketInv /\ TableInv => StoreAgrees
<1> SUFFICES ASSUME BucketInv, TableInv PROVE StoreAgrees
  OBVIOUS
<1>1. RqTypeOK
  <2>1. table.size \in Nat
    BY DEF TableInv, GoodTable, TableOf
  <2>2. ASSUME NEW s \in DOMAIN bk
        PROVE  /\ bk[s].level \in Nat
               /\ {bk[s].last, bk[s].etime, bk[s].wtime} \subseteq 0 .. clock
               /\ bk[s].blocked \in -1 .. MaxReq
               /\ bk[s].brim \in Seq(Request)
    <3>1. bk[s] \in BucketAt(clock, nreq)
      BY DEF BucketInv, Buckets
    <3>2. bk[s].blocked \in -1 .. nreq /\ nreq \in 0 .. MaxReq /\ MaxReq \in Nat
      BY <3>1, RqBounds DEF BucketAt, BucketInv, RqCounts
    <3>3. bk[s].blocked \in -1 .. MaxReq
      BY <3>2
    <3> QED BY <3>1, <3>3 DEF BucketAt
  <2> QED BY <2>1, <2>2 DEF RqTypeOK, BucketInv, RqCounts
<1>2. TableOK(table) /\ Held(table) = DOMAIN bk
  BY GoodIsOK DEF TableInv
<1>3. HeapOrdered(timeheap) /\ {timeheap.b[n].el : n \in DOMAIN timeheap.b} = DOMAIN bk
  BY DEF BucketInv, HeapFor, GoodHeap, Timed
<1> QED BY <1>1, <1>2, <1>3 DEF StoreAgrees

\* In every state of ratequeue the hash table, the heap and the buckets agree:
\* whatever order the buckets come and go in, hashget() and hashdel() find every
\* bucket, no table is more than half full, and every thpos is right.
THEOREM StoreAlwaysAgrees == RqSpec => []StoreAgrees
<1>1. RqInit => TableInv
  BY EmptyTableIs DEF RqInit, TableInv
<1> QED BY <1>1, BucketInvInit, NextBucketInv, NextTable, StoreIs, PTL DEF RqSpec

-----------------------------------------------------------------------------
(* How much passes in how much time.                                       *)

\* The number of requests of s in a sequence of requests.
OfSource(s, f) == {i \in 1 .. Len(f) : f[i][2] = s}
PassedOf(s, f) == Cardinality(OfSource(s, f))

\* All of them are of s.
OnlyOf(s, f) == \A i \in 1 .. Len(f) : f[i][2] = s

\* What waits in a bucket came from its source.
OwnQueue == \A s \in Source : OnlyOf(s, Waiting(s))

\* What passed and what waits in the bucket of s.
Line(s) == fwd \o Waiting(s)

\* A step that lets the requests g of s pass, and none of others.
LetsPass(s, g) ==
  /\ g \in Seq(Request) /\ OnlyOf(s, g)
  /\ fwd' = fwd \o g /\ clock' = clock
  /\ LevelNow(s)' = LevelNow(s) + Len(g) * Unit
  /\ Len(g) > 0 => LevelNow(s)' < cf.size + Unit
  /\ \A o \in Source : o # s => LevelNow(o)' = LevelNow(o) /\ Waiting(o)' = Waiting(o)

LEMMA CountIs ==
  ASSUME NEW f \in Seq(Request), NEW s
  PROVE  IsFiniteSet(OfSource(s, f)) /\ PassedOf(s, f) \in Nat
<1>1. Len(f) \in Nat
  OBVIOUS
<1>2. IsFiniteSet(1 .. Len(f))
  BY <1>1, FS_Interval
<1>3. OfSource(s, f) \in SUBSET (1 .. Len(f))
  BY DEF OfSource
<1>4. IsFiniteSet(OfSource(s, f))
  BY <1>2, <1>3, FS_Subset
<1> QED BY <1>4, FS_CardinalityType DEF PassedOf

LEMMA CountMore ==
  ASSUME NEW f \in Seq(Request), NEW g \in Seq(Request), NEW s, OnlyOf(s, g)
  PROVE  /\ PassedOf(s, f \o g) = PassedOf(s, f) + Len(g)
         /\ \A o : o # s => PassedOf(o, f \o g) = PassedOf(o, f)
<1> DEFINE m == Len(f)
           n == Len(g)
           h == f \o g
<1>1. /\ m \in Nat /\ n \in Nat /\ h \in Seq(Request) /\ Len(h) = m + n
      /\ \A i \in 1 .. m : h[i] = f[i]
      /\ \A i \in m + 1 .. m + n : h[i] = g[i - m] /\ i - m \in 1 .. n
  OBVIOUS
<1> HIDE DEF m, n, h
<1>2. \A i \in m + 1 .. m + n : h[i][2] = s
  <2> SUFFICES ASSUME NEW i \in m + 1 .. m + n PROVE h[i][2] = s
    OBVIOUS
  <2>1. h[i] = g[i - m] /\ i - m \in 1 .. Len(g)
    BY <1>1 DEF n
  <2> QED BY <2>1 DEF OnlyOf
<1>3. OfSource(s, h) = OfSource(s, f) \cup (m + 1 .. m + n)
  <2>1. \A i \in 1 .. m + n : i \in 1 .. m \/ i \in m + 1 .. m + n
    BY <1>1
  <2>2. 1 .. m \subseteq 1 .. m + n /\ m + 1 .. m + n \subseteq 1 .. m + n
    BY <1>1
  <2>3. OfSource(s, h) = {i \in 1 .. m + n : h[i][2] = s} /\ OfSource(s, f) = {i \in 1 .. m : f[i][2] = s}
    BY <1>1 DEF OfSource, m
  <2> QED BY <1>1, <1>2, <2>1, <2>2, <2>3
<1>4. ASSUME NEW o, o # s PROVE OfSource(o, h) = OfSource(o, f)
  <2>1. \A i \in 1 .. m + n : i \in 1 .. m \/ i \in m + 1 .. m + n
    BY <1>1
  <2>2. 1 .. m \subseteq 1 .. m + n
    BY <1>1
  <2>3. OfSource(o, h) = {i \in 1 .. m + n : h[i][2] = o} /\ OfSource(o, f) = {i \in 1 .. m : f[i][2] = o}
    BY <1>1 DEF OfSource, m
  <2> QED BY <1>1, <1>2, <1>4, <2>1, <2>2, <2>3
<1>5. Cardinality(m + 1 .. m + n) = n /\ IsFiniteSet(m + 1 .. m + n)
  <2>1. m + 1 \in Int /\ m + n \in Int
    BY <1>1
  <2>2. IsFiniteSet(m + 1 .. m + n)
        /\ Cardinality(m + 1 .. m + n) = IF m + 1 > m + n THEN 0 ELSE (m + n) - (m + 1) + 1
    BY <2>1, FS_Interval
  <2> QED BY <1>1, <2>2
<1>6. OfSource(s, f) \cap (m + 1 .. m + n) = {}
  BY <1>1 DEF OfSource, m
<1>7. IsFiniteSet(OfSource(s, f)) /\ PassedOf(s, f) \in Nat
  BY CountIs
<1>8. PassedOf(s, h) = PassedOf(s, f) + n - Cardinality({})
  <2> DEFINE A == OfSource(s, f)
             B == m + 1 .. m + n
  <2> HIDE DEF A, B
  <2>1. IsFiniteSet(A) /\ IsFiniteSet(B) /\ A \cap B = {} /\ Cardinality(B) = n
    BY <1>5, <1>6, <1>7 DEF A, B
  <2>2. Cardinality(A \cup B) = Cardinality(A) + Cardinality(B) - Cardinality(A \cap B)
    BY <2>1, FS_Union
  <2> QED BY <1>3, <2>1, <2>2 DEF PassedOf, A, B
<1>9. Cardinality({}) = 0
  BY FS_EmptySet
<1> QED BY <1>1, <1>4, <1>7, <1>8, <1>9 DEF PassedOf, h, n

\* A step of ratequeue that keeps the configuration: nothing shows, a tick, or some
\* requests of one source pass.
Quiet == UNCHANGED <<fwd, clock>> /\ \A o \in Source : LevelNow(o)' = LevelNow(o)

\* What a request that comes does to the line of its source.
Joins(s) == \/ Line(s)' = Append(Line(s), <<nreq + 1, s>>) /\ refused' = refused
            \/ Line(s)' = Line(s) /\ refused' = refused \cup {<<nreq + 1, s>>}
Leaks == /\ fwd' = fwd /\ clock' = clock + 1
         /\ \A o \in Source : LevelNow(o)' = IF LevelNow(o) > cf.rate THEN LevelNow(o) - cf.rate ELSE 0

LEMMA LevelType == ASSUME BucketInv, NEW o \in Source PROVE LevelNow(o) \in Nat
<1>1. Found(o) \in BucketAt(clock, nreq) /\ LevelNow(o) = LevelAt(Found(o), clock)
  BY FoundIs
<1>2. clock \in Nat /\ nreq \in Nat /\ ConfOK(cf)
  BY InvBounds
<1> DEFINE b == Found(o)
           p == (clock - b.last) * cf.rate
<1>3. p \in Nat /\ LevelAt(b, clock) = IF b.level - p >= 0 THEN b.level - p ELSE 0
  BY <1>1, <1>2, LevelIs
<1>4. b.level \in Nat
  BY <1>1 DEF BucketAt
<1> HIDE DEF b, p
<1>5. LevelAt(b, clock) \in Nat
  BY <1>3, <1>4
<1> QED BY <1>1, <1>5 DEF b

LEMMA LinesJoin == \A f, a, b \in Seq(Request) : (f \o a) \o b = f \o (a \o b)
BY ConcatAssociative

\* What passes first and what waits then.
LEMMA Parted ==
  ASSUME NEW f \in Seq(Request), NEW q \in Seq(Request), NEW k \in 0 .. Len(q)
  PROVE  (f \o SubSeq(q, 1, k)) \o SubSeq(q, k + 1, Len(q)) = f \o q
<1>1. SubSeq(q, 1, k) \in Seq(Request) /\ SubSeq(q, k + 1, Len(q)) \in Seq(Request)
  BY PartsAre
<1>2. SubSeq(q, 1, k) \o SubSeq(q, k + 1, Len(q)) = q
  <2>1. Len(q) \in Nat /\ 1 \in 1 .. Len(q) + 1 /\ k \in 1 - 1 .. Len(q) /\ Len(q) \in k .. Len(q)
    OBVIOUS
  <2>2. SubSeq(q, 1, k) \o SubSeq(q, k + 1, Len(q)) = SubSeq(q, 1, Len(q))
    BY <2>1, ConcatAdjacentSubSeq
  <2> QED BY <2>2, SubSeqFull
<1> DEFINE a == SubSeq(q, 1, k)
           b == SubSeq(q, k + 1, Len(q))
<1> HIDE DEF a, b
<1>3. a \in Seq(Request) /\ b \in Seq(Request) /\ a \o b = q
  BY <1>1, <1>2 DEF a, b
<1>4. (f \o a) \o b = f \o (a \o b)
  BY <1>3, LinesJoin, ZenonT(60)
<1> QED BY <1>3, <1>4 DEF a, b

\* The first k of those that wait pass.
LEMMA PassIs ==
  ASSUME BucketInv, OwnQueue, NEW s \in Source, NEW nb, NEW k, Leaves(s, nb, k), Keep(s, nb),
         cf' = cf, clock' = clock, nb.level = LevelThen(s, k), fwd' = Past(s, k)
  PROVE  LetsPass(s, SubSeq(Waiting(s), 1, k))
<1> DEFINE q == Waiting(s)
           g == SubSeq(q, 1, k)
<1>1. q \in Seq(Request) /\ LevelNow(s) \in Nat /\ Unit \in Nat \ {0}
  BY FoundIs, LevelType, RateAssumption DEF BucketAt
<1>2. k \in 0 .. Len(q) /\ (k > 0 => LevelNow(s) + (k - 1) * Unit < cf.size)
  BY DEF Leaves
<1>3. \A i \in 1 .. Len(q) : q[i][2] = s
  BY DEF OwnQueue, OnlyOf
<1> HIDE DEF q
<1>4. g \in Seq(Request) /\ Len(g) = k /\ \A i \in 1 .. k : g[i] = q[i] /\ i \in 1 .. Len(q)
  BY <1>1, <1>2
<1>5. fwd' = fwd \o g
  BY DEF Past, q
<1>6. \A o \in Source : /\ LevelNow(o)' = IF o = s THEN nb.level ELSE LevelNow(o)
                        /\ Waiting(o)' = IF o = s THEN nb.brim ELSE Waiting(o)
  BY KeepMaps
<1>7. LevelNow(s)' = LevelNow(s) + k * Unit
  BY <1>6 DEF LevelThen
<1>8. k > 0 => LevelNow(s)' < cf.size + Unit
  <2>1. k \in Int /\ cf.size \in Nat
    BY <1>1, <1>2, InvBounds DEF ConfOK
  <2>2. (k - 1) * Unit = k * Unit - 1 * Unit /\ k * Unit \in Int /\ 1 * Unit = Unit
    BY <1>1, <2>1, ProductIs
  <2> QED BY <1>1, <1>2, <1>7, <2>1, <2>2
<1> HIDE DEF g
<1>9. OnlyOf(s, g)
  BY <1>3, <1>4 DEF OnlyOf
<1>10. LetsPass(s, g)
  BY <1>4, <1>5, <1>6, <1>7, <1>8, <1>9 DEF LetsPass
<1> QED BY <1>10 DEF g, q

LEMMA ServeLets ==
  ASSUME BucketInv, OwnQueue, NEW s \in Source, ServeReq(s)
  PROVE  /\ \E g : LetsPass(s, g)
         /\ Joins(s)
         /\ OwnQueue'
<1> DEFINE q == Waiting(s)
           req == <<nreq + 1, s>>
<1>1. PICK nb, k : /\ Leaves(s, nb, k) /\ Keep(s, nb)
                   /\ LetThrough(s, nb, k) \/ MadeWait(s, nb, k) \/ TurnedAway(s, nb, k)
  BY ServeIs
<1>2. cf' = cf /\ clock' = clock /\ nreq < MaxReq
  BY DEF ServeReq
<1>3. k \in 0 .. Len(q) /\ q \in Seq(Request) /\ LevelNow(s) \in Nat /\ Unit \in Nat \ {0} /\ cf.size \in Nat
      /\ fwd \in Seq(Request)
  <2>1. k \in 0 .. Len(q) /\ fwd \in Seq(Request) /\ cf.size \in Nat
    BY <1>1, InvBounds DEF Leaves, ConfOK
  <2> QED BY <2>1, FoundIs, LevelType, RateAssumption DEF BucketAt
<1>4. req \in Request
  BY <1>2, <1>3, HistIs
<1>5. \A i \in 1 .. Len(q) : q[i][2] = s
  BY DEF OwnQueue, OnlyOf
<1>6. \A o \in Source : /\ LevelNow(o)' = IF o = s THEN nb.level ELSE LevelNow(o)
                        /\ Waiting(o)' = IF o = s THEN nb.brim ELSE Waiting(o)
  BY <1>1, <1>2, KeepMaps
<1> DEFINE rest == Rest(s, k)
<1>7. rest \in Seq(Request) /\ \A i \in 1 .. Len(rest) : rest[i][2] = s
  <2>1. rest = SubSeq(q, k + 1, Len(q))
    BY DEF Rest
  <2> HIDE DEF rest, q
  <2>2. rest \in Seq(Request) /\ \A i \in 1 .. Len(rest) : rest[i] = q[k + i] /\ k + i \in 1 .. Len(q)
    BY <1>3, <2>1
  <2> QED BY <1>5, <2>2
<1>8. \A i \in 1 .. Len(nb.brim) : nb.brim[i][2] = s
  <2> HIDE DEF rest
  <2>1. \A i \in 1 .. Len(Append(rest, req)) : Append(rest, req)[i][2] = s
    <3> SUFFICES ASSUME NEW i \in 1 .. Len(Append(rest, req)) PROVE Append(rest, req)[i][2] = s
      OBVIOUS
    <3>1. Append(rest, req)[i] = IF i \in 1 .. Len(rest) THEN rest[i] ELSE req
      BY <1>4, <1>7
    <3> QED BY <1>7, <3>1
  <2>2. \A i \in 1 .. Len(<<>>) : <<>>[i][2] = s
    OBVIOUS
  <2>3. nb.brim = <<>> \/ nb.brim = Append(rest, req) \/ nb.brim = rest
    BY <1>1 DEF LetThrough, MadeWait, TurnedAway, rest
  <2> QED BY <1>7, <2>1, <2>2, <2>3
<1>9. OwnQueue'
  BY <1>6, <1>8 DEF OwnQueue, OnlyOf
<1>12. Past(s, k) \o rest = Line(s)
  BY <1>3, Parted DEF Past, Rest, Line
<1>10. CASE MadeWait(s, nb, k) \/ TurnedAway(s, nb, k)
  <2>1. nb.level = LevelThen(s, k) /\ fwd' = Past(s, k)
    BY <1>10 DEF MadeWait, TurnedAway
  <2>2. \E g : LetsPass(s, g)
    BY <1>1, <1>2, <2>1, PassIs
  <2>3. Waiting(s)' = nb.brim
    BY <1>6
  <2> HIDE DEF rest, q, req
  <2>4. CASE MadeWait(s, nb, k)
    <3>1. nb.brim = Append(rest, req) /\ refused' = refused
      BY <2>4 DEF MadeWait, rest, req
    <3>2. Line(s)' = Past(s, k) \o Append(rest, req)
      BY <2>1, <2>3, <3>1 DEF Line
    <3>3. Past(s, k) \o Append(rest, req) = Append(Past(s, k) \o rest, req)
      BY <1>2, <1>3, <1>4, <1>7, HistIs, AppendAfter DEF q
    <3>4. Joins(s)
      BY <1>12, <3>1, <3>2, <3>3 DEF Joins, req
    <3> QED BY <1>9, <2>2, <3>4
  <2>5. CASE TurnedAway(s, nb, k)
    <3>1. nb.brim = rest /\ refused' = refused \cup {req}
      BY <2>5 DEF TurnedAway, rest, req
    <3>2. Line(s)' = Line(s)
      BY <1>12, <2>1, <2>3, <3>1 DEF Line
    <3>3. Joins(s)
      BY <3>1, <3>2 DEF Joins, req
    <3> QED BY <1>9, <2>2, <3>3
  <2> QED BY <1>10, <2>4, <2>5
<1>11. CASE LetThrough(s, nb, k)
  <2> DEFINE p == SubSeq(q, 1, k)
             g == Append(p, req)
  <2> HIDE DEF q, req
  <2>1. p \in Seq(Request) /\ Len(p) = k /\ \A i \in 1 .. k : p[i] = q[i] /\ i \in 1 .. Len(q)
    BY <1>3
  <2> HIDE DEF p
  <2>2. g \in Seq(Request) /\ Len(g) = k + 1 /\ \A i \in 1 .. k + 1 : g[i] = IF i \in 1 .. k THEN p[i] ELSE req
    BY <1>3, <1>4, <2>1
  <2>3. \A i \in 1 .. k + 1 : g[i][2] = s
    <3>1. req[2] = s /\ \A i \in 1 .. k : p[i][2] = s
      BY <1>5, <2>1 DEF req
    <3> QED BY <2>2, <3>1
  <2>4. fwd' = fwd \o g
    <3>1. fwd' = Append(fwd \o p, req)
      BY <1>11 DEF LetThrough, Past, p, q, req
    <3> QED BY <1>3, <1>4, <2>1, <3>1, AppendAfter
  <2>5. LevelNow(s)' = LevelNow(s) + k * Unit + Unit /\ LevelNow(s) + k * Unit < cf.size
    BY <1>6, <1>11 DEF LetThrough, LevelThen
  <2>6. (k + 1) * Unit = k * Unit + Unit /\ k * Unit \in Int
    <3>1. k \in Int /\ 1 \in Int /\ Unit \in Int /\ 1 * Unit = Unit
      BY <1>3
    <3> QED BY <3>1, ProductIs
  <2> HIDE DEF g
  <2>7. LevelNow(s)' = LevelNow(s) + Len(g) * Unit /\ LevelNow(s)' < cf.size + Unit
    <3>1. Len(g) = k + 1 /\ k * Unit \in Int /\ LevelNow(s) \in Int /\ Unit \in Int /\ cf.size \in Int
      BY <1>3, <2>2, <2>6
    <3>2. Len(g) * Unit = k * Unit + Unit
      BY <2>6, <3>1
    <3> DEFINE was == LevelNow(s)
               then == LevelNow(s)'
               x == k * Unit
               y == Len(g) * Unit
    <3>3. then = was + x + Unit /\ was + x < cf.size /\ y = x + Unit /\ {x, was, Unit, cf.size} \subseteq Int
      BY <2>5, <3>1, <3>2
    <3> HIDE DEF was, then, x, y
    <3>4. then = was + y /\ then < cf.size + Unit
      BY <3>3
    <3> QED BY <3>4 DEF was, then, y
  <2>8. LetsPass(s, g)
    <3>1. OnlyOf(s, g)
      BY <2>2, <2>3 DEF OnlyOf
    <3>2. \A o \in Source : o # s => LevelNow(o)' = LevelNow(o) /\ Waiting(o)' = Waiting(o)
      BY <1>6
    <3>3. g \in Seq(Request) /\ clock' = clock
      BY <1>2, <2>2
    <3> QED BY <2>4, <2>7, <3>1, <3>2, <3>3, Zenon DEF LetsPass
  <2>9. Joins(s)
    <3>1. rest = <<>> /\ nb.brim = <<>> /\ refused' = refused /\ fwd' = Append(Past(s, k), req)
      BY <1>11 DEF LetThrough, rest, req
    <3>2. Line(s) = Past(s, k)
      <4>1. Past(s, k) \in Seq(Request)
        BY <1>2, <1>3, HistIs DEF q
      <4>2. Past(s, k) \o <<>> = Past(s, k)
        BY <4>1
      <4> HIDE DEF rest
      <4> QED BY <1>12, <3>1, <4>2
    <3>3. Line(s)' = Append(Past(s, k), req)
      <4>1. Append(Past(s, k), req) \in Seq(Request)
        BY <1>2, <1>3, HistIs DEF q, req
      <4>2. Append(Past(s, k), req) \o <<>> = Append(Past(s, k), req)
        BY <4>1, ConcatEmptySeq
      <4>3. Waiting(s)' = <<>>
        BY <1>6, <3>1
      <4> QED BY <3>1, <4>2, <4>3 DEF Line
    <3> QED BY <3>1, <3>2, <3>3 DEF Joins, req
  <2> QED BY <1>9, <2>8, <2>9
<1> QED BY <1>1, <1>10, <1>11

LEMMA CheckLets ==
  ASSUME BucketInv, OwnQueue, Check
  PROVE  /\ \/ Quiet /\ \A o \in Source : Waiting(o)' = Waiting(o)
            \/ \E s \in Source : \E g : LetsPass(s, g) /\ Line(s)' = Line(s)
         /\ OwnQueue'
<1>1. PICK s \in Source : s = Soonest.el
  BY CheckIs
<1>2. PICK k : /\ k \in 0 .. Len(Waiting(s)) /\ fwd' = Past(s, k)
               /\ \/ k = 0 /\ Dropped(s)
                  \/ \E nb : /\ Leaves(s, nb, k) /\ Keep(s, nb)
                             /\ nb.level = LevelThen(s, k) /\ nb.brim = Rest(s, k)
  BY <1>1, CheckIs
<1>3. cf' = cf /\ clock' = clock
  BY DEF Check
<1>4. Waiting(s) \in Seq(Request) /\ fwd \in Seq(Request)
  BY FoundIs, InvBounds DEF BucketAt
<1>5. CASE Dropped(s)
  <2>1. /\ bk' = [o \in DOMAIN bk \ {s} |-> bk[o]] /\ Waiting(s) = <<>> /\ LevelNow(s) = 0
    BY <1>5 DEF Dropped
  <2>2. LevelNow(s)' = 0 /\ Waiting(s)' = <<>>
    <3>1. s \notin DOMAIN bk'
      BY <2>1
    <3> QED BY <3>1 DEF LevelNow, Waiting
  <2>3. ASSUME NEW o \in Source, o # s PROVE LevelNow(o)' = LevelNow(o) /\ Waiting(o)' = Waiting(o)
    <3>1. (o \in DOMAIN bk' <=> o \in DOMAIN bk) /\ (o \in DOMAIN bk => bk'[o] = bk[o])
      BY <2>1, <2>3
    <3> QED BY <1>3, <3>1 DEF LevelNow, Waiting
  <2>4. \A o \in Source : LevelNow(o)' = LevelNow(o) /\ Waiting(o)' = Waiting(o)
    BY <2>1, <2>2, <2>3
  <2>5. fwd' = fwd
    <3>1. SubSeq(Waiting(s), 1, k) = <<>> /\ fwd \o <<>> = fwd
      BY <1>2, <1>4, <2>1
    <3> QED BY <1>2, <3>1 DEF Past
  <2> QED BY <1>3, <2>4, <2>5 DEF Quiet, OwnQueue
<1>6. ASSUME NEW nb, Leaves(s, nb, k), Keep(s, nb), nb.level = LevelThen(s, k), nb.brim = Rest(s, k)
      PROVE  (\E g : LetsPass(s, g) /\ Line(s)' = Line(s)) /\ OwnQueue'
  <2>1. LetsPass(s, SubSeq(Waiting(s), 1, k))
    BY <1>2, <1>3, <1>6, PassIs
  <2>2. \A o \in Source : Waiting(o)' = IF o = s THEN nb.brim ELSE Waiting(o)
    BY <1>3, <1>6, KeepMaps
  <2> DEFINE q == Waiting(s)
             rest == SubSeq(q, k + 1, Len(q))
  <2>3. \A i \in 1 .. Len(rest) : rest[i][2] = s
    <3>1. \A i \in 1 .. Len(q) : q[i][2] = s
      BY DEF OwnQueue, OnlyOf
    <3>2. q \in Seq(Request) /\ k \in 0 .. Len(q)
      BY <1>2, <1>4
    <3> HIDE DEF q
    <3>3. \A i \in 1 .. Len(rest) : rest[i] = q[k + i] /\ k + i \in 1 .. Len(q)
      BY <3>2
    <3> QED BY <3>1, <3>3
  <2>4. nb.brim = rest
    BY <1>6 DEF Rest
  <2>5. Line(s)' = Line(s)
    <3>1. Waiting(s)' = rest
      BY <2>2, <2>4
    <3>2. (fwd \o SubSeq(q, 1, k)) \o rest = fwd \o q
      BY <1>2, <1>4, Parted
    <3> HIDE DEF rest
    <3> QED BY <1>2, <3>1, <3>2 DEF Line, Past
  <2> HIDE DEF rest, q
  <2>6. OwnQueue'
    BY <2>2, <2>3, <2>4 DEF OwnQueue, OnlyOf
  <2> QED BY <2>1, <2>5, <2>6
<1> QED BY <1>1, <1>2, <1>5, <1>6


\* What a step does to the levels.
LEMMA StepLets ==
  ASSUME BucketInv, OwnQueue, [RqNext]_rqvars
  PROVE  /\ OwnQueue'
         /\ cf' = cf => Quiet \/ Leaks \/ \E s \in Source : \E g : LetsPass(s, g)
<1>1. CASE UNCHANGED <<bk, fwd, clock>>
  <2>1. \A o \in Source : Waiting(o)' = Waiting(o) /\ (cf' = cf => LevelNow(o)' = LevelNow(o))
    BY <1>1 DEF Waiting, LevelNow
  <2> QED BY <1>1, <2>1 DEF OwnQueue, Quiet
<1>2. CASE RqTick
  <2>1. UNCHANGED <<cf, bk, fwd>>
    BY <1>2 DEF RqTick, store, hist
  <2>2. OwnQueue'
    <3>1. \A o \in Source : Waiting(o)' = Waiting(o)
      BY <2>1 DEF Waiting
    <3> QED BY <3>1 DEF OwnQueue
  <2>3. Leaks
    BY <1>2, <2>1, LeakIs DEF Leaks, RqTick
  <2> QED BY <2>2, <2>3
<1>3. CASE Check
  BY <1>3, CheckLets
<1>4. CASE \E s \in Source : ServeReq(s)
  BY <1>4, ServeLets
<1>5. CASE LoopHead \/ TimesOut \/ NoneDue \/ Exit \/ Hup \/ UNCHANGED rqvars
  <2>1. UNCHANGED <<bk, fwd, clock>>
    BY <1>5 DEF LoopHead, TimesOut, NoneDue, Exit, Hup, rqvars, store, hist
  <2> QED BY <1>1, <2>1
<1> QED BY <1>2, <1>3, <1>4, <1>5 DEF RqNext, Loop

\* Since the time t, when the requests f had passed, the configuration being c.
Within(s, f, t, c) ==
  /\ cf = c /\ t <= clock
  /\ PassedOf(s, f) <= PassedOf(s, fwd)
  /\ Unit * (PassedOf(s, fwd) - PassedOf(s, f)) <= c.rate * (clock - t) + LevelNow(s)
  /\ PassedOf(s, fwd) = PassedOf(s, f) \/ LevelNow(s) < c.size + Unit

LEMMA WithinFirst ==
  ASSUME BucketInv, NEW s \in Source, NEW f, NEW t, NEW c, fwd = f /\ clock = t /\ cf = c
  PROVE  Within(s, f, t, c)
<1>1. PassedOf(s, fwd) \in Nat /\ LevelNow(s) \in Nat /\ clock \in Nat /\ cf.rate \in Nat /\ Unit \in Nat
  BY InvBounds, LevelType, CountIs, RateAssumption DEF ConfOK
<1>2. Unit * 0 = 0 /\ cf.rate * 0 = 0 /\ PassedOf(s, fwd) - PassedOf(s, fwd) = 0 /\ clock - clock = 0
  BY <1>1
<1> QED BY <1>1, <1>2 DEF Within

LEMMA WithinNext ==
  ASSUME BucketInv, BucketInv', OwnQueue, NEW s \in Source, NEW f \in Seq(Request), NEW t \in Nat, NEW c,
         Within(s, f, t, c), [RqNext]_rqvars, cf' = cf
  PROVE  Within(s, f, t, c)'
<1> DEFINE n == PassedOf(s, fwd) - PassedOf(s, f)
           v == clock - t
           old == LevelNow(s)
           new == LevelNow(s)'
<1>1. /\ PassedOf(s, f) \in Nat /\ PassedOf(s, fwd) \in Nat /\ n \in Nat /\ v \in Nat /\ clock \in Nat
      /\ old \in Nat /\ c.rate \in Nat /\ c.size \in Nat /\ Unit \in Nat
  <2>1. PassedOf(s, f) \in Nat /\ PassedOf(s, fwd) \in Nat /\ clock \in Nat /\ LevelNow(s) \in Nat
    BY CountIs, InvBounds, LevelType
  <2>2. cf.rate \in Nat /\ cf.size \in Nat /\ Unit \in Nat
    BY InvBounds, RateAssumption DEF ConfOK
  <2>3. cf = c /\ t <= clock /\ PassedOf(s, f) <= PassedOf(s, fwd)
    BY DEF Within
  <2>4. n \in Nat /\ v \in Nat
    BY <2>1, <2>3
  <2> QED BY <2>1, <2>2, <2>3, <2>4
<1>2. /\ cf = c /\ t <= clock /\ PassedOf(s, f) <= PassedOf(s, fwd)
      /\ Unit * n <= c.rate * v + old
      /\ n = 0 \/ old < c.size + Unit
  BY <1>1 DEF Within
<1>3. ASSUME NEW k \in Nat, clock' = clock, PassedOf(s, fwd') = PassedOf(s, fwd) + k, new = old + k * Unit,
             k > 0 => new < c.size + Unit
      PROVE  Within(s, f, t, c)'
  <2>1. Unit * (n + k) = Unit * n + k * Unit /\ k * Unit \in Nat /\ Unit * n \in Int
    <3>1. n \in Int /\ k \in Int /\ Unit \in Int
      BY <1>1
    <3>2. (n + k) * Unit = n * Unit + k * Unit /\ n * Unit = Unit * n /\ (n + k) * Unit = Unit * (n + k)
          /\ n * Unit \in Int /\ k * Unit \in Int
      <4>1. n + k \in Int
        BY <3>1
      <4> QED BY <3>1, <4>1, ProductIs, TimesIs
    <3>3. k * Unit >= 0
      BY <1>1, RateAssumption, ProductGrows
    <3> HIDE DEF n
    <3>4. k * Unit \in Nat
      BY <3>2, <3>3
    <3> QED BY <3>2, <3>4
  <2>2. PassedOf(s, fwd') - PassedOf(s, f) = n + k /\ clock' - t = v /\ PassedOf(s, f) <= PassedOf(s, fwd')
    BY <1>1, <1>2, <1>3
  <2>3. c.rate * v \in Int
    BY <1>1, TimesIs
  <2> DEFINE x == PassedOf(s, fwd')
             y == PassedOf(s, f)
             z == c.rate * v
  <2>4. Unit * (x - y) <= z + new
    <3>1. Unit * (x - y) = Unit * n + k * Unit
      BY <2>1, <2>2
    <3> HIDE DEF x, y, z, n, old, new, v
    <3>2. z \in Int
      BY <2>3 DEF z
    <3>3. Unit * n <= z + old
      BY <1>2 DEF z
    <3> QED BY <1>1, <1>3, <2>1, <3>1, <3>2, <3>3
  <2>5. x = y \/ new < c.size + Unit
    <3>1. CASE k > 0
      BY <1>3, <3>1
    <3>2. CASE k = 0
      <4>1. k * Unit = 0
        BY <1>1, <3>2
      <4>2. new = old /\ x = PassedOf(s, fwd)
        BY <1>1, <1>3, <3>2, <4>1
      <4> QED BY <1>1, <1>2, <4>2
    <3> QED BY <3>1, <3>2
  <2> QED BY <1>2, <1>3, <2>2, <2>4, <2>5 DEF Within
<1>4. CASE Quiet
  <2>1. fwd' = fwd /\ clock' = clock /\ new = old
    BY <1>4 DEF Quiet
  <2>2. 0 * Unit = 0 /\ PassedOf(s, fwd') = PassedOf(s, fwd) + 0 /\ new = old + 0 /\ 0 \in Nat
    BY <1>1, <2>1
  <2> QED BY <1>3, <2>1, <2>2
<1>5. CASE Leaks
  <2>1. fwd' = fwd /\ clock' = clock + 1 /\ new = IF old > c.rate THEN old - c.rate ELSE 0
    BY <1>2, <1>5 DEF Leaks
  <2>2. c.rate * (v + 1) = c.rate * v + c.rate /\ c.rate * v \in Int
    <3>1. v \in Int /\ 1 \in Int /\ c.rate \in Int /\ v + 1 \in Int
      BY <1>1
    <3> DEFINE q == c.rate
    <3>2. q \in Int /\ 1 * q = q
      BY <3>1
    <3> HIDE DEF v, q
    <3>3. (v + 1) * q = v * q + 1 * q /\ v * q = q * v /\ v * q \in Int
      BY <3>1, <3>2, ProductIs
    <3>4. (v + 1) * q = q * (v + 1)
      BY <3>1, <3>2, TimesIs
    <3>5. q * (v + 1) = q * v + q /\ q * v \in Int
      BY <3>2, <3>3, <3>4
    <3> QED BY <3>5 DEF q
  <2>3. clock' - t = v + 1 /\ t <= clock'
    BY <1>1, <1>2, <2>1
  <2> DEFINE p == Unit * n
             z == c.rate * v
  <2>4. p <= (z + c.rate) + new
    <3>1. p \in Int /\ z \in Int /\ p <= z + old
      BY <1>1, <1>2, <2>2, TimesIs
    <3> HIDE DEF p, z, old, new, v, n
    <3> QED BY <1>1, <2>1, <3>1
  <2>5. Unit * (PassedOf(s, fwd') - PassedOf(s, f)) <= c.rate * (clock' - t) + new
    BY <2>1, <2>2, <2>3, <2>4
  <2>6. new <= old
    BY <1>1, <2>1
  <2>7. PassedOf(s, fwd') = PassedOf(s, f) \/ new < c.size + Unit
    <3> DEFINE a == PassedOf(s, fwd)
               b == PassedOf(s, f)
    <3>1. a = b \/ old < c.size + Unit
      BY <1>1, <1>2
    <3> HIDE DEF a, b, old, new
    <3>2. a = b \/ new < c.size + Unit
      BY <1>1, <2>1, <2>6, <3>1
    <3> QED BY <2>1, <3>2 DEF a, b
  <2> QED BY <1>2, <2>1, <2>3, <2>5, <2>7 DEF Within
<1>6. CASE \E o \in Source : \E g : LetsPass(o, g)
  <2>0. PICK o \in Source : \E g : LetsPass(o, g)
    BY <1>6
  <2>1. PICK g : LetsPass(o, g)
    BY <2>0
  <2>2. /\ g \in Seq(Request) /\ OnlyOf(o, g) /\ fwd' = fwd \o g /\ clock' = clock
        /\ LevelNow(o)' = LevelNow(o) + Len(g) * Unit
        /\ (Len(g) > 0 => LevelNow(o)' < c.size + Unit)
        /\ \A x \in Source : x # o => LevelNow(x)' = LevelNow(x)
    BY <1>2, <2>1 DEF LetsPass
  <2>3. /\ PassedOf(o, fwd \o g) = PassedOf(o, fwd) + Len(g)
        /\ \A x : x # o => PassedOf(x, fwd \o g) = PassedOf(x, fwd)
    <3>1. fwd \in Seq(Request)
      BY InvBounds
    <3> QED BY <2>2, <3>1, CountMore
  <2>4. CASE s = o
    <3>1. Len(g) \in Nat
      BY <2>2
    <3> QED BY <1>3, <2>2, <2>3, <2>4, <3>1
  <2>5. CASE s # o
    <3>1. PassedOf(s, fwd') = PassedOf(s, fwd) + 0 /\ new = old + 0 * Unit /\ 0 \in Nat
      BY <1>1, <2>2, <2>3, <2>5
    <3> QED BY <1>3, <2>2, <3>1
  <2> QED BY <2>4, <2>5
<1> QED BY <1>4, <1>5, <1>6, StepLets

\* More than that never passes.
LEMMA WithinIs ==
  ASSUME BucketInv, NEW s \in Source, NEW f \in Seq(Request), NEW t \in Nat, NEW c, Within(s, f, t, c)
  PROVE  Unit * (PassedOf(s, fwd) - PassedOf(s, f)) < c.rate * (clock - t) + c.size + Unit
<1> DEFINE n == PassedOf(s, fwd) - PassedOf(s, f)
           z == c.rate * (clock - t)
<1>1. /\ PassedOf(s, f) \in Nat /\ PassedOf(s, fwd) \in Nat /\ clock \in Nat
      /\ LevelNow(s) \in Nat /\ c.rate \in Nat /\ c.size \in Nat \ {0} /\ Unit \in Nat
  <2>1. PassedOf(s, f) \in Nat /\ PassedOf(s, fwd) \in Nat /\ clock \in Nat /\ LevelNow(s) \in Nat
    BY CountIs, InvBounds, LevelType
  <2>2. c.rate \in Nat /\ c.size \in Nat \ {0} /\ Unit \in Nat
    BY InvBounds, RateAssumption DEF ConfOK, Within
  <2> QED BY <2>1, <2>2
<1>2. t <= clock /\ Unit * n <= z + LevelNow(s) /\ (n = 0 \/ LevelNow(s) < c.size + Unit)
  BY <1>1 DEF Within
<1>3. n \in Int /\ clock - t \in Nat
  BY <1>1, <1>2
<1>4. Unit * n \in Int /\ z \in Nat
  <2> DEFINE v == clock - t
             q == c.rate
  <2>1. v \in Nat /\ q \in Nat /\ n \in Int /\ Unit \in Int
    BY <1>1, <1>3
  <2> HIDE DEF v, q, n
  <2>2. q * v \in Int /\ q * v >= 0
    BY <2>1
  <2>3. Unit * n \in Int
    BY <2>1, TimesIs
  <2> QED BY <2>2, <2>3 DEF v, q
<1>5. n = 0 => Unit * n = 0
  BY <1>1
<1> DEFINE u == Unit * n
<1>6. u <= z + LevelNow(s) /\ (u = 0 \/ LevelNow(s) < c.size + Unit) /\ u \in Int /\ z \in Nat
  BY <1>2, <1>4, <1>5
<1> HIDE DEF n, z, u
<1>7. u < z + c.size + Unit
  <2> DEFINE a == LevelNow(s)
             b == c.size
  <2>1. a \in Nat /\ b \in Nat \ {0} /\ Unit \in Nat /\ u <= z + a /\ (u = 0 \/ a < b + Unit)
    BY <1>1, <1>6
  <2> HIDE DEF a, b
  <2>2. u < z + b + Unit
    BY <1>6, <2>1
  <2> QED BY <2>2 DEF b
<1> QED BY <1>7 DEF n, z, u

\* From any moment on, as long as another configuration is not read: what passes of the
\* requests of a source, however the program wakes up, drops its buckets and makes them
\* anew, is less than what the rate allows in the time since then, and a bucket full, and
\* one request.
THEOREM RateAlwaysKept ==
  ASSUME NEW s \in Source, NEW f, NEW t, NEW c
  PROVE  RqSpec =>
           [](fwd = f /\ clock = t /\ cf = c =>
                ([][FALSE]_cf =>
                   [](Unit * (PassedOf(s, fwd) - PassedOf(s, f)) < c.rate * (clock - t) + c.size + Unit)))
<1> DEFINE Now == fwd = f /\ clock = t /\ cf = c
           Bounded == Unit * (PassedOf(s, fwd) - PassedOf(s, f)) < c.rate * (clock - t) + c.size + Unit
           Inv == BucketInv /\ OwnQueue
           Typed == f \in Seq(Request) /\ t \in Nat
           Since == Typed /\ Within(s, f, t, c)
<1>1. RqInit => OwnQueue
  BY DEF RqInit, OwnQueue, OnlyOf, Waiting
<1>2. Inv /\ BucketInv' /\ [RqNext]_rqvars => OwnQueue'
  BY StepLets
<1>3. RqSpec => []Inv
  BY <1>1, <1>2, BucketsAlwaysTimed, PTL DEF RqSpec
<1>4. Inv /\ Now => Since
  BY WithinFirst, InvBounds
<1>5. Inv /\ Inv' /\ Since /\ [RqNext]_rqvars /\ [FALSE]_cf => Since'
  BY WithinNext
<1>6. Inv /\ Since => Bounded
  BY WithinIs
<1> HIDE DEF Now, Bounded, Inv, Since
<1>7. RqSpec => [](Now => ([][FALSE]_cf => []Bounded))
  BY <1>3, <1>4, <1>5, <1>6, PTL DEF RqSpec
<1> QED BY <1>7 DEF Now, Bounded

-----------------------------------------------------------------------------
(* Each request is in one place, and those of a source pass in order.      *)

Rising(s, l) == \A i, j \in OfSource(s, l) : i < j => l[i][1] < l[j][1]
Those(s, l) == {l[i] : i \in OfSource(s, l)}

\* Others that pass change nothing of the line of o.
LEMMA OthersPass ==
  ASSUME NEW f \in Seq(Request), NEW g \in Seq(Request), NEW rest \in Seq(Request), NEW s, NEW o,
         OnlyOf(s, g), o # s
  PROVE  /\ Rising(o, f \o rest) => Rising(o, (f \o g) \o rest)
         /\ Those(o, (f \o g) \o rest) = Those(o, f \o rest)
<1> DEFINE m == Len(f)
           n == Len(g)
           p == Len(rest)
           l == f \o rest
           h == (f \o g) \o rest
<1>1. /\ m \in Nat /\ n \in Nat /\ p \in Nat /\ Len(l) = m + p /\ Len(h) = m + n + p
      /\ \A i \in 1 .. m + p : l[i] = IF i <= m THEN f[i] ELSE rest[i - m]
      /\ \A i \in 1 .. m + n + p : h[i] = IF i <= m THEN f[i] ELSE IF i <= m + n THEN g[i - m] ELSE rest[i - (m + n)]
  <2>1. m \in Nat /\ n \in Nat /\ p \in Nat
    OBVIOUS
  <2>2. Len(l) = m + p /\ \A i \in 1 .. m + p : l[i] = IF i <= m THEN f[i] ELSE rest[i - m]
    BY ConcatProperties
  <2>3. /\ f \o g \in Seq(Request) /\ Len(f \o g) = m + n
        /\ \A i \in 1 .. m + n : (f \o g)[i] = IF i <= m THEN f[i] ELSE g[i - m]
    BY ConcatProperties
  <2> DEFINE e == f \o g
  <2> HIDE DEF e
  <2>4. Len(e \o rest) = m + n + p /\ \A i \in 1 .. m + n + p : (e \o rest)[i] = IF i <= m + n THEN e[i] ELSE rest[i - (m + n)]
    BY <2>3, ConcatProperties DEF e
  <2>5. ASSUME NEW i \in 1 .. m + n + p
        PROVE  h[i] = IF i <= m THEN f[i] ELSE IF i <= m + n THEN g[i - m] ELSE rest[i - (m + n)]
    <3>1. h[i] = IF i <= m + n THEN e[i] ELSE rest[i - (m + n)]
      BY <2>4 DEF e
    <3> HIDE DEF h, m, n, p
    <3>2. i <= m + n => i \in 1 .. m + n
      BY <2>1, <2>5
    <3>3. i <= m + n => e[i] = IF i <= m THEN f[i] ELSE g[i - m]
      BY <2>3, <3>2 DEF e, m, n
    <3>4. i <= m => i <= m + n
      BY <2>1, <2>5
    <3> QED BY <3>1, <3>3, <3>4
  <2> HIDE DEF h, l, m, n, p
  <2>6. Len(h) = m + n + p
    BY <2>4 DEF h, e
  <2> QED BY <2>1, <2>2, <2>5, <2>6
<1>2. \A i \in 1 .. n : g[i][2] # o
  BY DEF OnlyOf
<1> HIDE DEF m, n, p, l, h
<1> DEFINE Old(i) == IF i <= m THEN i ELSE i - n
           Moved(i) == IF i <= m THEN i ELSE i + n
<1>3. ASSUME NEW i \in OfSource(o, h)
      PROVE  Old(i) \in OfSource(o, l) /\ l[Old(i)] = h[i] /\ i \in 1 .. m + n + p /\ (i <= m \/ i > m + n)
  <2>1. i \in 1 .. m + n + p /\ h[i][2] = o
    BY <1>1 DEF OfSource
  <2>2. i <= m \/ i > m + n
    <3> SUFFICES ASSUME ~(i <= m), i <= m + n PROVE FALSE
      BY <1>1, <2>1
    <3>1. h[i] = g[i - m] /\ i - m \in 1 .. n
      BY <1>1, <2>1
    <3> QED BY <1>2, <2>1, <3>1
  <2>3. Old(i) \in 1 .. m + p /\ l[Old(i)] = h[i]
    <3>1. CASE i <= m
      BY <1>1, <2>1, <3>1
    <3>2. CASE i > m + n
      <4>1. ~(i <= m) /\ i - n \in 1 .. m + p /\ ~(i - n <= m) /\ ~(i <= m + n)
        BY <1>1, <2>1, <3>2
      <4>2. l[i - n] = rest[(i - n) - m] /\ h[i] = rest[i - (m + n)] /\ (i - n) - m = i - (m + n)
        BY <1>1, <2>1, <4>1
      <4> QED BY <4>1, <4>2
    <3> QED BY <2>2, <3>1, <3>2
  <2> HIDE DEF Old
  <2> QED BY <1>1, <2>1, <2>2, <2>3 DEF OfSource
<1>4. ASSUME NEW j \in OfSource(o, l) PROVE Moved(j) \in OfSource(o, h) /\ h[Moved(j)] = l[j]
  <2>1. j \in 1 .. m + p /\ l[j][2] = o
    BY <1>1 DEF OfSource
  <2>2. Moved(j) \in 1 .. m + n + p /\ h[Moved(j)] = l[j]
    <3>1. CASE j <= m
      BY <1>1, <2>1, <3>1
    <3>2. CASE ~(j <= m)
      <4>1. j + n \in 1 .. m + n + p /\ ~(j + n <= m) /\ ~(j + n <= m + n)
        BY <1>1, <2>1, <3>2
      <4>2. h[j + n] = rest[(j + n) - (m + n)] /\ l[j] = rest[j - m] /\ (j + n) - (m + n) = j - m
        BY <1>1, <2>1, <3>2, <4>1
      <4> QED BY <3>2, <4>1, <4>2
    <3> QED BY <3>1, <3>2
  <2> HIDE DEF Moved
  <2> QED BY <1>1, <2>1, <2>2 DEF OfSource
<1>5. Rising(o, l) => Rising(o, h)
  <2> SUFFICES ASSUME Rising(o, l), NEW i \in OfSource(o, h), NEW j \in OfSource(o, h), i < j
               PROVE  h[i][1] < h[j][1]
    BY DEF Rising
  <2>1. Old(i) \in OfSource(o, l) /\ Old(j) \in OfSource(o, l) /\ l[Old(i)] = h[i] /\ l[Old(j)] = h[j]
    BY <1>3
  <2>2. Old(i) < Old(j)
    <3>1. i \in 1 .. m + n + p /\ (i <= m \/ i > m + n) /\ j \in 1 .. m + n + p /\ (j <= m \/ j > m + n)
      BY <1>3
    <3> QED BY <1>1, <3>1
  <2> HIDE DEF Old
  <2> QED BY <2>1, <2>2 DEF Rising
<1>6. Those(o, h) = Those(o, l)
  <2> HIDE DEF Old, Moved
  <2> QED BY <1>3, <1>4 DEF Those
<1> QED BY <1>5, <1>6 DEF h, l

\* A later request goes to the end of the line.
LEMMA OneJoins ==
  ASSUME NEW s, NEW l \in Seq(Request), NEW d \in Request, d[2] = s, Rising(s, l),
         \A x \in Those(s, l) : x[1] < d[1]
  PROVE  Rising(s, Append(l, d)) /\ Those(s, Append(l, d)) = Those(s, l) \cup {d}
<1> DEFINE n == Len(l)
           h == Append(l, d)
<1>1. n \in Nat /\ Len(h) = n + 1 /\ h[n + 1] = d /\ \A i \in 1 .. n : h[i] = l[i]
  OBVIOUS
<1> HIDE DEF n, h
<1>2. 1 .. n + 1 = (1 .. n) \cup {n + 1}
  BY <1>1
<1>3. OfSource(s, l) = {i \in 1 .. n : l[i][2] = s} /\ OfSource(s, h) = {i \in 1 .. n + 1 : h[i][2] = s}
  BY <1>1 DEF OfSource, n
<1>4. OfSource(s, h) = OfSource(s, l) \cup {n + 1}
  BY <1>1, <1>2, <1>3
<1>5. \A i \in OfSource(s, l) : i \in 1 .. n /\ h[i] = l[i] /\ h[i][1] < d[1]
  BY <1>1, <1>3 DEF Those
<1>6. Rising(s, h)
  <2> SUFFICES ASSUME NEW i \in OfSource(s, h), NEW j \in OfSource(s, h), i < j PROVE h[i][1] < h[j][1]
    BY DEF Rising
  <2>1. i \in OfSource(s, l)
    <3>1. CASE i = n + 1
      <4>1. j \in 1 .. n + 1
        BY <1>3
      <4> QED BY <1>1, <3>1, <4>1
    <3> QED BY <1>4, <3>1
  <2>2. CASE j = n + 1
    BY <1>1, <1>5, <2>1, <2>2
  <2>3. CASE j \in OfSource(s, l)
    BY <1>5, <2>1, <2>3 DEF Rising
  <2> QED BY <1>4, <2>2, <2>3
<1>7. Those(s, h) = Those(s, l) \cup {d}
  BY <1>1, <1>4, <1>5 DEF Those
<1> QED BY <1>6, <1>7 DEF h

\* Where the requests are that have come.
InLine == UNION {Those(s, Line(s)) : s \in Source}
Came == InLine \cup refused
PlaceInv ==
  /\ \A s \in Source : Rising(s, Line(s)) /\ Those(s, Line(s)) \subseteq (1 .. nreq) \X {s}
  /\ refused \subseteq (1 .. nreq) \X Source
  /\ InLine \cap refused = {}
  /\ \A q, d \in Came : q[1] = d[1] => q = d
  /\ \A n \in 1 .. nreq : \E d \in Came : d[1] = n

LEMMA PlaceInit == RqInit => PlaceInv
<1> SUFFICES ASSUME RqInit PROVE PlaceInv
  OBVIOUS
<1>1. fwd = <<>> /\ refused = {} /\ nreq = 0 /\ \A s \in Source : Waiting(s) = <<>>
  BY DEF RqInit, Waiting
<1>2. <<>> \o <<>> = <<>> /\ \A s : OfSource(s, <<>>) = {}
  BY DEF OfSource
<1>3. \A s \in Source : OfSource(s, Line(s)) = {}
  BY <1>1, <1>2 DEF Line
<1>4. \A s \in Source : Rising(s, Line(s)) /\ Those(s, Line(s)) = {}
  BY <1>3 DEF Rising, Those
<1>5. InLine = {}
  BY <1>4 DEF InLine
<1>6. 1 .. 0 = {}
  OBVIOUS
<1> QED BY <1>1, <1>4, <1>5, <1>6 DEF PlaceInv, Came

LEMMA LineType == ASSUME BucketInv, NEW o \in Source PROVE Waiting(o) \in Seq(Request) /\ Line(o) \in Seq(Request)
<1>1. Waiting(o) \in Seq(Request) /\ fwd \in Seq(Request)
  BY FoundIs, InvBounds DEF BucketAt
<1> QED BY <1>1, ConcatProperties DEF Line

\* A step that lets requests of s pass, and leaves its line but for its end.
LEMMA LinesMove ==
  ASSUME BucketInv, NEW s \in Source, NEW g, LetsPass(s, g), NEW o \in Source, o # s
  PROVE  /\ Rising(o, Line(o)) => Rising(o, Line(o))'
         /\ Those(o, Line(o))' = Those(o, Line(o))
<1>1. Waiting(o) \in Seq(Request) /\ fwd \in Seq(Request)
  BY LineType, InvBounds
<1>2. g \in Seq(Request) /\ OnlyOf(s, g) /\ fwd' = fwd \o g /\ Waiting(o)' = Waiting(o)
  BY DEF LetsPass
<1>3. /\ Rising(o, fwd \o Waiting(o)) => Rising(o, (fwd \o g) \o Waiting(o))
      /\ Those(o, (fwd \o g) \o Waiting(o)) = Those(o, fwd \o Waiting(o))
  <2> DEFINE rest == Waiting(o)
  <2> HIDE DEF rest
  <2>1. rest \in Seq(Request) /\ fwd \in Seq(Request) /\ g \in Seq(Request) /\ OnlyOf(s, g)
    BY <1>1, <1>2 DEF rest
  <2>2. /\ Rising(o, fwd \o rest) => Rising(o, (fwd \o g) \o rest)
        /\ Those(o, (fwd \o g) \o rest) = Those(o, fwd \o rest)
    BY <2>1, OthersPass
  <2> QED BY <2>2 DEF rest
<1>4. Line(o) = fwd \o Waiting(o) /\ Line(o)' = (fwd \o g) \o Waiting(o)
  BY <1>2 DEF Line
<1>5. Rising(o, Line(o))' = Rising(o, Line(o)') /\ Those(o, Line(o))' = Those(o, Line(o)')
  BY DEF Rising, Those, OfSource
<1> QED BY <1>3, <1>4, <1>5

\* What comes is new.
LEMMA PlaceServe ==
  ASSUME BucketInv, OwnQueue, PlaceInv, NEW s \in Source, ServeReq(s)
  PROVE  PlaceInv'
<1> DEFINE req == <<nreq + 1, s>>
           L(o) == Those(o, Line(o))
<1>1. PICK g : LetsPass(s, g)
  BY ServeLets
<1>2. Joins(s) /\ nreq' = nreq + 1 /\ nreq \in Nat /\ req \in Request
  <2>1. nreq' = nreq + 1 /\ nreq < MaxReq
    BY DEF ServeReq
  <2>2. 0 \in 0 .. Len(Waiting(s))
    BY LineType
  <2> QED BY <2>1, <2>2, ServeLets, InvBounds, HistIs
<1>3. /\ req[1] = nreq + 1 /\ req[2] = s
      /\ \A o \in Source : Rising(o, Line(o)) /\ L(o) \subseteq (1 .. nreq) \X {o}
      /\ refused \subseteq (1 .. nreq) \X Source
  BY DEF PlaceInv
<1>4. \A d \in Came : d[1] \in 1 .. nreq
  BY <1>3 DEF Came, InLine
<1>5. req \notin Came
  BY <1>2, <1>3, <1>4
<1>6. ASSUME NEW o \in Source, o # s
      PROVE  Rising(o, Line(o))' /\ L(o)' = L(o)
  BY <1>1, <1>3, <1>6, LinesMove
<1>7. Rising(s, Line(s))' = Rising(s, Line(s)') /\ L(s)' = Those(s, Line(s)')
  BY DEF Rising, Those, OfSource
<1> HIDE DEF req
<1>8. \/ Rising(s, Line(s))' /\ L(s)' = L(s) \cup {req} /\ refused' = refused
      \/ Rising(s, Line(s))' /\ L(s)' = L(s) /\ refused' = refused \cup {req}
  <2>1. CASE Line(s)' = Append(Line(s), req) /\ refused' = refused
    <3>1. \A x \in L(s) : x[1] < req[1]
      BY <1>2, <1>3
    <3>2. Rising(s, Append(Line(s), req)) /\ Those(s, Append(Line(s), req)) = L(s) \cup {req}
      BY <1>2, <1>3, <3>1, LineType, OneJoins
    <3> QED BY <1>7, <2>1, <3>2
  <2>2. CASE Line(s)' = Line(s) /\ refused' = refused \cup {req}
    BY <1>3, <1>7, <2>2
  <2> QED BY <1>2, <2>1, <2>2 DEF Joins, req
<1>9. InLine' = UNION {L(o)' : o \in Source} /\ InLine = UNION {L(o) : o \in Source}
  BY DEF InLine
<1> HIDE DEF L
<1>10. \/ InLine' = InLine \cup {req} /\ refused' = refused
       \/ InLine' = InLine /\ refused' = refused \cup {req}
  <2>1. CASE L(s)' = L(s) \cup {req} /\ refused' = refused
    <3>1. \A o \in Source : L(o)' = IF o = s THEN L(s) \cup {req} ELSE L(o)
      BY <1>6, <2>1
    <3> QED BY <1>9, <2>1, <3>1
  <2>2. CASE L(s)' = L(s) /\ refused' = refused \cup {req}
    <3>1. \A o \in Source : L(o)' = L(o)
      BY <1>6, <2>2
    <3> QED BY <1>9, <2>2, <3>1
  <2> QED BY <1>8, <2>1, <2>2
<1>11. Came' = Came \cup {req}
  BY <1>10 DEF Came
<1>12. 1 .. nreq \subseteq 1 .. nreq' /\ 1 .. nreq' = (1 .. nreq) \cup {req[1]}
  BY <1>2, <1>3
<1>13. req = <<nreq + 1, s>> /\ req \in (1 .. nreq') \X {s} /\ req \in (1 .. nreq') \X Source
  BY <1>12, <1>2 DEF req
<1>14. \A o \in Source : Rising(o, Line(o))' /\ L(o)' \subseteq (1 .. nreq') \X {o}
  <2>1. ASSUME NEW o \in Source PROVE Rising(o, Line(o))' /\ L(o)' \subseteq (1 .. nreq') \X {o}
    <3>1. L(o) \subseteq (1 .. nreq') \X {o}
      BY <1>3, <1>12
    <3>2. CASE o = s
      BY <1>8, <1>13, <3>1, <3>2
    <3>3. CASE o # s
      BY <1>6, <3>1, <3>3
    <3> QED BY <3>2, <3>3
  <2> QED BY <2>1
<1>15. refused' \subseteq (1 .. nreq') \X Source
  <2>1. refused \subseteq (1 .. nreq') \X Source
    BY <1>3, <1>12
  <2> QED BY <1>8, <1>13, <2>1
<1>16. InLine' \cap refused' = {}
  <2>1. InLine \cap refused = {} /\ req \notin InLine /\ req \notin refused
    BY <1>5 DEF PlaceInv, Came
  <2> QED BY <1>10, <2>1
<1>17. \A q, d \in Came' : q[1] = d[1] => q = d
  <2>1. \A q, d \in Came : q[1] = d[1] => q = d
    BY DEF PlaceInv
  <2>2. \A d \in Came : d[1] # req[1]
    BY <1>2, <1>3, <1>4
  <2> QED BY <1>11, <2>1, <2>2
<1>18. \A n \in 1 .. nreq' : \E d \in Came' : d[1] = n
  <2>1. \A n \in 1 .. nreq : \E d \in Came : d[1] = n
    BY DEF PlaceInv
  <2> QED BY <1>11, <1>12, <2>1
<1> QED BY <1>14, <1>15, <1>16, <1>17, <1>18 DEF PlaceInv, L

\* Nothing moves to another place, or from waiting to passed.
LEMMA PlaceSame ==
  ASSUME PlaceInv, refused' = refused, nreq' = nreq,
         \A s \in Source : Rising(s, Line(s))' /\ Those(s, Line(s))' = Those(s, Line(s))
  PROVE  PlaceInv'
<1>1. InLine' = InLine /\ Came' = Came
  BY DEF InLine, Came
<1> QED BY <1>1 DEF PlaceInv

LEMMA PlaceCheck ==
  ASSUME BucketInv, OwnQueue, PlaceInv, Check
  PROVE  PlaceInv'
<1>1. refused' = refused /\ nreq' = nreq
  BY DEF Check
<1>2. \A s \in Source : Rising(s, Line(s))
  BY DEF PlaceInv
<1>3. \A s : Rising(s, Line(s))' = Rising(s, Line(s)') /\ Those(s, Line(s))' = Those(s, Line(s)')
  BY DEF Rising, Those, OfSource
<1>4. CASE Quiet /\ \A o \in Source : Waiting(o)' = Waiting(o)
  <2>1. \A s \in Source : Line(s)' = Line(s)
    BY <1>4 DEF Quiet, Line
  <2> QED BY <1>1, <1>2, <1>3, <2>1, PlaceSame
<1>5. ASSUME NEW s \in Source, NEW g, LetsPass(s, g), Line(s)' = Line(s) PROVE PlaceInv'
  <2>1. \A o \in Source : o # s => Rising(o, Line(o))' /\ Those(o, Line(o))' = Those(o, Line(o))
    BY <1>2, <1>5, LinesMove
  <2>2. Rising(s, Line(s))' /\ Those(s, Line(s))' = Those(s, Line(s))
    BY <1>2, <1>3, <1>5
  <2> QED BY <1>1, <2>1, <2>2, PlaceSame
<1> QED BY <1>4, <1>5, CheckLets

LEMMA PlaceNext ==
  ASSUME BucketInv, OwnQueue, PlaceInv, [RqNext]_rqvars
  PROVE  PlaceInv'
<1>1. CASE LoopHead \/ TimesOut \/ NoneDue \/ Exit \/ Hup \/ RqTick \/ UNCHANGED rqvars
  <2>1. UNCHANGED <<bk, fwd, nreq, refused>>
    BY <1>1 DEF LoopHead, TimesOut, NoneDue, Exit, Hup, RqTick, rqvars, store, hist
  <2>2. \A s \in Source : Line(s)' = Line(s)
    BY <2>1 DEF Line, Waiting
  <2>3. \A s : Rising(s, Line(s))' = Rising(s, Line(s)') /\ Those(s, Line(s))' = Those(s, Line(s)')
    BY DEF Rising, Those, OfSource
  <2>4. \A s \in Source : Rising(s, Line(s))
    BY DEF PlaceInv
  <2> QED BY <2>1, <2>2, <2>3, <2>4, PlaceSame
<1>2. CASE Check
  BY <1>2, PlaceCheck
<1>3. CASE \E s \in Source : ServeReq(s)
  BY <1>3, PlaceServe
<1> QED BY <1>1, <1>2, <1>3 DEF RqNext, Loop

\* Every request that came passed, waits or was refused, and only one of these; it did so
\* once; and those of a source pass in the order in which they came, before those that wait.
EachOnce ==
  /\ \A n \in 1 .. nreq : \E d \in Range(fwd) \cup AllWaiting \cup refused : d[1] = n
  /\ \A q, d \in Range(fwd) \cup AllWaiting \cup refused : q[1] \in 1 .. nreq /\ (q[1] = d[1] => q = d)
  /\ Range(fwd) \cap AllWaiting = {} /\ Range(fwd) \cap refused = {} /\ AllWaiting \cap refused = {}
  /\ \A i, j \in 1 .. Len(fwd) : i < j => fwd[i] # fwd[j] /\ (fwd[i][2] = fwd[j][2] => fwd[i][1] < fwd[j][1])
  /\ \A s \in Source : \A i, j \in 1 .. Len(Waiting(s)) : i < j => Waiting(s)[i][1] < Waiting(s)[j][1]

LEMMA PlaceIs == ASSUME BucketInv, OwnQueue, PlaceInv PROVE EachOnce
<1>1. /\ fwd \in Seq(Request) /\ nreq \in Nat /\ \A s \in Source : Waiting(s) \in Seq(Request)
  BY InvBounds, LineType
<1> DEFINE m == Len(fwd)
           p(s) == Len(Waiting(s))
<1>2. ASSUME NEW s \in Source
      PROVE  /\ m \in Nat /\ p(s) \in Nat /\ Len(Line(s)) = m + p(s)
             /\ \A i \in 1 .. m : i \in 1 .. m + p(s) /\ Line(s)[i] = fwd[i]
             /\ \A i \in 1 .. p(s) : m + i \in 1 .. m + p(s) /\ Line(s)[m + i] = Waiting(s)[i]
             /\ \A i \in 1 .. m + p(s) : i \in 1 .. m \/ \E j \in 1 .. p(s) : i = m + j
  <2> DEFINE rest == Waiting(s)
             n == Len(rest)
  <2>1. rest \in Seq(Request) /\ m \in Nat /\ n \in Nat
    BY <1>1
  <2>2. /\ Len(fwd \o rest) = m + n
        /\ \A i \in 1 .. m + n : (fwd \o rest)[i] = IF i <= m THEN fwd[i] ELSE rest[i - m]
    BY <1>1, <2>1, ConcatProperties
  <2>3. Line(s) = fwd \o rest
    BY DEF Line
  <2> DEFINE l == Line(s)
  <2> HIDE DEF rest, m, n, l
  <2>4. Len(l) = m + n /\ \A i \in 1 .. m + n : l[i] = IF i <= m THEN fwd[i] ELSE rest[i - m]
    BY <2>2, <2>3 DEF l, m, n
  <2>5. \A i \in 1 .. m : i \in 1 .. m + n /\ l[i] = fwd[i]
    BY <2>1, <2>4
  <2>6. ASSUME NEW i \in 1 .. n PROVE m + i \in 1 .. m + n /\ l[m + i] = rest[i]
    <3>1. m + i \in 1 .. m + n /\ ~(m + i <= m) /\ (m + i) - m = i
      BY <2>1
    <3> QED BY <2>4, <3>1
  <2>7. ASSUME NEW i \in 1 .. m + n PROVE i \in 1 .. m \/ \E j \in 1 .. n : i = m + j
    <3>1. CASE i <= m
      BY <2>1, <3>1
    <3>2. CASE ~(i <= m)
      <4>1. i - m \in 1 .. n /\ i = m + (i - m)
        BY <2>1, <3>2
      <4> QED BY <4>1
    <3> QED BY <3>1, <3>2
  <2> QED BY <2>1, <2>4, <2>5, <2>6, <2>7 DEF l, m, n, rest
<1> HIDE DEF m
<1>3. \A s \in Source : \A i \in 1 .. p(s) : Waiting(s)[i][2] = s
  BY DEF OwnQueue, OnlyOf
<1>4. \A i \in 1 .. m : fwd[i] \in Request /\ fwd[i][2] \in Source
  <2>1. \A i \in 1 .. m : fwd[i] \in Request
    BY <1>1 DEF m
  <2> QED BY <2>1 DEF Request
<1>5. Range(fwd) = {fwd[i] : i \in 1 .. m}
  <2>1. DOMAIN fwd = 1 .. m
    BY <1>1 DEF m
  <2> QED BY <2>1 DEF Range
<1>6. \A s \in Source : Range(Waiting(s)) = {Waiting(s)[i] : i \in 1 .. p(s)}
  <2>1. \A s \in Source : DOMAIN Waiting(s) = 1 .. p(s)
    BY <1>1
  <2> QED BY <2>1 DEF Range
<1> HIDE DEF p
<1>7. \A s \in Source : OfSource(s, Line(s)) = {i \in 1 .. m + p(s) : Line(s)[i][2] = s}
  BY <1>2 DEF OfSource
<1>16. ASSUME NEW s \in Source, NEW i \in 1 .. p(s)
       PROVE  m + i \in OfSource(s, Line(s)) /\ Line(s)[m + i] = Waiting(s)[i]
  <2>1. m + i \in 1 .. m + p(s) /\ Line(s)[m + i] = Waiting(s)[i]
    BY <1>2
  <2>2. Line(s)[m + i][2] = s
    BY <1>3, <2>1
  <2> QED BY <1>7, <2>1, <2>2
<1>8. \A s \in Source : Those(s, Line(s)) = {d \in Range(fwd) : d[2] = s} \cup Range(Waiting(s))
  <2> SUFFICES ASSUME NEW s \in Source
               PROVE  Those(s, Line(s)) = {d \in Range(fwd) : d[2] = s} \cup Range(Waiting(s))
    OBVIOUS
  <2>1. ASSUME NEW d \in Those(s, Line(s)) PROVE d \in {x \in Range(fwd) : x[2] = s} \cup Range(Waiting(s))
    <3>1. PICK i \in 1 .. m + p(s) : d = Line(s)[i] /\ Line(s)[i][2] = s
      BY <1>7, <2>1 DEF Those
    <3>2. CASE i \in 1 .. m
      BY <1>2, <1>5, <3>1, <3>2
    <3>3. CASE \E j \in 1 .. p(s) : i = m + j
      BY <1>2, <1>6, <3>1, <3>3
    <3> QED BY <1>2, <3>2, <3>3
  <2>2. ASSUME NEW i \in 1 .. m, fwd[i][2] = s PROVE fwd[i] \in Those(s, Line(s))
    BY <1>2, <1>7, <2>2 DEF Those
  <2>3. ASSUME NEW i \in 1 .. p(s) PROVE Waiting(s)[i] \in Those(s, Line(s))
    <3>1. m + i \in OfSource(s, Line(s)) /\ Line(s)[m + i] = Waiting(s)[i]
      BY <1>16
    <3> QED BY <3>1 DEF Those
  <2> QED BY <1>5, <1>6, <2>1, <2>2, <2>3
<1>9. InLine = Range(fwd) \cup AllWaiting
  <2>1. \A d \in Range(fwd) : d[2] \in Source
    BY <1>4, <1>5
  <2> QED BY <1>8, <2>1 DEF InLine, AllWaiting
<1>10. \A s \in Source : \A i, j \in OfSource(s, Line(s)) : i < j => Line(s)[i][1] < Line(s)[j][1]
  BY DEF PlaceInv, Rising
<1>11. \A d \in Came : d[1] \in 1 .. nreq
  BY DEF PlaceInv, Came, InLine
<1>12. Range(fwd) \cap AllWaiting = {}
  <2> SUFFICES ASSUME NEW i \in 1 .. m, NEW s \in Source, NEW j \in 1 .. p(s), fwd[i] = Waiting(s)[j] PROVE FALSE
    BY <1>5, <1>6 DEF AllWaiting
  <2>1. fwd[i][2] = s
    BY <1>3
  <2>2. i \in OfSource(s, Line(s)) /\ m + j \in OfSource(s, Line(s)) /\ Line(s)[i] = fwd[i] /\ Line(s)[m + j] = fwd[i]
    <3>1. i \in 1 .. m + p(s) /\ Line(s)[i] = fwd[i]
      BY <1>2
    <3>2. i \in OfSource(s, Line(s))
      BY <1>7, <2>1, <3>1
    <3> QED BY <1>16, <3>1, <3>2
  <2>3. i < m + j
    BY <1>2
  <2>4. fwd[i][1] < fwd[i][1]
    BY <1>10, <2>2, <2>3
  <2>5. fwd[i][1] \in Nat
    BY <1>4 DEF Request
  <2> QED BY <2>4, <2>5
<1>13. \A i, j \in 1 .. m : i < j => fwd[i] # fwd[j] /\ (fwd[i][2] = fwd[j][2] => fwd[i][1] < fwd[j][1])
  <2> SUFFICES ASSUME NEW i \in 1 .. m, NEW j \in 1 .. m, i < j
               PROVE  fwd[i] # fwd[j] /\ (fwd[i][2] = fwd[j][2] => fwd[i][1] < fwd[j][1])
    OBVIOUS
  <2>1. ASSUME fwd[i][2] = fwd[j][2] PROVE fwd[i][1] < fwd[j][1]
    <3>1. PICK s \in Source : s = fwd[i][2]
      BY <1>4
    <3>2. i \in OfSource(s, Line(s)) /\ j \in OfSource(s, Line(s)) /\ Line(s)[i] = fwd[i] /\ Line(s)[j] = fwd[j]
      BY <1>2, <1>7, <2>1, <3>1
    <3> QED BY <1>10, <3>2
  <2>2. fwd[i][1] \in Nat
    BY <1>4 DEF Request
  <2> QED BY <2>1, <2>2
<1>14. ASSUME NEW s \in Source, NEW i \in 1 .. p(s), NEW j \in 1 .. p(s), i < j
       PROVE  Waiting(s)[i][1] < Waiting(s)[j][1]
  <2>1. m + i \in OfSource(s, Line(s)) /\ m + j \in OfSource(s, Line(s))
        /\ Line(s)[m + i] = Waiting(s)[i] /\ Line(s)[m + j] = Waiting(s)[j]
    BY <1>16
  <2>2. m + i < m + j
    BY <1>2, <1>14
  <2> QED BY <1>10, <2>1, <2>2
<1>15. Came = Range(fwd) \cup AllWaiting \cup refused /\ InLine \cap refused = {}
       /\ (\A q, d \in Came : q[1] = d[1] => q = d) /\ \A n \in 1 .. nreq : \E d \in Came : d[1] = n
  BY <1>9 DEF PlaceInv, Came
<1> QED BY <1>9, <1>11, <1>12, <1>13, <1>14, <1>15 DEF EachOnce, m, p

\* However buckets come and go, ratequeue loses no request, duplicates none, and lets none
\* of a source overtake an earlier one of that source.
THEOREM EachOnceInOrder == RqSpec => []EachOnce
<1>1. RqInit => OwnQueue
  BY DEF RqInit, OwnQueue, OnlyOf, Waiting
<1>2. BucketInv /\ OwnQueue /\ PlaceInv /\ [RqNext]_rqvars => OwnQueue' /\ PlaceInv'
  BY StepLets, PlaceNext
<1>3. BucketInv /\ OwnQueue /\ PlaceInv => EachOnce
  BY PlaceIs
<1> QED BY <1>1, <1>2, <1>3, PlaceInit, BucketsAlwaysTimed, PTL DEF RqSpec

=============================================================================
