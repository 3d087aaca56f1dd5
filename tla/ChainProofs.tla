---------------------------- MODULE ChainProofs ----------------------------
(***************************************************************************)
(* Proofs that accesslog keeps the lock on its log, for any requests,      *)
(* files and signals, and that no request is dropped, doubled or logged    *)
(* twice on its way to a child of httrcall, whatever ends on the way; and  *)
(* that the buffers of bufio.c, through which accesslog writes, neither    *)
(* lose nor double a byte.                                                 *)
(***************************************************************************)
EXTENDS Chain, BufIo, FiniteSetTheorems, SequenceTheorems, WellFoundedInduction, TLAPS

-----------------------------------------------------------------------------
(* The lock on the log: LogOwned.                                          *)

\* Of accesslog's record, the fields that its steps change.
Fields == {"pc", "hand", "in", "hup", "reopen", "exit", "watch", "new", "owed", "missed", "filter"}

\* A file gets a number that was not used before, so that only a rename can make the path name the
\* open log again.
FileRec == [name : Nat, made : Nat, out : Nat, mine : SUBSET Nat, other : Nat, back : BOOLEAN, bare : BOOLEAN]
FilesOK ==
  /\ fs \in FileRec
  /\ {fs.name, fs.out, fs.other} \subseteq 0 .. fs.made
  /\ al.pc \notin {"open", "ended"} => fs.out # 0

\* The strengthening of LogOwned: between stat() and fclose() the path names another file, unless
\* the open log was renamed back.
LogInv ==
  /\ Fields \subseteq DOMAIN al
  /\ FilesOK
  /\ LogOwned
  /\ al.pc \in {"open", "lock"} => ~fs.bare
  /\ al.pc = "reopen" => fs.name # fs.out \/ fs.back
  /\ al.pc = "relock" => al.new \in 1 .. fs.made /\ (al.new = fs.out => fs.back)

LEMMA LogInit == Init => LogInv
<1> SUFFICES ASSUME Init PROVE LogInv
  OBVIOUS
<1>1. CASE A!NoAccessLog(Reqs)
  BY <1>1 DEF A!NoAccessLog, A!AlStart, LogInv, FilesOK, FileRec, LogOwned, Fields
<1>2. CASE A!AccessLogInit(Reqs)
  BY <1>2 DEF A!AccessLogInit, A!AlStart, LogInv, FilesOK, FileRec, LogOwned, Fields
<1>3. QED
  BY <1>1, <1>2 DEF Init

\* fopen() of the path gives the file that it names, or a new one.
LEMMA OpenedOK ==
  ASSUME FilesOK
  PROVE  /\ A!Opened \in FileRec
         /\ A!Opened.out = fs.out /\ A!Opened.mine = fs.mine /\ A!Opened.other = fs.other
         /\ A!Opened.back = fs.back /\ A!Opened.bare = fs.bare
         /\ A!Opened.name \in 1 .. A!Opened.made /\ fs.made <= A!Opened.made
         /\ fs.name # fs.out /\ fs.out # 0 => A!Opened.name # fs.out
<1> USE DEF FilesOK, FileRec
<1>1. CASE fs.name = 0
  <2>1. A!Opened = [name |-> fs.made + 1, made |-> fs.made + 1, out |-> fs.out, mine |-> fs.mine, other |-> fs.other,
                  back |-> fs.back, bare |-> fs.bare]
    BY <1>1 DEF A!Opened
  <2>2. fs.made \in Nat /\ fs.out \in 0 .. fs.made
    OBVIOUS
  <2>3. QED
    BY <2>1, <2>2
<1>2. CASE fs.name # 0
  <2>1. A!Opened = fs
    BY <1>2 DEF A!Opened
  <2>2. fs.name \in 1 .. fs.made /\ fs.made \in Nat
    BY <1>2
  <2>3. QED
    BY <2>1, <2>2
<1>3. QED
  BY <1>1, <1>2

\* The steps of accesslog that leave the files alone keep the invariant if they keep clear of
\* the states that it speaks of.
Quiet == {"top", "stat", "reopened", "poll", "recv", "send", "log", "hup", "ioloop", "turn", "wait", "events"}
LEMMA QuietStep ==
  ASSUME LogInv, fs' = fs, al.pc \in Quiet, al'.pc \in Quiet, DOMAIN al' = DOMAIN al
  PROVE  LogInv'
  BY DEF LogInv, FilesOK, LogOwned, Quiet

\* Its process ends.
LEMMA EndsStep ==
  ASSUME LogInv, A!Ends
  PROVE  LogInv'
<1>1. al'.pc = "ended" /\ DOMAIN al' = DOMAIN al
  BY DEF LogInv, Fields, A!Ends
<1>2. /\ fs' \in FileRec
      /\ fs'.name = fs.name /\ fs'.made = fs.made /\ fs'.other = fs.other
      /\ fs'.out = 0 /\ fs'.mine = {}
  BY DEF LogInv, FilesOK, FileRec, A!Ends
<1>3. QED
  BY <1>1, <1>2 DEF LogInv, FilesOK, FileRec, LogOwned

\* main() opens and locks the log, or goes on without a lock.
LEMMA StartStep ==
  ASSUME LogInv, A!OpenLog \/ A!LockFails \/ A!LockLog \/ A!NoLock
  PROVE  LogInv'
<1>1. CASE A!OpenLog
  <2>1. al'.pc = "lock" /\ DOMAIN al' = DOMAIN al /\ al.pc = "open"
    BY <1>1 DEF A!OpenLog, LogInv, Fields
  <2>2. fs' = [A!Opened EXCEPT !.out = A!Opened.name]
    BY <1>1 DEF A!OpenLog
  <2>3. /\ fs' \in FileRec
        /\ fs'.name = A!Opened.name /\ fs'.made = A!Opened.made /\ fs'.other = fs.other
        /\ fs'.out = A!Opened.name /\ fs'.mine = fs.mine /\ fs'.bare = fs.bare
        /\ A!Opened.name \in 1 .. A!Opened.made /\ fs.made <= A!Opened.made
    BY <2>2, OpenedOK DEF LogInv, FileRec
  <2>4. fs.mine = {} /\ fs.other \in 0 .. fs.made /\ fs.made \in Nat /\ fs'.made \in Nat /\ ~fs.bare
    BY <2>1, <2>3 DEF LogInv, FilesOK, FileRec, LogOwned
  <2>5. FilesOK'
    BY <2>1, <2>3, <2>4 DEF FilesOK, FileRec
  <2>6. QED
    BY <2>1, <2>3, <2>4, <2>5 DEF LogInv, LogOwned
<1>2. CASE A!LockFails
  BY <1>2, EndsStep DEF A!LockFails
<1>3. CASE A!LockLog
  <2>1. al'.pc \in {"ioloop", "top"} /\ DOMAIN al' = DOMAIN al /\ al.pc = "lock" /\ fs.out # fs.other
    BY <1>3 DEF A!LockLog, A!Begins, LogInv, Fields
  <2>2. fs' = [fs EXCEPT !.mine = {fs.out}]
    BY <1>3 DEF A!LockLog
  <2>3. QED
    BY <2>1, <2>2 DEF LogInv, FilesOK, FileRec, LogOwned
<1>4. CASE A!NoLock
  <2>1. al'.pc \in {"ioloop", "top"} /\ DOMAIN al' = DOMAIN al /\ al.pc = "lock"
    BY <1>4 DEF A!NoLock, A!Begins, LogInv, Fields
  <2>2. fs' = [fs EXCEPT !.bare = TRUE] /\ fs.mine = {}
    BY <1>4, <2>1 DEF A!NoLock, LogInv, LogOwned
  <2>3. QED
    BY <2>1, <2>2 DEF LogInv, FilesOK, FileRec, LogOwned
<1>5. QED
  BY <1>1, <1>2, <1>3, <1>4

\* What reopenlog() does to the files when the new one is locked, or cannot be.
LEMMA RelockDoes ==
  ASSUME FilesOK
  PROVE  /\ A!Relock /\ al.new = fs.other => fs' = [fs EXCEPT !.mine = fs.mine \ {al.new}]
         /\ A!Relock /\ al.new # fs.other =>
              \E b \in BOOLEAN : /\ b <=> al.new = fs.out /\ fs.back
                                 /\ fs' = [fs EXCEPT !.mine = (fs.mine \cup {al.new}) \ {fs.out}, !.out = al.new, !.bare = b]
         /\ A!RelockNone => fs' = [fs EXCEPT !.mine = fs.mine \ {fs.out}, !.out = al.new, !.bare = TRUE]
<1>1. fs \in FileRec
  BY DEF FilesOK
<1>2. ASSUME A!Relock, al.new = fs.other PROVE fs' = [fs EXCEPT !.mine = fs.mine \ {al.new}]
  BY <1>1, <1>2 DEF A!Relock, A!Relocked, A!Closed, FileRec
<1>3. ASSUME A!Relock, al.new # fs.other
      PROVE  \E b \in BOOLEAN : /\ b <=> al.new = fs.out /\ fs.back
                                /\ fs' = [fs EXCEPT !.mine = (fs.mine \cup {al.new}) \ {fs.out}, !.out = al.new, !.bare = b]
  <2> DEFINE b == al.new = fs.out /\ fs.back
  <2>1. b \in BOOLEAN
    BY <1>1 DEF FileRec
  <2>2. fs' = A!Replaced([fs EXCEPT !.mine = @ \cup {al.new}, !.bare = b])
    BY <1>3 DEF A!Relock, A!Relocked
  <2> HIDE DEF b
  <2>3. fs' = [fs EXCEPT !.mine = (fs.mine \cup {al.new}) \ {fs.out}, !.out = al.new, !.bare = b]
    BY <1>1, <2>1, <2>2 DEF A!Replaced, A!Closed, FileRec
  <2> QED BY <2>1, <2>3 DEF b
<1>4. ASSUME A!RelockNone PROVE fs' = [fs EXCEPT !.mine = fs.mine \ {fs.out}, !.out = al.new, !.bare = TRUE]
  BY <1>1, <1>4 DEF A!RelockNone, A!Relocked, A!Replaced, A!Closed, FileRec
<1> QED BY <1>2, <1>3, <1>4

\* The new log replaces the old one.
LEMMA ReplacedStep ==
  ASSUME LogInv, al.pc = "relock", al'.pc = "reopened", DOMAIN al' = DOMAIN al, NEW m, NEW b \in BOOLEAN,
         fs' = [fs EXCEPT !.mine = m, !.out = al.new, !.bare = b],
         m = IF b THEN {} ELSE {al.new}, al.new # fs.other \/ b
  PROVE  LogInv'
<1>1. /\ al.new \in 1 .. fs.made /\ fs.made \in Nat /\ al.new \in Nat \ {0} /\ al.new \in 0 .. fs.made
      /\ m \in SUBSET Nat
  BY DEF LogInv, FilesOK, FileRec
<1>2. /\ fs' \in FileRec
      /\ fs'.name = fs.name /\ fs'.made = fs.made /\ fs'.other = fs.other
      /\ fs'.out = al.new /\ fs'.mine = m /\ fs'.bare = b
  BY <1>1 DEF LogInv, FilesOK, FileRec
<1>3. FilesOK'
  BY <1>1, <1>2 DEF LogInv, FilesOK
<1>4. LogOwned'
  BY <1>2 DEF LogOwned
<1> QED BY <1>3, <1>4 DEF LogInv

\* reopenlog().
LEMMA ReopenStep ==
  ASSUME LogInv, A!Stat \/ A!Reopen \/ A!Relock \/ A!RelockNone \/ A!Reopened
  PROVE  LogInv'
<1>1. CASE A!Stat
  <2>1. /\ fs' = fs /\ DOMAIN al' = DOMAIN al /\ al.pc = "stat"
        /\ al'.pc = IF fs.name = fs.out THEN "reopened" ELSE "reopen"
    BY <1>1 DEF A!Stat, LogInv, Fields
  <2>2. QED
    BY <2>1 DEF LogInv, FilesOK, LogOwned
<1>2. CASE A!Reopen
  <2>1. /\ al.pc = "reopen" /\ (fs.name # fs.out \/ fs.back) /\ fs.out # 0
        /\ fs.mine = (IF fs.bare THEN {} ELSE {fs.out}) /\ fs.other \notin fs.mine
    BY <1>2 DEF A!Reopen, LogInv, FilesOK, LogOwned
  <2>2. CASE fs' = A!Opened /\ al' = [al EXCEPT !.pc = "relock", !.new = A!Opened.name]
    <3>1. al'.pc = "relock" /\ al'.new = A!Opened.name /\ DOMAIN al' = DOMAIN al
      BY <2>2 DEF LogInv, Fields
    <3>2. /\ fs' \in FileRec
          /\ fs'.out = fs.out /\ fs'.mine = fs.mine /\ fs'.other = fs.other
          /\ fs'.back = fs.back /\ fs'.bare = fs.bare
          /\ fs'.name \in 1 .. fs'.made /\ fs.made <= fs'.made /\ (fs'.name # fs.out \/ fs.back)
      BY <2>1, <2>2, OpenedOK DEF LogInv
    <3>3. {fs.out, fs.other} \subseteq 0 .. fs.made /\ fs.made \in Nat /\ fs'.made \in Nat
      BY <3>2 DEF LogInv, FilesOK, FileRec
    <3>4. FilesOK'
      BY <3>1, <3>2, <3>3, <2>1 DEF FilesOK
    <3>5. LogOwned'
      BY <3>1, <3>2, <2>1 DEF LogOwned
    <3>6. QED
      BY <3>1, <3>2, <3>4, <3>5, <2>2 DEF LogInv
  <2>3. CASE al' = [al EXCEPT !.pc = "reopened"] /\ fs' = fs
    <3>1. al'.pc = "reopened" /\ DOMAIN al' = DOMAIN al
      BY <2>3 DEF LogInv, Fields
    <3>2. QED
      BY <2>1, <2>3, <3>1 DEF LogInv, FilesOK, LogOwned
  <2>4. QED
    BY <1>2, <2>2, <2>3 DEF A!Reopen
<1>3. CASE A!Relock \/ A!RelockNone
  <2>1. /\ al.pc = "relock" /\ al'.pc = "reopened" /\ DOMAIN al' = DOMAIN al
        /\ fs.mine = (IF fs.bare THEN {} ELSE {fs.out}) /\ fs.other \notin fs.mine
        /\ al.new = fs.out => fs.back
    BY <1>3 DEF A!Relock, A!RelockNone, A!Relocked, LogInv, LogOwned, Fields
  <2>2. CASE A!Relock /\ al.new = fs.other
    <3>1. fs' = [fs EXCEPT !.mine = fs.mine \ {al.new}]
      BY <2>2, RelockDoes DEF LogInv
    <3>2. fs.mine \ {al.new} = fs.mine
      BY <2>1, <2>2
    <3>3. QED
      BY <2>1, <3>1, <3>2 DEF LogInv, FilesOK, FileRec, LogOwned
  <2>3. CASE A!Relock /\ al.new # fs.other
    <3>1. PICK b \in BOOLEAN :
            /\ b <=> al.new = fs.out /\ fs.back
            /\ fs' = [fs EXCEPT !.mine = (fs.mine \cup {al.new}) \ {fs.out}, !.out = al.new, !.bare = b]
      BY <2>3, RelockDoes DEF LogInv
    <3>2. (fs.mine \cup {al.new}) \ {fs.out} = IF b THEN {} ELSE {al.new}
      BY <2>1, <3>1
    <3>3. QED
      BY <2>1, <2>3, <3>1, <3>2, ReplacedStep
  <2>4. CASE A!RelockNone
    <3>1. fs' = [fs EXCEPT !.mine = fs.mine \ {fs.out}, !.out = al.new, !.bare = TRUE]
      BY <2>4, RelockDoes DEF LogInv
    <3>2. fs.mine \ {fs.out} = {}
      BY <2>1
    <3>3. QED
      BY <2>1, <3>1, <3>2, ReplacedStep
  <2>5. QED
    BY <1>3, <2>2, <2>3, <2>4
<1>4. CASE A!Reopened
  <2>1. /\ fs' = [fs EXCEPT !.back = FALSE] /\ DOMAIN al' = DOMAIN al
        /\ al.pc = "reopened" /\ al'.pc \in {"ioloop", "poll"}
    BY <1>4 DEF A!Reopened, LogInv, Fields
  <2>2. QED
    BY <2>1 DEF LogInv, FilesOK, FileRec, LogOwned
<1>5. QED
  BY <1>1, <1>2, <1>3, <1>4

\* sloop().
LEMMA SloopStep ==
  ASSUME LogInv, A!Top \/ A!Polled \/ A!TakeReq \/ A!PassOn \/ A!WriteRecord \/ A!NoInput \/ A!ChildStays \/ A!SloopEnds
  PROVE  LogInv'
<1>1. CASE A!Top
  <2>1. fs' = fs /\ DOMAIN al' = DOMAIN al /\ al.pc = "top" /\ al'.pc \in {"stat", "poll"}
    BY <1>1 DEF A!Top, LogInv, Fields
  <2>2. QED
    BY <2>1, QuietStep DEF Quiet
<1>2. CASE A!Polled
  <2>1. fs' = fs /\ DOMAIN al' = DOMAIN al /\ al.pc = "poll" /\ al'.pc = "recv"
    BY <1>2 DEF A!Polled, LogInv, Fields
  <2>2. QED
    BY <2>1, QuietStep DEF Quiet
<1>3. CASE A!TakeReq
  <2>1. fs' = fs /\ DOMAIN al' = DOMAIN al /\ al.pc = "recv" /\ al'.pc = "send"
    BY <1>3 DEF A!TakeReq, LogInv, Fields
  <2>2. QED
    BY <2>1, QuietStep DEF Quiet
<1>4. CASE A!PassOn \/ A!WriteRecord
  <2>1. fs' = fs /\ DOMAIN al' = DOMAIN al /\ al.pc \in {"send", "log"} /\ al'.pc \in {"log", "hup"}
    BY <1>4 DEF A!PassOn, A!WriteRecord, LogInv, Fields
  <2>2. QED
    BY <2>1, QuietStep DEF Quiet
<1>5. CASE A!NoInput
  <2>1. fs' = fs /\ DOMAIN al' = DOMAIN al /\ al.pc = "recv" /\ al'.pc = "hup"
    BY <1>5 DEF A!NoInput, LogInv, Fields
  <2>2. QED
    BY <2>1, QuietStep DEF Quiet
<1>6. CASE A!ChildStays
  <2>1. fs' = fs /\ DOMAIN al' = DOMAIN al /\ al.pc = "hup" /\ al'.pc = "top"
    BY <1>6 DEF A!ChildStays, LogInv, Fields
  <2>2. QED
    BY <2>1, QuietStep DEF Quiet
<1>7. CASE A!SloopEnds
  BY <1>7, EndsStep DEF A!SloopEnds
<1>8. QED
  BY <1>1, <1>2, <1>3, <1>4, <1>5, <1>6, <1>7

\* floop().
LEMMA FloopStep ==
  ASSUME LogInv,
         \/ A!Ioloop \/ A!Turn \/ A!TurnOver \/ A!Listen \/ A!FilterPass \/ A!FilterFails \/ A!ChWatch
         \/ A!FloopEnds \/ \E r \in A!Requests : A!FilterStep(r) \/ A!FilterOut(r)
  PROVE  LogInv'
<1>1. CASE A!Ioloop
  <2>1. fs' = fs /\ DOMAIN al' = DOMAIN al /\ al.pc = "ioloop" /\ al'.pc = "turn"
    BY <1>1 DEF A!Ioloop, LogInv, Fields
  <2>2. QED
    BY <2>1, QuietStep DEF Quiet
<1>2. CASE A!Turn
  <2>1. fs' = fs /\ DOMAIN al' = DOMAIN al /\ al.pc = "turn" /\ al'.pc \in {"stat", "wait"}
    BY <1>2 DEF A!Turn, LogInv, Fields
  <2>2. QED
    BY <2>1, QuietStep DEF Quiet
<1>3. CASE A!TurnOver
  <2>1. fs' = fs /\ DOMAIN al' = DOMAIN al /\ al.pc = "events" /\ al'.pc = "turn"
    BY <1>3 DEF A!TurnOver, LogInv, Fields
  <2>2. QED
    BY <2>1, QuietStep DEF Quiet
<1>4. CASE A!Listen
  <2>1. fs' = fs /\ DOMAIN al' = DOMAIN al /\ al.pc \in {"wait", "events"} /\ al'.pc = "send"
    BY <1>4 DEF A!Listen, A!Events, LogInv, Fields
  <2>2. QED
    BY <2>1, QuietStep DEF Quiet
<1>5. CASE A!FilterPass \/ A!FilterFails
  <2>1. fs' = fs /\ DOMAIN al' = DOMAIN al /\ al.pc = "send" /\ al'.pc = "events"
    BY <1>5 DEF A!FilterPass, A!FilterFails, LogInv, Fields
  <2>2. QED
    BY <2>1, QuietStep DEF Quiet
<1>6. CASE A!ChWatch \/ \E r \in A!Requests : A!FilterStep(r) \/ A!FilterOut(r)
  <2>1. fs' = fs /\ DOMAIN al' = DOMAIN al /\ al.pc \in {"wait", "events"} /\ al'.pc = "events"
    BY <1>6 DEF A!ChWatch, A!FilterStep, A!FilterOut, A!Events, LogInv, Fields
  <2>2. QED
    BY <2>1, QuietStep DEF Quiet
<1>7. CASE A!FloopEnds
  BY <1>7, EndsStep DEF A!FloopEnds
<1>8. QED
  BY <1>1, <1>2, <1>3, <1>4, <1>5, <1>6, <1>7

\* SIGHUP, and what others do with the files.
LEMMA OutsideStep ==
  ASSUME LogInv, A!Hup \/ (A!Running /\ Outside)
  PROVE  LogInv'
<1>1. CASE A!Hup
  <2>1. PICK pc \in {al.pc} \cup (IF al.pc = "poll" THEN {"top"} ELSE IF al.pc = "wait" THEN {"turn"} ELSE {}) :
          al' = IF al.filter THEN [al EXCEPT !.pc = pc, !.exit = 2, !.missed = @ \/ al.exit = 1]
                ELSE [al EXCEPT !.pc = pc, !.reopen = TRUE]
    BY <1>1, Zenon DEF A!Hup
  <2>2. al'.pc = pc /\ al'.new = al.new /\ DOMAIN al' = DOMAIN al
    BY <2>1 DEF LogInv, Fields
  <2>3. fs' = fs /\ al.pc \notin {"open", "lock", "ended"}
    BY <1>1, Zenon DEF A!Hup
  <2>4. CASE pc = al.pc
    BY <2>2, <2>3, <2>4 DEF LogInv, FilesOK, LogOwned
  <2>5. CASE al.pc \in {"poll", "wait"} /\ pc \in {"top", "turn"}
    BY <2>2, <2>3, <2>5, QuietStep DEF Quiet
  <2>6. QED
    BY <2>1, <2>4, <2>5
<1>2. CASE A!Running /\ A!Rotate
  <2>1. al' = al /\ fs' = [fs EXCEPT !.name = 0] /\ al.pc # "ended"
    BY <1>2 DEF A!Rotate, A!Running
  <2>2. QED
    BY <2>1 DEF LogInv, FilesOK, FileRec, LogOwned
<1>2a. CASE A!Running /\ A!RenameBack
  <2>1. PICK old \in 1 .. fs.made :
          fs' = [fs EXCEPT !.name = old, !.back = fs.back \/ (al.pc = "reopen" /\ old = fs.out)]
    BY <1>2a DEF A!RenameBack
  <2> DEFINE b == fs.back \/ (al.pc = "reopen" /\ old = fs.out)
  <2>2. al' = al /\ b \in BOOLEAN /\ old \in Nat /\ fs.made \in Nat /\ fs' = [fs EXCEPT !.name = old, !.back = b]
    BY <1>2a, <2>1 DEF A!RenameBack, LogInv, FilesOK, FileRec
  <2> HIDE DEF b
  <2>3. /\ fs' \in FileRec /\ fs'.name = old /\ fs'.back = b
        /\ fs'.made = fs.made /\ fs'.out = fs.out /\ fs'.mine = fs.mine /\ fs'.other = fs.other /\ fs'.bare = fs.bare
    BY <2>2 DEF LogInv, FilesOK, FileRec
  <2>4. (fs.back => b) /\ (al.pc = "reopen" => old # fs.out \/ b)
    BY DEF b
  <2>5. FilesOK'
    BY <2>2, <2>3 DEF LogInv, FilesOK
  <2>6. QED
    BY <2>2, <2>3, <2>4, <2>5 DEF LogInv, LogOwned
<1>3. CASE A!Running /\ A!OtherOpens
  <2>1. al' = al /\ fs' = [A!Opened EXCEPT !.other = A!Opened.name] /\ A!Opened.name \notin fs.mine
    BY <1>3 DEF A!OtherOpens
  <2>2. /\ fs' \in FileRec
        /\ fs'.out = fs.out /\ fs'.mine = fs.mine /\ fs'.other = A!Opened.name
        /\ fs'.back = fs.back /\ fs'.bare = fs.bare
        /\ fs'.name = A!Opened.name /\ fs'.made = A!Opened.made
        /\ A!Opened.name \in 1 .. A!Opened.made /\ fs.made <= A!Opened.made
        /\ fs.name # fs.out /\ fs.out # 0 => A!Opened.name # fs.out
    BY <2>1, OpenedOK DEF LogInv, FileRec
  <2>3. fs.out \in 0 .. fs.made /\ fs.made \in Nat /\ fs'.made \in Nat
    BY <2>2 DEF LogInv, FilesOK, FileRec
  <2>4. FilesOK'
    BY <2>1, <2>2, <2>3 DEF LogInv, FilesOK
  <2>5. al.pc = "relock" => al.new \in 1 .. fs'.made
    BY <2>2, <2>3 DEF LogInv
  <2>6. QED
    BY <2>1, <2>2, <2>4, <2>5 DEF LogInv, FilesOK, LogOwned
<1>4. CASE A!Running /\ A!OtherCloses
  <2>1. al' = al /\ fs' = [fs EXCEPT !.other = 0]
    BY <1>4 DEF A!OtherCloses
  <2>2. 0 \notin fs.mine
    BY DEF LogInv, FilesOK, LogOwned
  <2>3. QED
    BY <2>1, <2>2 DEF LogInv, FilesOK, FileRec, LogOwned
<1>5. QED
  BY <1>1, <1>2, <1>2a, <1>3, <1>4 DEF Outside

\* The invariant is kept by every step: the other programs have nothing to do with the log.
LEMMA LogNext == LogInv /\ [Next]_vars => LogInv'
<1> SUFFICES ASSUME LogInv, [Next]_vars PROVE LogInv'
  OBVIOUS
<1>1. CASE UNCHANGED access
  BY <1>1 DEF access, LogInv, FilesOK, LogOwned
<1>2. CASE Access
  BY <1>2, StartStep, ReopenStep, SloopStep, FloopStep DEF Access, A!AccessLogNext
<1>3. CASE LogChanges \/ Hup
  BY <1>3, OutsideStep DEF LogChanges, Hup
<1>3a. CASE LockingFails \/ KillAccess
  BY <1>3a, StartStep, ReopenStep, EndsStep DEF LockingFails, KillAccess, A!Killed
<1>4. CASE Timed \/ Tick \/ Rcall \/ KillRcall \/ CloseFront \/ \E r \in Reqs : Send(r) \/ KidEnds(r) \/ KidAnswers(r)
  BY <1>4, <1>1 DEF Timed, Tick, Rcall, KillRcall, CloseFront, Send, KidEnds, KidAnswers
<1>5. QED
  BY <1>1, <1>2, <1>3, <1>3a, <1>4 DEF Next, vars

\* accesslog has the lock on the file that it writes to and on no other, and nobody else has it,
\* whatever comes in between the stat(), the fopen() and the fcntl() of reopenlog(); but for a log
\* that could not be locked, and for the one race that reopenlog() names: that the open log is
\* given its name back between stat() and fopen().
THEOREM LogAlwaysOwned == Spec => []LogOwned
<1>1. LogInv => LogOwned
  BY DEF LogInv
<1>2. QED
  BY LogInit, LogNext, <1>1, PTL DEF Spec

-----------------------------------------------------------------------------
(* Where requests are.                                                     *)

\* A queue with its bound written as a condition, in which no request is twice.
Holds(q, r) == \E i \in DOMAIN q : q[i] = r
Queue == {q \in Seq(Reqs) : Len(q) <= Room /\ \A i, j \in DOMAIN q : q[i] = q[j] => i = j}
Sock == [q : Queue, snd : BOOLEAN, rcv : {"open", "shut", "gone"}]
Fate == [Reqs -> {"new", "with", "answered", "lost"}]

LEMMA Rooms == Room \in Nat /\ 0 < Room
  BY ChainAssumption

\* The operators of ReqSock are the same in all programs.
LEMMA Same ==
  /\ \A s : /\ T!Finish(s) = Finish(s) /\ T!Leave(s) = Leave(s) /\ T!Take(s) = Take(s) /\ T!Fits(s) = Fits(s)
            /\ A!Finish(s) = Finish(s) /\ A!Leave(s) = Leave(s) /\ A!Take(s) = Take(s) /\ A!Fits(s) = Fits(s)
            /\ R!Leave(s) = Leave(s) /\ R!Take(s) = Take(s)
            /\ T!Shut(s) = Shut(s)
  /\ \A s, r : T!Put(s, r) = Put(s, r) /\ A!Put(s, r) = Put(s, r)
  /\ \A f, rs : T!Lose(f, rs) = Lose(f, rs) /\ A!Lose(f, rs) = Lose(f, rs) /\ R!Lose(f, rs) = Lose(f, rs)
  BY DEF T!Finish, T!Leave, T!Take, T!Fits, T!Refuses, A!Finish, A!Leave, A!Take, A!Fits, A!Refuses, R!Leave, R!Take,
         T!Shut, T!Put, A!Put, T!Lose, A!Lose, R!Lose, Finish, Leave, Take, Fits, Refuses, Shut, Put, Lose
LEMMA SameQueued == \A s : T!Queued(s) = Queued(s) /\ A!Queued(s) = Queued(s) /\ R!Queued(s) = Queued(s)
  BY DEF T!Queued, A!Queued, R!Queued, T!ToSet, A!ToSet, R!ToSet, Queued, ToSet
LEMMA SameCount == \A s : R!Cardinality(s) = Cardinality(s)
  BY DEF R!Cardinality, Cardinality
LEMMA SameQuit ==
  \A s, i, o : /\ T!Quit(s, i, o) = [s EXCEPT ![i] = Leave(@), ![o] = Finish(@)]
               /\ A!Quit(s, i, o) = [s EXCEPT ![i] = Leave(@), ![o] = Finish(@)]
  BY DEF T!Quit, A!Quit, T!Leave, A!Leave, T!Finish, A!Finish, Leave, Finish

\* What the operators do to the queue of a socket.
LEMMA EmptyQueue == <<>> \in Queue /\ \A r : ~Holds(<<>>, r)
  <1>1. <<>> \in Seq(Reqs) /\ Len(<<>>) = 0 /\ DOMAIN <<>> = {}
    OBVIOUS
  <1> QED BY <1>1, Rooms DEF Queue, Holds

LEMMA PutDoes ==
  ASSUME NEW s \in Sock, NEW r \in Reqs, Fits(s), ~Holds(s.q, r)
  PROVE  Put(s, r) \in Sock /\ \A x \in Reqs : Holds(Put(s, r).q, x) <=> Holds(s.q, x) \/ x = r
  <1>1. /\ s.q \in Seq(Reqs) /\ Len(s.q) < Room /\ Len(s.q) \in Nat
        /\ \A i, j \in DOMAIN s.q : s.q[i] = s.q[j] => i = j
        /\ \A i \in DOMAIN s.q : s.q[i] # r
    BY DEF Sock, Queue, Fits, Holds
  <1> DEFINE z == Append(s.q, r)
  <1>2. /\ z \in Seq(Reqs) /\ Len(z) = Len(s.q) + 1
        /\ DOMAIN z = DOMAIN s.q \cup {Len(s.q) + 1} /\ z[Len(s.q) + 1] = r
        /\ \A i \in DOMAIN s.q : z[i] = s.q[i]
        /\ \A i \in DOMAIN s.q : i \in DOMAIN z
    BY <1>1
  <1>3. Put(s, r).q = z /\ (z \in Queue => Put(s, r) \in Sock)
    BY DEF Put, Sock
  <1> HIDE DEF z
  <1>3a. \A i, j \in DOMAIN z : z[i] = z[j] => i = j
    <2> SUFFICES ASSUME NEW i \in DOMAIN z, NEW j \in DOMAIN z, z[i] = z[j] PROVE i = j
      OBVIOUS
    <2>1. i \in DOMAIN s.q \/ i = Len(s.q) + 1
      BY <1>2
    <2>2. j \in DOMAIN s.q \/ j = Len(s.q) + 1
      BY <1>2
    <2> QED BY <1>1, <1>2, <2>1, <2>2
  <1>3b. Len(z) <= Room
    BY <1>1, <1>2, Rooms
  <1>4. z \in Queue
    BY <1>2, <1>3a, <1>3b DEF Queue
  <1>5. \A x \in Reqs : Holds(z, x) <=> Holds(s.q, x) \/ x = r
    BY <1>2 DEF Holds
  <1> QED BY <1>3, <1>4, <1>5

LEMMA TakeDoes ==
  ASSUME NEW s \in Sock, s.q # <<>>
  PROVE  /\ Take(s) \in Sock /\ Head(s.q) \in Reqs /\ Holds(s.q, Head(s.q))
         /\ \A x \in Reqs : Holds(Take(s).q, x) <=> Holds(s.q, x) /\ x # Head(s.q)
  <1>1. /\ s.q \in Seq(Reqs) /\ Len(s.q) <= Room /\ Len(s.q) \in Nat
        /\ \A i, j \in DOMAIN s.q : s.q[i] = s.q[j] => i = j
    BY DEF Sock, Queue
  <1> DEFINE z == Tail(s.q)
  <1>2. /\ z \in Seq(Reqs) /\ Len(z) = Len(s.q) - 1 /\ Head(s.q) \in Reqs /\ Head(s.q) = s.q[1] /\ 1 \in DOMAIN s.q
        /\ \A i \in DOMAIN z : i \in Nat /\ i # 0 /\ i + 1 \in DOMAIN s.q /\ z[i] = s.q[i + 1]
        /\ \A i \in DOMAIN s.q : i = 1 \/ (i - 1 \in DOMAIN z /\ s.q[i] = z[i - 1])
    BY <1>1
  <1>3. Take(s).q = z /\ (z \in Queue => Take(s) \in Sock)
    BY DEF Take, Sock
  <1> HIDE DEF z
  <1>4. \A i, j \in DOMAIN z : z[i] = z[j] => i = j
    <2> SUFFICES ASSUME NEW i \in DOMAIN z, NEW j \in DOMAIN z, z[i] = z[j] PROVE i = j
      OBVIOUS
    <2>1. s.q[i + 1] = s.q[j + 1] /\ i + 1 \in DOMAIN s.q /\ j + 1 \in DOMAIN s.q /\ i \in Nat /\ j \in Nat
      BY <1>2
    <2>2. i + 1 = j + 1
      BY <1>1, <2>1
    <2> QED BY <2>1, <2>2
  <1>5. z \in Queue
    BY <1>1, <1>2, <1>4, Rooms DEF Queue
  <1>6. ASSUME NEW x \in Reqs PROVE Holds(z, x) <=> Holds(s.q, x) /\ x # Head(s.q)
    <2>1. ASSUME Holds(z, x) PROVE Holds(s.q, x) /\ x # Head(s.q)
      <3>1. PICK i \in DOMAIN z : z[i] = x
        BY <2>1 DEF Holds
      <3>2. i + 1 \in DOMAIN s.q /\ s.q[i + 1] = x /\ i + 1 # 1
        BY <1>2, <3>1
      <3> QED BY <1>1, <1>2, <3>2 DEF Holds
    <2>2. ASSUME Holds(s.q, x), x # Head(s.q) PROVE Holds(z, x)
      <3>1. PICK i \in DOMAIN s.q : s.q[i] = x
        BY <2>2 DEF Holds
      <3>2. i - 1 \in DOMAIN z /\ z[i - 1] = x
        BY <1>2, <2>2, <3>1
      <3> QED BY <3>2 DEF Holds
    <2> QED BY <2>1, <2>2
  <1> QED BY <1>2, <1>3, <1>5, <1>6 DEF Holds

LEMMA OtherDo ==
  ASSUME NEW s \in Sock
  PROVE  /\ Leave(s) \in Sock /\ \A x : ~Holds(Leave(s).q, x)
         /\ Finish(s) \in Sock /\ Finish(s).q = s.q
         /\ Shut(s) \in Sock /\ Shut(s).q = s.q
         /\ \A x : x \in Queued(s) <=> Holds(s.q, x)
         /\ s.q = <<>> => \A x : ~Holds(s.q, x)
  <1>1. Leave(s) \in Sock /\ \A x : ~Holds(Leave(s).q, x)
    BY EmptyQueue DEF Leave, Sock
  <1>2. Finish(s) \in Sock /\ Finish(s).q = s.q
    BY DEF Finish, Sock
  <1>3. Shut(s) \in Sock /\ Shut(s).q = s.q
    BY DEF Shut, Sock
  <1>4. \A x : x \in Queued(s) <=> Holds(s.q, x)
    BY DEF Queued, ToSet, Holds
  <1> QED BY <1>1, <1>2, <1>3, <1>4, EmptyQueue

LEMMA LoseDoes ==
  ASSUME NEW f \in Fate, NEW rs
  PROVE  Lose(f, rs) \in Fate /\ \A r \in Reqs : Lose(f, rs)[r] = IF r \in rs THEN "lost" ELSE f[r]
  BY DEF Lose, Fate

-----------------------------------------------------------------------------
(* The inductive invariant.                                                *)

InFront(r) == Holds(sock["front"].q, r)
InBack(r) == Holds(sock["back"].q, r)
WithTimed(r) == tm.hand = r
WithAccess(r) == al.hand = r
WithRcall(r) == rc.hand = r /\ kids[r] = "none"
WithChild(r) == kids[r] = "runs" /\ fate[r] = "with"

\* Each program by itself.
TimedOK == /\ T!HtTimedTypeOK(Reqs)
           /\ tm.seen <= tm.age
           /\ tm.hand # None <=> tm.pc = "send"
           /\ first = "accesslog" => tm.pc = "ended"
AccessOK == /\ A!AccessLogTypeOK(Reqs)
            /\ fs.name <= fs.made
            /\ fs.name = 0 => fs.made < MaxFile
            /\ al.hand # None <=> al.pc = "send"
            /\ al.pc = "log" => al.owed # None
            /\ al.owed # None => al.pc \in {"log", "ended"} /\ ~al.filter
            /\ first = "httimed" => al.pc = "ended" /\ ~al.filter
RcallOK == /\ R!HtRcallTypeOK(Reqs)
           /\ rc.hand # None <=> rc.pc \in {"limit", "fork", "add"}
           /\ rc.pc \in {"limit", "fork"} => kids[rc.hand] = "none"
           /\ rc.pc = "add" => kids[rc.hand] \in {"runs", "zombie"}
           /\ rc.pc # "ended" => rc.running = R!Children \ (IF rc.pc = "add" THEN {rc.hand} ELSE {})
           /\ Limit > 0 => Cardinality(R!Children) <= Limit
           /\ rc.pc = "fork" => Limit = 0 \/ Cardinality(R!Children) < Limit
Common == /\ first \in {"httimed", "accesslog"}
          /\ sock \in [{"front", "back"} -> Sock]
          /\ fate \in Fate
          /\ events \in 0 .. MaxEvents

\* A request is with one of them, and just as long as it is under way.
Alone(r) ==
  /\ InFront(r) => ~InBack(r) /\ ~WithTimed(r) /\ ~WithAccess(r) /\ ~WithRcall(r) /\ ~WithChild(r)
  /\ WithTimed(r) => ~InBack(r) /\ ~WithAccess(r) /\ ~WithRcall(r) /\ ~WithChild(r)
  /\ WithAccess(r) => ~InBack(r) /\ ~WithRcall(r) /\ ~WithChild(r)
  /\ InBack(r) => ~WithRcall(r) /\ ~WithChild(r)
Apart == \A r \in Reqs : Alone(r)
Somewhere(r) == InFront(r) \/ InBack(r) \/ WithTimed(r) \/ WithAccess(r) \/ WithRcall(r) \/ WithChild(r)
UnderWay == \A r \in Reqs : fate[r] = "with" <=> Somewhere(r)

\* What is known of one that did not come to httrcall yet, or not to a child.
Ahead(r) == InFront(r) \/ WithTimed(r) \/ WithAccess(r) \/ fate[r] = "new"
Passed(r) == InBack(r) \/ rc.hand = r \/ kids[r] # "none" \/ fate[r] = "answered"
Records == \A r \in Reqs :
  /\ Ahead(r) => logged[r] = 0 /\ fr[r] = "none" /\ kids[r] = "none"
  /\ InBack(r) => kids[r] = "none"
  /\ logged[r] \in {0, 1}
  /\ al.filter => (logged[r] = 1 <=> fr[r] = "over")
  /\ ~al.filter => fr[r] = "none"
  /\ al.owed = r => logged[r] = 0 /\ ~Ahead(r)
  /\ first = "accesslog" /\ ~al.filter /\ Passed(r) => (logged[r] = 1 <=> al.owed # r)

Carrying == Apart /\ UnderWay /\ Records
Whole == Common /\ TimedOK /\ AccessOK /\ RcallOK /\ Carrying

-----------------------------------------------------------------------------
(* How requests move.                                                      *)

Keeps(r) == /\ InFront(r)' <=> InFront(r)
            /\ InBack(r)' <=> InBack(r)
            /\ WithTimed(r)' <=> WithTimed(r)
            /\ WithAccess(r)' <=> WithAccess(r)
            /\ WithRcall(r)' <=> WithRcall(r)
            /\ WithChild(r)' <=> WithChild(r)

LEMMA Unmoved ==
  ASSUME Apart, UnderWay, \A r \in Reqs : fate'[r] = fate[r] /\ Keeps(r)
  PROVE  Apart' /\ UnderWay'
  BY DEF Apart, Alone, UnderWay, Somewhere, Keeps

LEMMA Moved ==
  ASSUME Apart, UnderWay, NEW x \in Reqs, Somewhere(x), Somewhere(x)', Alone(x)',
         \A r \in Reqs : fate'[r] = fate[r],
         \A r \in Reqs : r # x => Keeps(r)
  PROVE  Apart' /\ UnderWay'
  <1>1. ASSUME NEW r \in Reqs PROVE Alone(r)' /\ (fate'[r] = "with" <=> Somewhere(r)')
    <2>1. CASE r = x
      BY <2>1 DEF UnderWay
    <2>2. CASE r # x
      BY <2>2 DEF Apart, Alone, UnderWay, Somewhere, Keeps
    <2> QED BY <2>1, <2>2
  <1> QED BY <1>1 DEF Apart, UnderWay

LEMMA Removed ==
  ASSUME Apart, UnderWay, NEW gone,
         \A r \in Reqs : IF r \in gone THEN fate'[r] # "with" /\ ~Somewhere(r)' ELSE fate'[r] = fate[r] /\ Keeps(r)
  PROVE  Apart' /\ UnderWay'
  BY DEF Apart, Alone, UnderWay, Somewhere, Keeps

\* What the queues and hands are, tells where requests are.
LEMMA KeptBy ==
  /\ sock'["front"].q = sock["front"].q => \A r : InFront(r)' <=> InFront(r)
  /\ sock'["back"].q = sock["back"].q => \A r : InBack(r)' <=> InBack(r)
  /\ tm'.hand = tm.hand => \A r : WithTimed(r)' <=> WithTimed(r)
  /\ al'.hand = al.hand => \A r : WithAccess(r)' <=> WithAccess(r)
  /\ rc'.hand = rc.hand /\ kids' = kids => \A r : WithRcall(r)' <=> WithRcall(r)
  /\ kids' = kids => \A r : fate'[r] = fate[r] => (WithChild(r)' <=> WithChild(r))
  BY DEF InFront, InBack, WithTimed, WithAccess, WithRcall, WithChild

\* The steps that neither take nor give nor lose a request.
LEMMA StaysPut ==
  ASSUME Whole, UNCHANGED <<first, fate, logged, fr, kids>>, events' \in 0 .. MaxEvents,
         tm'.hand = tm.hand, al'.hand = al.hand, al'.filter = al.filter, al'.owed = al.owed, rc'.hand = rc.hand,
         sock' \in [{"front", "back"} -> Sock],
         sock'["front"].q = sock["front"].q, sock'["back"].q = sock["back"].q
  PROVE  Common' /\ Carrying'
  <1>1. Common'
    BY DEF Whole, Common
  <1>2. \A r \in Reqs : fate'[r] = fate[r] /\ Keeps(r)
    BY KeptBy DEF Keeps
  <1>3. Apart' /\ UnderWay'
    BY <1>2, Unmoved DEF Whole, Carrying
  <1>4. Records'
    BY <1>2 DEF Whole, Carrying, Records, Keeps, Ahead, Passed
  <1> QED BY <1>1, <1>3, <1>4 DEF Carrying

-----------------------------------------------------------------------------
(* httimed.                                                                *)

Timer == [pc : {"loop", "poll", "recv", "send", "idle", "ended"}, age : 0 .. 2 * Timeout + 2, left : -1 .. Timeout + 1,
          seen : 0 .. 2 * Timeout + 2, off : BOOLEAN, in : BOOLEAN, hup : BOOLEAN, hand : Reqs \cup {None}]
InOrder(t) == /\ t \in Timer
              /\ t.seen <= t.age
              /\ t.hand # None <=> t.pc = "send"
LEMMA TimedNow == TimedOK <=> InOrder(tm) /\ (first = "accesslog" => tm.pc = "ended")
  BY DEF TimedOK, InOrder, Timer, T!HtTimedTypeOK, T!Late, T!Forever
LEMMA TimedThen == InOrder(tm') /\ (first' = "accesslog" => tm'.pc = "ended") => TimedOK'
  BY DEF TimedOK, InOrder, Timer, T!HtTimedTypeOK, T!Late, T!Forever

\* The changes of its variables, one by one.
LEMMA TimerEnds ==
  ASSUME NEW t \in Timer
  PROVE  LET n == [t EXCEPT !.pc = "ended", !.hand = None, !.age = 0, !.seen = 0, !.in = FALSE, !.hup = FALSE]
         IN  InOrder(n) /\ n.pc = "ended" /\ n.hand = None
  <1> DEFINE n == [t EXCEPT !.pc = "ended", !.hand = None, !.age = 0, !.seen = 0, !.in = FALSE, !.hup = FALSE]
  <1>1. n.pc = "ended" /\ n.hand = None /\ n.age = 0 /\ n.seen = 0
    BY DEF Timer
  <1>2. 0 \in 0 .. 2 * Timeout + 2
    BY ChainAssumption
  <1>3. n \in Timer
    BY <1>2 DEF Timer
  <1> QED BY <1>1, <1>3 DEF InOrder

LEMMA TimerPolls ==
  ASSUME NEW t, InOrder(t), t.pc # "send", NEW w \in -1 .. Timeout + 1
  PROVE  InOrder([t EXCEPT !.pc = "poll", !.left = w])
  BY DEF InOrder, Timer

LEMMA TimerPolled ==
  ASSUME NEW t, InOrder(t), t.pc # "send", NEW i \in BOOLEAN, NEW h \in BOOLEAN
  PROVE  InOrder([t EXCEPT !.pc = "recv", !.in = i, !.hup = h, !.seen = t.age, !.left = 0])
  <1> DEFINE n == [t EXCEPT !.pc = "recv", !.in = i, !.hup = h, !.seen = t.age, !.left = 0]
  <1>1. t \in Timer /\ t.age \in 0 .. 2 * Timeout + 2 /\ Timeout \in Nat
    BY ChainAssumption DEF InOrder, Timer
  <1>2. n.pc = "recv" /\ n.hand = t.hand /\ n.age = t.age /\ n.seen = t.age
    BY <1>1 DEF Timer
  <1>3. 0 \in -1 .. Timeout + 1
    BY <1>1
  <1>4. n \in Timer
    BY <1>1, <1>3 DEF Timer
  <1> QED BY <1>1, <1>2, <1>4 DEF InOrder

LEMMA TimerTicks ==
  ASSUME NEW t, InOrder(t)
  PROVE  InOrder([t EXCEPT !.age = IF @ < 2 * Timeout + 2 THEN @ + 1 ELSE @, !.left = IF @ > 0 THEN @ - 1 ELSE @])
  <1> DEFINE a == IF t.age < 2 * Timeout + 2 THEN t.age + 1 ELSE t.age
             l == IF t.left > 0 THEN t.left - 1 ELSE t.left
             n == [t EXCEPT !.age = a, !.left = l]
  <1>1. /\ t \in Timer /\ t.age \in 0 .. 2 * Timeout + 2 /\ t.seen \in 0 .. 2 * Timeout + 2 /\ t.left \in -1 .. Timeout + 1
        /\ Timeout \in Nat /\ t.seen <= t.age
    BY ChainAssumption DEF InOrder, Timer
  <1>2. a \in 0 .. 2 * Timeout + 2 /\ l \in -1 .. Timeout + 1 /\ t.seen <= a
    BY <1>1
  <1> HIDE DEF a, l
  <1>3. n.pc = t.pc /\ n.hand = t.hand /\ n.age = a /\ n.seen = t.seen
    BY <1>1 DEF Timer
  <1>4. n \in Timer
    BY <1>1, <1>2 DEF Timer
  <1>5. InOrder(n)
    BY <1>2, <1>3, <1>4 DEF InOrder
  <1> QED BY <1>5 DEF a, l

LEMMA TimerLooks ==
  ASSUME NEW t, InOrder(t), t.pc # "send", NEW o \in BOOLEAN
  PROVE  InOrder([t EXCEPT !.pc = "loop", !.off = o, !.age = IF o THEN 0 ELSE @ - t.seen, !.seen = 0,
                           !.in = FALSE, !.hup = FALSE])
  <1> DEFINE a == IF o THEN 0 ELSE t.age - t.seen
             n == [t EXCEPT !.pc = "loop", !.off = o, !.age = a, !.seen = 0, !.in = FALSE, !.hup = FALSE]
  <1>1. /\ t \in Timer /\ t.age \in 0 .. 2 * Timeout + 2 /\ t.seen \in 0 .. 2 * Timeout + 2
        /\ Timeout \in Nat /\ t.seen <= t.age
    BY ChainAssumption DEF InOrder, Timer
  <1>2. a \in 0 .. 2 * Timeout + 2 /\ 0 \in 0 .. 2 * Timeout + 2 /\ 0 <= a
    BY <1>1
  <1> HIDE DEF a
  <1>3. n.pc = "loop" /\ n.hand = t.hand /\ n.age = a /\ n.seen = 0
    BY <1>1 DEF Timer
  <1>4. n \in Timer
    BY <1>1, <1>2 DEF Timer
  <1>5. InOrder(n)
    BY <1>2, <1>3, <1>4 DEF InOrder
  <1> QED BY <1>5 DEF a

LEMMA TimerTakes ==
  ASSUME NEW t, InOrder(t), NEW x \in Reqs
  PROVE  LET n == [t EXCEPT !.pc = "send", !.hand = x] IN InOrder(n) /\ n.hand = x /\ n.pc = "send"
  BY ChainAssumption DEF InOrder, Timer

LEMMA TimerGives ==
  ASSUME NEW t, InOrder(t)
  PROVE  LET n == [t EXCEPT !.pc = "idle", !.hand = None] IN InOrder(n) /\ n.hand = None
  BY DEF InOrder, Timer

LEMMA TimedEndsDoes ==
  ASSUME Whole, tm.pc # "ended", T!TimedEnds({tm.hand} \ {None}), UNCHANGED <<first, access, rcall, events>>
  PROVE  Common' /\ Carrying' /\ TimedOK'
  <1>0. /\ InOrder(tm) /\ sock \in [{"front", "back"} -> Sock] /\ fate \in Fate /\ None \notin Reqs
    BY TimedNow, ChainAssumption DEF Whole, Common
  <1>1. /\ tm' = [tm EXCEPT !.pc = "ended", !.hand = None, !.age = 0, !.seen = 0, !.in = FALSE, !.hup = FALSE]
        /\ sock' = [sock EXCEPT !["front"] = Leave(@), !["back"] = Finish(@)]
        /\ fate' = Lose(fate, ({tm.hand} \ {None}) \cup Queued(sock["front"]))
    BY Same, SameQuit, SameQueued DEF T!TimedEnds
  <1>2. InOrder(tm') /\ tm'.pc = "ended" /\ tm'.hand = None
    BY <1>0, <1>1, TimerEnds, Zenon DEF InOrder
  <1>3. TimedOK'
    BY <1>2, TimedThen
  <1>4. /\ sock' \in [{"front", "back"} -> Sock] /\ sock'["back"].q = sock["back"].q
        /\ \A x : ~InFront(x)'
        /\ \A x : x \in Queued(sock["front"]) <=> InFront(x)
    BY <1>0, <1>1, OtherDo DEF InFront
  <1>5. /\ fate' \in Fate
        /\ \A r \in Reqs : fate'[r] = IF WithTimed(r) \/ InFront(r) THEN "lost" ELSE fate[r]
    BY <1>0, <1>1, <1>4, LoseDoes DEF WithTimed
  <1>6. \A r \in Reqs : ~WithTimed(r)'
    BY <1>0, <1>2 DEF WithTimed
  <1>7. \A r \in Reqs : /\ WithAccess(r)' <=> WithAccess(r)
                        /\ InBack(r)' <=> InBack(r)
                        /\ WithRcall(r)' <=> WithRcall(r)
                        /\ ~WithTimed(r) /\ ~InFront(r) => (WithChild(r)' <=> WithChild(r))
    BY <1>4, <1>5, KeptBy DEF access, rcall
  <1>8. \A r \in Reqs : fate'[r] = "lost" => ~WithChild(r)'
    BY DEF WithChild
  <1>9. Apart' /\ UnderWay'
    <2> DEFINE gone == {r \in Reqs : WithTimed(r) \/ InFront(r)}
    <2>1. \A r \in Reqs : IF r \in gone THEN fate'[r] # "with" /\ ~Somewhere(r)' ELSE fate'[r] = fate[r] /\ Keeps(r)
      <3> SUFFICES ASSUME NEW r \in Reqs
                   PROVE  IF r \in gone THEN fate'[r] # "with" /\ ~Somewhere(r)' ELSE fate'[r] = fate[r] /\ Keeps(r)
        OBVIOUS
      <3>1. CASE WithTimed(r) \/ InFront(r)
        <4>1. ~WithAccess(r) /\ ~InBack(r) /\ ~WithRcall(r)
          BY <3>1 DEF Whole, Carrying, Apart, Alone
        <4> QED BY <3>1, <4>1, <1>4, <1>5, <1>6, <1>7, <1>8 DEF Somewhere
      <3>2. CASE ~(WithTimed(r) \/ InFront(r))
        BY <3>2, <1>4, <1>5, <1>6, <1>7 DEF Keeps
      <3> QED BY <3>1, <3>2
    <2> HIDE DEF gone
    <2> QED BY <2>1, Removed DEF Whole, Carrying
  <1>10. Records'
    BY <1>4, <1>5, <1>6, <1>7 DEF Whole, Carrying, Records, Ahead, Passed, access, rcall
  <1> QED BY <1>3, <1>4, <1>5, <1>9, <1>10 DEF Common, Whole, Carrying

LEMMA TimedNext ==
  ASSUME Whole, T!HtTimedNext \/ T!Tick, UNCHANGED <<first, access, rcall, events>>
  PROVE  Common' /\ Carrying' /\ TimedOK'
  <1>0. /\ InOrder(tm) /\ tm \in Timer /\ (tm.hand # None <=> tm.pc = "send")
        /\ (first = "accesslog" => tm.pc = "ended") /\ first \in {"httimed", "accesslog"} /\ first' = first
        /\ sock \in [{"front", "back"} -> Sock] /\ fate \in Fate
        /\ Timeout \in Nat /\ None \notin Reqs
        /\ UNCHANGED <<logged, fr, kids>> /\ al' = al /\ rc' = rc /\ events' \in 0 .. MaxEvents
    BY TimedNow, ChainAssumption DEF Whole, Common, InOrder, access, rcall
  <1>f. tm.pc # "ended" => first = "httimed" /\ first # "accesslog"
    BY <1>0
  <1>1. CASE T!StartPoll \/ T!Polled \/ T!NoInput \/ T!Tick
    <2>1. InOrder(tm') /\ tm'.hand = tm.hand /\ tm.pc # "ended"
      <3>1. CASE T!StartPoll
        <4>1. T!Wait \in -1 .. Timeout + 1
          BY <1>0 DEF T!Wait, T!Forever, Timer
        <4>2. tm.pc = "loop" /\ tm' = [tm EXCEPT !.pc = "poll", !.left = T!Wait]
          BY <3>1 DEF T!StartPoll
        <4>3. tm'.hand = tm.hand
          BY <1>0, <4>2 DEF Timer
        <4> QED BY <1>0, <4>1, <4>2, <4>3, TimerPolls, Zenon
      <3>2. CASE T!Polled
        <4>1. T!Readable(sock["front"]) \in BOOLEAN /\ T!Refuses(sock["back"]) \in BOOLEAN
          BY DEF T!Readable, T!Refuses, T!AtEnd
        <4>2. /\ tm.pc = "poll"
              /\ tm' = [tm EXCEPT !.pc = "recv", !.in = T!Readable(sock["front"]), !.hup = T!Refuses(sock["back"]),
                                  !.seen = tm.age, !.left = 0]
          BY <3>2 DEF T!Polled
        <4>3. tm'.hand = tm.hand
          BY <1>0, <4>2 DEF Timer
        <4> QED BY <1>0, <4>1, <4>2, <4>3, TimerPolled, Zenon
      <3>3. CASE T!NoInput
        BY <1>0, <3>3 DEF T!NoInput, InOrder, Timer
      <3>4. CASE T!Tick
        <4>1. /\ tm.pc # "ended"
              /\ tm' = [tm EXCEPT !.age = IF @ < 2 * Timeout + 2 THEN @ + 1 ELSE @, !.left = IF @ > 0 THEN @ - 1 ELSE @]
          BY <3>4 DEF T!Tick, T!Late
        <4>2. tm'.hand = tm.hand
          BY <1>0, <4>1 DEF Timer
        <4> QED BY <1>0, <4>1, <4>2, TimerTicks, Zenon
      <3> QED BY <1>1, <3>1, <3>2, <3>3, <3>4
    <2>2. UNCHANGED <<sock, fate>>
      BY <1>1 DEF T!StartPoll, T!Polled, T!NoInput, T!Tick
    <2>3. TimedOK'
      BY <1>0, <1>f, <2>1, TimedThen
    <2> QED BY <1>0, <2>1, <2>2, <2>3, StaysPut
  <1>2. CASE T!CheckIdle
    <2>1. InOrder(tm') /\ tm'.hand = tm.hand /\ tm.pc # "ended"
      <3>1. T!IsIdle \in BOOLEAN
        BY <1>0 DEF T!IsIdle, Timer
      <3>2. /\ tm.pc = "idle"
            /\ tm' = [tm EXCEPT !.pc = "loop", !.off = T!IsIdle, !.age = IF T!IsIdle THEN 0 ELSE @ - tm.seen, !.seen = 0,
                                !.in = FALSE, !.hup = FALSE]
        BY <1>2 DEF T!CheckIdle
      <3>3. tm'.hand = tm.hand
        BY <1>0, <3>2 DEF Timer
      <3> QED BY <1>0, <3>1, <3>2, <3>3, TimerLooks, Zenon
    <2>2. fate' = fate /\ (sock' = sock \/ sock' = [sock EXCEPT !["front"] = Shut(@)])
      BY <1>2, Same DEF T!CheckIdle
    <2>3. /\ sock' \in [{"front", "back"} -> Sock]
          /\ sock'["front"].q = sock["front"].q /\ sock'["back"].q = sock["back"].q
      BY <1>0, <2>2, OtherDo
    <2>4. TimedOK'
      BY <1>0, <1>f, <2>1, TimedThen
    <2> QED BY <1>0, <2>1, <2>2, <2>3, <2>4, StaysPut
  <1>3. CASE T!InputOver \/ T!CannotPass
    <2>1. T!TimedEnds({tm.hand} \ {None}) /\ tm.pc # "ended"
      <3>1. CASE T!InputOver
        <4>1. tm.hand = None /\ tm.pc # "ended"
          BY <1>0, <3>1 DEF T!InputOver
        <4>2. {tm.hand} \ {None} = {}
          BY <4>1
        <4> QED BY <3>1, <4>1, <4>2 DEF T!InputOver
      <3>2. CASE T!CannotPass
        <4>1. tm.hand # None /\ tm.pc # "ended"
          BY <1>0, <3>2 DEF T!CannotPass
        <4>2. {tm.hand} \ {None} = {tm.hand}
          BY <4>1
        <4> QED BY <3>2, <4>1, <4>2 DEF T!CannotPass
      <3> QED BY <1>3, <3>1, <3>2
    <2> QED BY <2>1, TimedEndsDoes
  <1>4. CASE T!TakeReq
    <2>1. /\ tm.pc = "recv" /\ tm.hand = None /\ sock["front"].q # <<>> /\ fate' = fate
          /\ tm' = [tm EXCEPT !.pc = "send", !.hand = Head(sock["front"].q)]
          /\ sock' = [sock EXCEPT !["front"] = Take(@)]
      BY <1>0, <1>4, Same DEF T!TakeReq
    <2>2. /\ Take(sock["front"]) \in Sock /\ Head(sock["front"].q) \in Reqs /\ InFront(Head(sock["front"].q))
          /\ \A x \in Reqs : Holds(Take(sock["front"]).q, x) <=> InFront(x) /\ x # Head(sock["front"].q)
      BY <1>0, <2>1, TakeDoes DEF InFront
    <2>3. PICK x \in Reqs : x = Head(sock["front"].q)
      BY <2>2
    <2>4. /\ sock' \in [{"front", "back"} -> Sock] /\ sock'["back"].q = sock["back"].q
          /\ \A r \in Reqs : InFront(r)' <=> InFront(r) /\ r # x
      BY <1>0, <2>1, <2>2, <2>3 DEF InFront
    <2>5. InOrder(tm') /\ tm'.hand = x
      BY <1>0, <2>1, <2>3, TimerTakes, Zenon
    <2>6. TimedOK'
      BY <1>0, <1>f, <2>1, <2>5, TimedThen
    <2>7. \A r \in Reqs : WithTimed(r)' <=> r = x
      BY <2>5 DEF WithTimed
    <2>8. \A r \in Reqs : ~WithTimed(r)
      BY <1>0, <2>1 DEF WithTimed
    <2>9. \A r \in Reqs : /\ WithAccess(r)' <=> WithAccess(r)
                          /\ InBack(r)' <=> InBack(r)
                          /\ WithRcall(r)' <=> WithRcall(r)
                          /\ WithChild(r)' <=> WithChild(r)
      BY <2>1, <2>4, KeptBy DEF access, rcall
    <2>10. InFront(x) /\ Alone(x)
      BY <2>2, <2>3 DEF Whole, Carrying, Apart
    <2>11. Apart' /\ UnderWay'
      <3>1. Somewhere(x) /\ Somewhere(x)' /\ Alone(x)'
        BY <2>4, <2>7, <2>9, <2>10 DEF Somewhere, Alone
      <3>2. \A r \in Reqs : r # x => Keeps(r)
        BY <2>4, <2>7, <2>8, <2>9 DEF Keeps
      <3> QED BY <2>1, <3>1, <3>2, Moved DEF Whole, Carrying
    <2>12. Records'
      BY <2>1, <2>4, <2>7, <2>9, <2>10 DEF Whole, Carrying, Records, Ahead, Passed, access, rcall
    <2> QED BY <1>0, <2>1, <2>4, <2>6, <2>11, <2>12 DEF Common, Whole, Carrying
  <1>5. CASE T!PassOn
    <2>1. /\ tm.pc = "send" /\ Fits(sock["back"]) /\ fate' = fate
          /\ tm' = [tm EXCEPT !.pc = "idle", !.hand = None]
          /\ sock' = [sock EXCEPT !["back"] = Put(@, tm.hand)]
      BY <1>5, Same DEF T!PassOn
    <2>2. PICK x \in Reqs : x = tm.hand
      BY <1>0, <2>1 DEF Timer
    <2>3. WithTimed(x) /\ Alone(x) /\ \A r \in Reqs : WithTimed(r) => r = x
      BY <2>2 DEF WithTimed, Whole, Carrying, Apart
    <2>4. ~InBack(x) /\ ~WithAccess(x) /\ ~WithRcall(x) /\ ~WithChild(x) /\ ~InFront(x)
      BY <2>3 DEF Alone
    <2>5. /\ Put(sock["back"], x) \in Sock
          /\ \A r \in Reqs : Holds(Put(sock["back"], x).q, r) <=> InBack(r) \/ r = x
      BY <1>0, <2>1, <2>4, PutDoes DEF InBack
    <2>6. /\ sock' \in [{"front", "back"} -> Sock] /\ sock'["front"].q = sock["front"].q
          /\ \A r \in Reqs : InBack(r)' <=> InBack(r) \/ r = x
      BY <1>0, <2>1, <2>2, <2>5 DEF InBack
    <2>7. InOrder(tm') /\ tm'.hand = None
      BY <1>0, <2>1, TimerGives, Zenon
    <2>8. TimedOK'
      BY <1>0, <1>f, <2>1, <2>7, TimedThen
    <2>9. \A r \in Reqs : ~WithTimed(r)'
      BY <1>0, <2>7 DEF WithTimed
    <2>10. \A r \in Reqs : /\ WithAccess(r)' <=> WithAccess(r)
                           /\ InFront(r)' <=> InFront(r)
                           /\ WithRcall(r)' <=> WithRcall(r)
                           /\ WithChild(r)' <=> WithChild(r)
      BY <2>1, <2>6, KeptBy DEF access, rcall
    <2>11. Apart' /\ UnderWay'
      <3>1. Somewhere(x) /\ Somewhere(x)' /\ Alone(x)'
        BY <2>3, <2>4, <2>6, <2>9, <2>10 DEF Somewhere, Alone
      <3>2. \A r \in Reqs : r # x => Keeps(r)
        BY <2>3, <2>6, <2>9, <2>10 DEF Keeps
      <3> QED BY <2>1, <3>1, <3>2, Moved DEF Whole, Carrying
    <2>12. first = "httimed" /\ ~al.filter
      BY <1>0, <2>1 DEF Whole, AccessOK
    <2>13. Records'
      BY <2>1, <2>3, <2>6, <2>9, <2>10, <2>12 DEF Whole, Carrying, Records, Ahead, Passed, access, rcall
    <2> QED BY <1>0, <2>1, <2>6, <2>8, <2>11, <2>13 DEF Common, Whole, Carrying
  <1> QED BY <1>1, <1>2, <1>3, <1>4, <1>5 DEF T!HtTimedNext

-----------------------------------------------------------------------------
(* accesslog.                                                              *)

Logger == [filter : BOOLEAN, hand : Reqs \cup {None}, in : BOOLEAN, hup : BOOLEAN, reopen : BOOLEAN,
           exit : 0 .. 2, watch : BOOLEAN, new : 0 .. MaxFile, owed : Reqs \cup {None}, missed : BOOLEAN,
           pc : {"open", "lock", "top", "stat", "reopen", "relock", "reopened", "poll", "recv", "send", "log", "hup",
                 "ioloop", "turn", "wait", "events", "ended"}]
Holding(a) == /\ a \in Logger
              /\ a.hand # None <=> a.pc = "send"
              /\ a.pc = "log" => a.owed # None
              /\ a.owed # None => a.pc \in {"log", "ended"} /\ ~a.filter
FileSet == [name : 0 .. MaxFile, made : 0 .. MaxFile, out : 0 .. MaxFile, mine : SUBSET (1 .. MaxFile), other : 0 .. MaxFile,
            back : BOOLEAN, bare : BOOLEAN]
Numbered(f) == /\ f \in FileSet
               /\ f.name <= f.made
               /\ f.name = 0 => f.made < MaxFile
RecordsTyped == logged \in [Reqs -> 0 .. 2] /\ fr \in [Reqs -> {"none", "body", "resp", "back", "over"}]

LEMMA AccessNow == AccessOK <=> /\ Holding(al) /\ Numbered(fs) /\ RecordsTyped
                                /\ first = "httimed" => al.pc = "ended" /\ ~al.filter
  BY DEF AccessOK, Holding, Numbered, RecordsTyped, Logger, FileSet, A!AccessLogTypeOK, A!Files
LEMMA AccessThen == /\ Holding(al') /\ Numbered(fs') /\ RecordsTyped'
                    /\ first' = "httimed" => al'.pc = "ended" /\ ~al'.filter
                    => AccessOK'
  BY DEF AccessOK, Holding, Numbered, RecordsTyped, Logger, FileSet, A!AccessLogTypeOK, A!Files

\* The changes of its variables.
LEMMA LoggerEnds ==
  ASSUME NEW a, Holding(a)
  PROVE  LET n == [a EXCEPT !.pc = "ended", !.hand = None, !.in = FALSE, !.hup = FALSE, !.exit = 0, !.new = 0,
                            !.reopen = FALSE]
         IN  Holding(n) /\ n.pc = "ended" /\ n.hand = None /\ n.filter = a.filter /\ n.owed = a.owed
  <1> DEFINE n == [a EXCEPT !.pc = "ended", !.hand = None, !.in = FALSE, !.hup = FALSE, !.exit = 0, !.new = 0,
                            !.reopen = FALSE]
  <1>1. 0 \in 0 .. 2 /\ 0 \in 0 .. MaxFile
    BY ChainAssumption
  <1>2. n.pc = "ended" /\ n.hand = None /\ n.filter = a.filter /\ n.owed = a.owed
    BY DEF Holding, Logger
  <1>3. n \in Logger
    BY <1>1 DEF Holding, Logger
  <1> QED BY <1>2, <1>3 DEF Holding

LEMMA LoggerGoes ==
  ASSUME NEW a, Holding(a), a.pc \notin {"send", "log", "ended"},
         NEW p \in {"open", "lock", "top", "stat", "reopen", "relock", "reopened", "poll", "recv", "hup",
                    "ioloop", "turn", "wait", "events", "ended"}
  PROVE  /\ Holding([a EXCEPT !.pc = p])
         /\ \A w \in 0 .. MaxFile : Holding([a EXCEPT !.pc = p, !.new = w])
         /\ Holding([a EXCEPT !.pc = p, !.reopen = FALSE])
         /\ Holding([a EXCEPT !.pc = p, !.in = FALSE])
         /\ \A e \in 0 .. 2 : Holding([a EXCEPT !.pc = p, !.exit = e])
         /\ \A e \in 0 .. 2 : Holding([a EXCEPT !.pc = p, !.watch = FALSE, !.exit = e])
         /\ \A i, h \in BOOLEAN : Holding([a EXCEPT !.pc = p, !.in = i, !.hup = h])
  <1>1. Holding([a EXCEPT !.pc = p])
    BY DEF Holding, Logger
  <1>2. \A w \in 0 .. MaxFile : Holding([a EXCEPT !.pc = p, !.new = w])
    BY DEF Holding, Logger
  <1>3. Holding([a EXCEPT !.pc = p, !.reopen = FALSE])
    BY DEF Holding, Logger
  <1>4. Holding([a EXCEPT !.pc = p, !.in = FALSE])
    BY DEF Holding, Logger
  <1>5. \A e \in 0 .. 2 : Holding([a EXCEPT !.pc = p, !.exit = e])
    BY DEF Holding, Logger
  <1>6. \A e \in 0 .. 2 : Holding([a EXCEPT !.pc = p, !.watch = FALSE, !.exit = e])
    BY DEF Holding, Logger
  <1>7. \A i, h \in BOOLEAN : Holding([a EXCEPT !.pc = p, !.in = i, !.hup = h])
    BY ZenonT(60) DEF Holding, Logger
  <1> QED BY <1>1, <1>2, <1>3, <1>4, <1>5, <1>6, <1>7, Zenon

LEMMA LoggerTakes ==
  ASSUME NEW a, Holding(a), NEW x \in Reqs, a.pc \notin {"log", "ended"}
  PROVE  LET n == [a EXCEPT !.pc = "send", !.hand = x]
         IN  Holding(n) /\ n.hand = x /\ n.filter = a.filter /\ n.owed = a.owed /\ n.pc = "send"
  BY ChainAssumption DEF Holding, Logger

LEMMA LoggerGives ==
  ASSUME NEW a, Holding(a), a.pc = "send"
  PROVE  LET n == [a EXCEPT !.pc = "events", !.hand = None]
         IN  Holding(n) /\ n.hand = None /\ n.filter = a.filter /\ n.owed = a.owed /\ a.owed = None
  BY DEF Holding, Logger

LEMMA LoggerOwes ==
  ASSUME NEW a, Holding(a), a.pc = "send", ~a.filter
  PROVE  LET n == [a EXCEPT !.pc = "log", !.hand = None, !.owed = a.hand]
         IN  Holding(n) /\ n.hand = None /\ n.filter = a.filter /\ n.owed = a.hand /\ a.owed = None
  BY DEF Holding, Logger

LEMMA LoggerWrites ==
  ASSUME NEW a, Holding(a), a.pc = "log"
  PROVE  LET n == [a EXCEPT !.pc = "hup", !.owed = None]
         IN  /\ Holding(n) /\ n.hand = a.hand /\ n.filter = a.filter /\ n.owed = None
             /\ a.owed \in Reqs /\ ~a.filter /\ a.hand = None
  BY DEF Holding, Logger

LEMMA LoggerHup ==
  ASSUME NEW a, Holding(a), NEW p, p = a.pc \/ (a.pc \in {"poll", "wait"} /\ p \in {"top", "turn"})
  PROVE  /\ Holding([a EXCEPT !.pc = p, !.exit = 2, !.missed = @ \/ a.exit = 1])
         /\ Holding([a EXCEPT !.pc = p, !.reopen = TRUE])
  <1>1. (a.missed \/ a.exit = 1) \in BOOLEAN /\ 2 \in 0 .. 2
    BY DEF Holding, Logger
  <1> DEFINE m == a.missed \/ a.exit = 1
  <1> HIDE DEF m
  <1>2. Holding([a EXCEPT !.pc = p, !.exit = 2, !.missed = m])
    BY <1>1 DEF Holding, Logger, m
  <1>3. Holding([a EXCEPT !.pc = p, !.reopen = TRUE])
    BY DEF Holding, Logger
  <1> QED BY <1>2, <1>3 DEF m

LEMMA FilesOpened ==
  ASSUME Numbered(fs)
  PROVE  /\ Numbered(A!Opened) /\ A!Opened.name \in 0 .. MaxFile
         /\ \A x \in 0 .. MaxFile : /\ Numbered([A!Opened EXCEPT !.out = x])
                                    /\ Numbered([A!Opened EXCEPT !.other = x])
  <1>1. fs.made \in 0 .. MaxFile /\ fs.name \in 0 .. MaxFile /\ MaxFile \in Nat
    BY ChainAssumption DEF Numbered, FileSet
  <1>2. Numbered(A!Opened)
    <2>1. CASE fs.name = 0
      <3>1. fs.made + 1 \in 0 .. MaxFile /\ fs.made + 1 # 0 /\ fs.made + 1 <= fs.made + 1
        BY <1>1, <2>1 DEF Numbered
      <3>2. A!Opened = [fs EXCEPT !.name = fs.made + 1, !.made = fs.made + 1]
        BY <2>1 DEF A!Opened, Numbered, FileSet
      <3>3. /\ A!Opened \in FileSet /\ A!Opened.name = fs.made + 1 /\ A!Opened.made = fs.made + 1
        BY <3>1, <3>2 DEF Numbered, FileSet
      <3> QED BY <3>1, <3>3 DEF Numbered
    <2>2. CASE fs.name # 0
      BY <2>2 DEF A!Opened
    <2> QED BY <2>1, <2>2
  <1>3. \A f : Numbered(f) => /\ f.name \in 0 .. MaxFile
                              /\ \A x \in 0 .. MaxFile : /\ Numbered([f EXCEPT !.out = x])
                                                         /\ Numbered([f EXCEPT !.other = x])
    BY DEF Numbered, FileSet
  <1> QED BY <1>2, <1>3

LEMMA FilesChange ==
  ASSUME Numbered(fs)
  PROVE  /\ Numbered([fs EXCEPT !.out = 0, !.mine = {}, !.back = FALSE, !.bare = FALSE])
         /\ Numbered([fs EXCEPT !.other = 0])
         /\ Numbered([fs EXCEPT !.bare = TRUE])
         /\ Numbered([fs EXCEPT !.back = FALSE])
         /\ \A m \in SUBSET (1 .. MaxFile) : Numbered([fs EXCEPT !.mine = m])
         /\ \A m \in SUBSET (1 .. MaxFile), x \in 0 .. MaxFile, b \in BOOLEAN :
              Numbered([fs EXCEPT !.mine = m, !.out = x, !.bare = b])
         /\ fs.made < MaxFile => Numbered([fs EXCEPT !.name = 0])
         /\ \A old \in 1 .. fs.made, b \in BOOLEAN : Numbered([fs EXCEPT !.name = old, !.back = b])
  <1>1. /\ 0 \in 0 .. MaxFile /\ fs.made \in 0 .. MaxFile /\ 0 <= fs.made /\ {} \in SUBSET (1 .. MaxFile)
        /\ MaxFile \in Nat
    BY ChainAssumption DEF Numbered, FileSet
  <1>2. /\ Numbered([fs EXCEPT !.other = 0])
        /\ Numbered([fs EXCEPT !.bare = TRUE])
        /\ Numbered([fs EXCEPT !.back = FALSE])
        /\ \A m \in SUBSET (1 .. MaxFile) : Numbered([fs EXCEPT !.mine = m])
    BY <1>1 DEF Numbered, FileSet
  <1>3. \A m \in SUBSET (1 .. MaxFile), x \in 0 .. MaxFile, b \in BOOLEAN :
          Numbered([fs EXCEPT !.mine = m, !.out = x, !.bare = b])
    BY <1>1 DEF Numbered, FileSet
  <1>4. Numbered([fs EXCEPT !.out = 0, !.mine = {}, !.back = FALSE, !.bare = FALSE])
    BY <1>1 DEF Numbered, FileSet
  <1>5. ASSUME fs.made < MaxFile PROVE Numbered([fs EXCEPT !.name = 0])
    BY <1>1, <1>5 DEF Numbered, FileSet
  <1>6. ASSUME NEW old \in 1 .. fs.made, NEW b \in BOOLEAN PROVE Numbered([fs EXCEPT !.name = old, !.back = b])
    <2>1. old \in 0 .. MaxFile /\ old # 0 /\ old <= fs.made
      BY <1>1
    <2> QED BY <2>1 DEF Numbered, FileSet
  <1> QED BY <1>2, <1>3, <1>4, <1>5, <1>6, Zenon

\* Its steps that do not move a request, and what is done to the files.
AccessStarts == A!OpenLog \/ A!LockLog \/ A!NoLock
AccessReopens == A!Stat \/ A!Reopen \/ A!Relock \/ A!RelockNone \/ A!Reopened
AccessTurns == A!Top \/ A!Polled \/ A!NoInput \/ A!ChildStays \/ A!Ioloop \/ A!Turn \/ A!TurnOver \/ A!ChWatch

\* What such a step keeps.
AccessKeeps == /\ Holding(al') /\ Numbered(fs') /\ al'.hand = al.hand /\ al'.filter = al.filter /\ al'.owed = al.owed
               /\ al.pc # "ended" \/ al' = al

LEMMA StartsKeep ==
  ASSUME LogInv, Holding(al), Numbered(fs), AccessStarts PROVE AccessKeeps
  <1>0. al \in Logger /\ fs.out \in 0 .. MaxFile
    BY DEF Holding, Numbered, FileSet
  <1>1. CASE A!OpenLog
    <2>1. /\ al.pc = "open" /\ al' = [al EXCEPT !.pc = "lock"]
          /\ fs' = [A!Opened EXCEPT !.out = A!Opened.name]
      BY <1>1 DEF A!OpenLog
    <2>2. Numbered(fs')
      BY <2>1, FilesOpened, Zenon
    <2>3. Holding(al')
      BY <2>1, LoggerGoes, Zenon
    <2>4. al'.hand = al.hand /\ al'.filter = al.filter /\ al'.owed = al.owed
      BY <1>0, <2>1 DEF Logger
    <2> QED BY <2>1, <2>2, <2>3, <2>4 DEF AccessKeeps
  <1>2. CASE A!LockLog
    <2>1. PICK p \in {"ioloop", "top"} : al.pc = "lock" /\ al' = [al EXCEPT !.pc = p]
      BY <1>2 DEF A!LockLog, A!Begins
    <2>2. fs' = [fs EXCEPT !.mine = {fs.out}]
      BY <1>2 DEF A!LockLog
    <2>3. Holding(al')
      BY <2>1, LoggerGoes, Zenon
    <2>4. al'.hand = al.hand /\ al'.filter = al.filter /\ al'.owed = al.owed
      BY <1>0, <2>1 DEF Logger
    <2>5. fs.out # 0
      BY <2>1 DEF LogInv, FilesOK
    <2>6. {fs.out} \in SUBSET (1 .. MaxFile)
      BY <1>0, <2>5, ChainAssumption
    <2>7. Numbered(fs')
      BY <2>2, <2>6, FilesChange, Zenon
    <2> QED BY <2>1, <2>3, <2>4, <2>7 DEF AccessKeeps
  <1>3. CASE A!NoLock
    <2>1. PICK p \in {"ioloop", "top"} : al.pc = "lock" /\ al' = [al EXCEPT !.pc = p]
      BY <1>3 DEF A!NoLock, A!Begins
    <2>2. Numbered(fs')
      BY <1>3, FilesChange, Zenon DEF A!NoLock
    <2>3. Holding(al')
      BY <2>1, LoggerGoes, Zenon
    <2>4. al'.hand = al.hand /\ al'.filter = al.filter /\ al'.owed = al.owed
      BY <1>0, <2>1 DEF Logger
    <2> QED BY <2>1, <2>2, <2>3, <2>4 DEF AccessKeeps
  <1> QED BY <1>1, <1>2, <1>3 DEF AccessStarts

LEMMA ReopensKeep ==
  ASSUME LogInv, Holding(al), Numbered(fs), AccessReopens PROVE AccessKeeps
  <1>0. /\ al \in Logger /\ fs.out \in 0 .. MaxFile /\ fs.mine \in SUBSET (1 .. MaxFile) /\ fs.made \in 0 .. MaxFile
        /\ MaxFile \in Nat
    BY ChainAssumption DEF Holding, Numbered, FileSet
  <1>1. CASE A!Stat
    <2>1. PICK p \in {"reopened", "reopen"} : al.pc = "stat" /\ al' = [al EXCEPT !.pc = p]
      BY <1>1 DEF A!Stat
    <2>2. fs' = fs
      BY <1>1 DEF A!Stat
    <2>3. Holding(al')
      BY <2>1, LoggerGoes, Zenon
    <2>4. al'.hand = al.hand /\ al'.filter = al.filter /\ al'.owed = al.owed
      BY <1>0, <2>1 DEF Logger
    <2> QED BY <2>1, <2>2, <2>3, <2>4 DEF AccessKeeps
  <1>2. CASE A!Reopen
    <2>1. al.pc = "reopen"
      BY <1>2 DEF A!Reopen
    <2>2. CASE fs' = A!Opened /\ al' = [al EXCEPT !.pc = "relock", !.new = A!Opened.name]
      <3>1. Numbered(fs') /\ A!Opened.name \in 0 .. MaxFile
        BY <2>2, FilesOpened
      <3>2. Holding(al')
        BY <2>1, <2>2, <3>1, LoggerGoes, Zenon
      <3>3. al'.hand = al.hand /\ al'.filter = al.filter /\ al'.owed = al.owed
        BY <1>0, <2>2 DEF Logger
      <3> QED BY <2>1, <3>1, <3>2, <3>3 DEF AccessKeeps
    <2>3. CASE al' = [al EXCEPT !.pc = "reopened"] /\ fs' = fs
      <3>2. Holding(al')
        BY <2>1, <2>3, LoggerGoes, Zenon
      <3>3. al'.hand = al.hand /\ al'.filter = al.filter /\ al'.owed = al.owed
        BY <1>0, <2>3 DEF Logger
      <3> QED BY <2>1, <2>3, <3>2, <3>3 DEF AccessKeeps
    <2> QED BY <1>2, <2>2, <2>3 DEF A!Reopen
  <1>3. CASE A!Relock \/ A!RelockNone
    <2>1. al.pc = "relock" /\ al' = [al EXCEPT !.pc = "reopened", !.new = 0] /\ 0 \in 0 .. MaxFile
      BY <1>0, <1>3 DEF A!Relock, A!RelockNone, A!Relocked
    <2>2. al.new \in 1 .. fs.made
      BY <2>1 DEF LogInv
    <2>3. al.new \in 1 .. MaxFile /\ al.new \in 0 .. MaxFile
      BY <1>0, <2>2
    <2>4. Numbered(fs')
      <3>1. CASE A!Relock /\ al.new = fs.other
        <4>1. fs' = [fs EXCEPT !.mine = fs.mine \ {al.new}]
          BY <3>1, RelockDoes DEF LogInv
        <4>2. fs.mine \ {al.new} \in SUBSET (1 .. MaxFile)
          BY <1>0
        <4> QED BY <4>1, <4>2, FilesChange, Zenon
      <3>2. CASE A!Relock /\ al.new # fs.other
        <4>1. PICK b \in BOOLEAN :
                fs' = [fs EXCEPT !.mine = (fs.mine \cup {al.new}) \ {fs.out}, !.out = al.new, !.bare = b]
          BY <3>2, RelockDoes DEF LogInv
        <4>2. (fs.mine \cup {al.new}) \ {fs.out} \in SUBSET (1 .. MaxFile)
          BY <1>0, <2>3
        <4> QED BY <2>3, <4>1, <4>2, FilesChange, Zenon
      <3>3. CASE A!RelockNone
        <4>1. fs' = [fs EXCEPT !.mine = fs.mine \ {fs.out}, !.out = al.new, !.bare = TRUE]
          BY <3>3, RelockDoes DEF LogInv
        <4>2. fs.mine \ {fs.out} \in SUBSET (1 .. MaxFile) /\ TRUE \in BOOLEAN
          BY <1>0
        <4> QED BY <2>3, <4>1, <4>2, FilesChange, Zenon
      <3> QED BY <1>3, <3>1, <3>2, <3>3
    <2>5. Holding(al')
      BY <2>1, LoggerGoes, Zenon
    <2>6. al'.hand = al.hand /\ al'.filter = al.filter /\ al'.owed = al.owed
      BY <1>0, <2>1 DEF Logger
    <2> QED BY <2>1, <2>4, <2>5, <2>6 DEF AccessKeeps
  <1>4. CASE A!Reopened
    <2>1. PICK p \in {"ioloop", "poll"} : al.pc = "reopened" /\ al' = [al EXCEPT !.pc = p, !.reopen = FALSE]
      BY <1>4, Zenon DEF A!Reopened
    <2>2. Numbered(fs')
      BY <1>4, FilesChange, Zenon DEF A!Reopened
    <2>3. Holding(al')
      BY <2>1, LoggerGoes, Zenon
    <2>4. al'.hand = al.hand /\ al'.filter = al.filter /\ al'.owed = al.owed
      BY <1>0, <2>1 DEF Logger
    <2> QED BY <2>1, <2>2, <2>3, <2>4 DEF AccessKeeps
  <1> QED BY <1>1, <1>2, <1>3, <1>4 DEF AccessReopens

LEMMA TurnsKeep ==
  ASSUME Holding(al), Numbered(fs), AccessTurns PROVE AccessKeeps
  <1>0. al \in Logger /\ al.pc \notin {"send", "log", "ended"} /\ fs' = fs
    BY DEF Holding, AccessTurns, A!Top, A!Polled, A!NoInput, A!ChildStays, A!Ioloop, A!Turn, A!TurnOver, A!ChWatch, A!Events
  <1> SUFFICES Holding(al') /\ al'.hand = al.hand /\ al'.filter = al.filter /\ al'.owed = al.owed
    BY <1>0 DEF AccessKeeps
  <1>1. CASE A!Top \/ A!NoInput \/ A!Turn \/ A!TurnOver
    <2>1. PICK p \in {"stat", "poll", "hup", "wait", "turn"} : al' = [al EXCEPT !.pc = p]
      BY <1>1 DEF A!Top, A!NoInput, A!Turn, A!TurnOver
    <2>2. Holding(al')
      BY <1>0, <2>1, LoggerGoes, Zenon
    <2>3. al'.hand = al.hand /\ al'.filter = al.filter /\ al'.owed = al.owed
      BY <1>0, <2>1 DEF Logger
    <2> QED BY <2>2, <2>3
  <1>2. CASE A!Polled
    <2>1. A!Readable(sock["front"]) \in BOOLEAN /\ A!Refuses(sock["back"]) \in BOOLEAN
      BY DEF A!Readable, A!Refuses, A!AtEnd
    <2>2. al' = [al EXCEPT !.pc = "recv", !.in = A!Readable(sock["front"]), !.hup = A!Refuses(sock["back"])]
      BY <1>2 DEF A!Polled
    <2>3. Holding(al')
      BY <1>0, <2>1, <2>2, LoggerGoes, ZenonT(60)
    <2>4. al'.hand = al.hand /\ al'.filter = al.filter /\ al'.owed = al.owed
      BY <1>0, <2>1, <2>2 DEF Logger
    <2> QED BY <2>3, <2>4
  <1>3. CASE A!ChildStays
    <2>1. al' = [al EXCEPT !.pc = "top", !.in = FALSE]
      BY <1>3 DEF A!ChildStays
    <2>2. Holding(al')
      BY <1>0, <2>1, LoggerGoes, Zenon
    <2>3. al'.hand = al.hand /\ al'.filter = al.filter /\ al'.owed = al.owed
      BY <1>0, <2>1 DEF Logger
    <2> QED BY <2>2, <2>3
  <1>4. CASE A!Ioloop
    <2>1. al' = [al EXCEPT !.pc = "turn", !.exit = 0] /\ 0 \in 0 .. 2
      BY <1>4 DEF A!Ioloop
    <2>2. Holding(al')
      BY <1>0, <2>1, LoggerGoes, Zenon
    <2>3. al'.hand = al.hand /\ al'.filter = al.filter /\ al'.owed = al.owed
      BY <1>0, <2>1 DEF Logger
    <2> QED BY <2>2, <2>3
  <1>5. CASE A!ChWatch
    <2>1. al' = [al EXCEPT !.pc = "events", !.watch = FALSE, !.exit = 1] /\ 1 \in 0 .. 2
      BY <1>5 DEF A!ChWatch
    <2>2. Holding(al')
      BY <1>0, <2>1, LoggerGoes, Zenon
    <2>3. al'.hand = al.hand /\ al'.filter = al.filter /\ al'.owed = al.owed
      BY <1>0, <2>1 DEF Logger
    <2> QED BY <2>2, <2>3
  <1> QED BY <1>1, <1>2, <1>3, <1>4, <1>5 DEF AccessTurns

LEMMA OthersKeep ==
  ASSUME Holding(al), Numbered(fs), A!Hup \/ (A!Running /\ Outside) PROVE AccessKeeps
  <1>0. al \in Logger
    BY DEF Holding
  <1>1. CASE A!Hup
    <2>1. PICK pc \in {al.pc} \cup (IF al.pc = "poll" THEN {"top"} ELSE IF al.pc = "wait" THEN {"turn"} ELSE {}) :
            al' = IF al.filter THEN [al EXCEPT !.pc = pc, !.exit = 2, !.missed = @ \/ al.exit = 1]
                  ELSE [al EXCEPT !.pc = pc, !.reopen = TRUE]
      BY <1>1, Zenon DEF A!Hup
    <2>2. pc = al.pc \/ (al.pc \in {"poll", "wait"} /\ pc \in {"top", "turn"})
      BY <2>1
    <2>3. al.pc # "ended" /\ fs' = fs
      BY <1>1, ZenonT(60) DEF A!Hup
    <2>4. Holding(al')
      BY <2>1, <2>2, LoggerHup, Zenon
    <2>5. al'.hand = al.hand /\ al'.filter = al.filter /\ al'.owed = al.owed
      <3>1. CASE al.filter
        BY <1>0, <2>1, <3>1 DEF Logger
      <3>2. CASE ~al.filter
        BY <1>0, <2>1, <3>2 DEF Logger
      <3> QED BY <3>1, <3>2
    <2> QED BY <2>3, <2>4, <2>5 DEF AccessKeeps
  <1>2. CASE A!Running /\ Outside
    <2>1. CASE A!Rotate \/ A!OtherOpens \/ A!OtherCloses
      <3>1. al' = al
        BY <2>1 DEF A!Rotate, A!OtherOpens, A!OtherCloses
      <3>2. Numbered(fs')
        BY <2>1, FilesOpened, FilesChange, Zenon DEF A!Rotate, A!OtherOpens, A!OtherCloses
      <3> QED BY <3>1, <3>2 DEF AccessKeeps
    <2>2. CASE A!RenameBack
      <3>1. al' = al
        BY <2>2 DEF A!RenameBack
      <3>2. PICK old \in 1 .. fs.made :
              fs' = [fs EXCEPT !.name = old, !.back = fs.back \/ (al.pc = "reopen" /\ old = fs.out)]
        BY <2>2 DEF A!RenameBack
      <3> DEFINE b == fs.back \/ (al.pc = "reopen" /\ old = fs.out)
      <3>3. b \in BOOLEAN
        BY DEF Numbered, FileSet
      <3>4. fs' = [fs EXCEPT !.name = old, !.back = b]
        BY <3>2
      <3> HIDE DEF b
      <3>5. Numbered(fs')
        BY <3>3, <3>4, FilesChange, Zenon
      <3> QED BY <3>1, <3>5 DEF AccessKeeps
    <2> QED BY <1>2, <2>1, <2>2 DEF Outside
  <1> QED BY <1>1, <1>2

LEMMA QuietAccess ==
  ASSUME Whole, LogInv,
         \/ AccessStarts \/ AccessReopens \/ AccessTurns
         \/ A!Hup \/ (A!Running /\ Outside),
         UNCHANGED <<first, timed, rcall>>, events' \in 0 .. MaxEvents
  PROVE  Common' /\ Carrying' /\ AccessOK'
  <1>1. AccessKeeps
    BY AccessNow, StartsKeep, ReopensKeep, TurnsKeep, OthersKeep DEF Whole
  <1>2. UNCHANGED <<sock, fate, logged, fr>>
    BY Zenon DEF AccessStarts, AccessReopens, AccessTurns, Outside, A!Hup, A!Rotate, A!RenameBack, A!OtherOpens,
           A!OtherCloses, A!Unmoved, A!OpenLog, A!Begins, A!LockLog, A!NoLock, A!Stat, A!Reopen, A!Relocked, A!Relock,
           A!RelockNone, A!Reopened, A!Top, A!Polled, A!NoInput, A!ChildStays,
           A!Ioloop, A!Turn, A!TurnOver, A!ChWatch
  <1>3. AccessOK'
    BY <1>1, <1>2, AccessNow, AccessThen DEF AccessKeeps, Whole, RecordsTyped
  <1>4. Common' /\ Carrying'
    BY <1>1, <1>2, StaysPut DEF AccessKeeps, timed, rcall, Whole, Common
  <1> QED BY <1>3, <1>4

\* Its end.
LEMMA EndsDoes ==
  ASSUME Whole, A!Ends, UNCHANGED <<first, timed, rcall, logged, fr>>, events' \in 0 .. MaxEvents
  PROVE  Common' /\ Carrying' /\ AccessOK'
  <1>0. /\ Holding(al) /\ al \in Logger /\ Numbered(fs) /\ RecordsTyped /\ (first = "httimed" => al.pc = "ended" /\ ~al.filter)
        /\ sock \in [{"front", "back"} -> Sock] /\ fate \in Fate /\ None \notin Reqs
    BY AccessNow, ChainAssumption DEF Whole, Common, Holding
  <1>1. /\ al' = [al EXCEPT !.pc = "ended", !.hand = None, !.in = FALSE, !.hup = FALSE, !.exit = 0, !.new = 0,
                            !.reopen = FALSE]
        /\ fs' = [fs EXCEPT !.out = 0, !.mine = {}, !.back = FALSE, !.bare = FALSE]
        /\ sock' = [sock EXCEPT !["front"] = Leave(@), !["back"] = Finish(@)]
        /\ fate' = Lose(fate, ({al.hand} \ {None}) \cup Queued(sock["front"]))
    BY Same, SameQuit, SameQueued DEF A!Ends
  <1>2. Holding(al') /\ al'.pc = "ended" /\ al'.hand = None /\ al'.filter = al.filter /\ al'.owed = al.owed
    BY <1>0, <1>1, LoggerEnds, Zenon
  <1>3. AccessOK'
    <2>1. Numbered(fs')
      BY <1>0, <1>1, FilesChange, Zenon
    <2> QED BY <1>0, <1>2, <2>1, AccessThen DEF RecordsTyped
  <1>4. /\ sock' \in [{"front", "back"} -> Sock] /\ sock'["back"].q = sock["back"].q
        /\ \A x : ~InFront(x)'
        /\ \A x : x \in Queued(sock["front"]) <=> InFront(x)
    BY <1>0, <1>1, OtherDo DEF InFront
  <1>5. /\ fate' \in Fate
        /\ \A r \in Reqs : fate'[r] = IF WithAccess(r) \/ InFront(r) THEN "lost" ELSE fate[r]
    BY <1>0, <1>1, <1>4, LoseDoes DEF WithAccess
  <1>6. \A r \in Reqs : ~WithAccess(r)'
    BY <1>0, <1>2 DEF WithAccess
  <1>7. \A r \in Reqs : /\ WithTimed(r)' <=> WithTimed(r)
                        /\ InBack(r)' <=> InBack(r)
                        /\ WithRcall(r)' <=> WithRcall(r)
                        /\ ~WithAccess(r) /\ ~InFront(r) => (WithChild(r)' <=> WithChild(r))
    BY <1>4, <1>5, KeptBy DEF timed, rcall
  <1>8. \A r \in Reqs : fate'[r] = "lost" => ~WithChild(r)'
    BY DEF WithChild
  <1>9. Apart' /\ UnderWay'
    <2> DEFINE gone == {r \in Reqs : WithAccess(r) \/ InFront(r)}
    <2>1. \A r \in Reqs : IF r \in gone THEN fate'[r] # "with" /\ ~Somewhere(r)' ELSE fate'[r] = fate[r] /\ Keeps(r)
      <3> SUFFICES ASSUME NEW r \in Reqs
                   PROVE  IF r \in gone THEN fate'[r] # "with" /\ ~Somewhere(r)' ELSE fate'[r] = fate[r] /\ Keeps(r)
        OBVIOUS
      <3>1. CASE WithAccess(r) \/ InFront(r)
        <4>1. ~WithTimed(r) /\ ~InBack(r) /\ ~WithRcall(r)
          BY <3>1 DEF Whole, Carrying, Apart, Alone
        <4> QED BY <3>1, <4>1, <1>4, <1>5, <1>6, <1>7, <1>8 DEF Somewhere
      <3>2. CASE ~(WithAccess(r) \/ InFront(r))
        BY <3>2, <1>4, <1>5, <1>6, <1>7 DEF Keeps
      <3> QED BY <3>1, <3>2
    <2> HIDE DEF gone
    <2> QED BY <2>1, Removed DEF Whole, Carrying
  <1>10. Records'
    <2>1. \A r \in Reqs : Ahead(r)' => Ahead(r)
      BY <1>4, <1>5, <1>6, <1>7 DEF Ahead
    <2>2. \A r \in Reqs : (Passed(r)' => Passed(r)) /\ (InBack(r)' <=> InBack(r))
      BY <1>5, <1>7 DEF Passed, rcall
    <2> QED BY <1>2, <2>1, <2>2 DEF Whole, Carrying, Records, rcall
  <1> QED BY <1>3, <1>4, <1>5, <1>9, <1>10 DEF Common, Whole, Carrying

\* A request comes to accesslog.
LEMMA AccessTakes ==
  ASSUME Whole, A!TakeReq \/ A!Listen, UNCHANGED <<first, timed, rcall, events>>
  PROVE  Common' /\ Carrying' /\ AccessOK'
  <1>0. /\ Holding(al) /\ al \in Logger /\ Numbered(fs) /\ RecordsTyped /\ (first = "httimed" => al.pc = "ended" /\ ~al.filter)
        /\ sock \in [{"front", "back"} -> Sock] /\ fate \in Fate /\ None \notin Reqs
    BY AccessNow, ChainAssumption DEF Whole, Common, Holding
  <1>1. /\ al.pc \notin {"send", "log", "ended"} /\ sock["front"].q # <<>> /\ UNCHANGED <<fate, fs, logged, fr>>
        /\ al' = [al EXCEPT !.pc = "send", !.hand = Head(sock["front"].q)]
        /\ sock' = [sock EXCEPT !["front"] = Take(@)]
    BY Same DEF A!TakeReq, A!Listen, A!Events
  <1>2. /\ Take(sock["front"]) \in Sock /\ Head(sock["front"].q) \in Reqs /\ InFront(Head(sock["front"].q))
        /\ \A x \in Reqs : Holds(Take(sock["front"]).q, x) <=> InFront(x) /\ x # Head(sock["front"].q)
    BY <1>0, <1>1, TakeDoes DEF InFront
  <1>3. PICK x \in Reqs : x = Head(sock["front"].q)
    BY <1>2
  <1>4. /\ sock' \in [{"front", "back"} -> Sock] /\ sock'["back"].q = sock["back"].q
        /\ \A r \in Reqs : InFront(r)' <=> InFront(r) /\ r # x
    BY <1>0, <1>1, <1>2, <1>3 DEF InFront
  <1>5. Holding(al') /\ al'.hand = x /\ al'.filter = al.filter /\ al'.owed = al.owed
    BY <1>0, <1>1, <1>3, LoggerTakes, ZenonT(60)
  <1>6. AccessOK'
    BY <1>0, <1>1, <1>5, AccessThen DEF RecordsTyped
  <1>7. \A r \in Reqs : (WithAccess(r)' <=> r = x) /\ ~WithAccess(r)
    BY <1>0, <1>1, <1>5 DEF WithAccess, Holding
  <1>8. \A r \in Reqs : /\ WithTimed(r)' <=> WithTimed(r)
                        /\ InBack(r)' <=> InBack(r)
                        /\ WithRcall(r)' <=> WithRcall(r)
                        /\ WithChild(r)' <=> WithChild(r)
    BY <1>1, <1>4, KeptBy DEF timed, rcall
  <1>9. InFront(x) /\ Alone(x)
    BY <1>2, <1>3 DEF Whole, Carrying, Apart
  <1>10. Apart' /\ UnderWay'
    <2>1. Somewhere(x) /\ Somewhere(x)' /\ Alone(x)'
      BY <1>4, <1>7, <1>8, <1>9 DEF Somewhere, Alone
    <2>2. \A r \in Reqs : r # x => Keeps(r)
      BY <1>4, <1>7, <1>8 DEF Keeps
    <2> QED BY <1>1, <2>1, <2>2, Moved DEF Whole, Carrying
  <1>11. Records'
    <2>1. \A r \in Reqs : Ahead(r)' => Ahead(r)
      BY <1>1, <1>4, <1>7, <1>8, <1>9 DEF Ahead
    <2>2. \A r \in Reqs : (Passed(r)' <=> Passed(r)) /\ (InBack(r)' <=> InBack(r))
      BY <1>1, <1>8 DEF Passed, rcall
    <2> QED BY <1>1, <1>5, <2>1, <2>2 DEF Whole, Carrying, Records, rcall
  <1> QED BY <1>1, <1>4, <1>6, <1>10, <1>11 DEF Common, Whole, Carrying

\* accesslog passes one on; without -e it still owes the log the record.
LEMMA AccessGives ==
  ASSUME Whole, A!PassOn \/ A!FilterPass, UNCHANGED <<first, timed, rcall, events>>
  PROVE  Common' /\ Carrying' /\ AccessOK'
  <1>0. /\ Holding(al) /\ al \in Logger /\ Numbered(fs) /\ RecordsTyped /\ (first = "httimed" => al.pc = "ended" /\ ~al.filter)
        /\ sock \in [{"front", "back"} -> Sock] /\ fate \in Fate /\ None \notin Reqs
    BY AccessNow, ChainAssumption DEF Whole, Common, Holding
  <1>1. /\ al.pc = "send" /\ Fits(sock["back"]) /\ UNCHANGED <<fate, fs, logged>>
        /\ sock' = [sock EXCEPT !["back"] = Put(@, al.hand)]
    BY Same DEF A!PassOn, A!FilterPass
  <1>2. PICK x \in Reqs : x = al.hand
    BY <1>0, <1>1 DEF Holding, Logger
  <1>3. WithAccess(x) /\ Alone(x) /\ \A r \in Reqs : WithAccess(r) => r = x
    BY <1>2 DEF WithAccess, Whole, Carrying, Apart
  <1>4. ~InBack(x) /\ ~WithTimed(x) /\ ~WithRcall(x) /\ ~WithChild(x) /\ ~InFront(x)
    BY <1>3 DEF Alone
  <1>5. /\ Put(sock["back"], x) \in Sock
        /\ \A r \in Reqs : Holds(Put(sock["back"], x).q, r) <=> InBack(r) \/ r = x
    BY <1>0, <1>1, <1>4, PutDoes DEF InBack
  <1>6. /\ sock' \in [{"front", "back"} -> Sock] /\ sock'["front"].q = sock["front"].q
        /\ \A r \in Reqs : InBack(r)' <=> InBack(r) \/ r = x
    BY <1>0, <1>1, <1>2, <1>5 DEF InBack
  <1>7. /\ Holding(al') /\ al'.hand = None /\ al'.filter = al.filter
        /\ al.owed = None /\ al'.owed = IF al.filter THEN None ELSE x
    <2>1. CASE A!PassOn
      <3>1. ~al.filter /\ al' = [al EXCEPT !.pc = "log", !.hand = None, !.owed = al.hand]
        BY <2>1 DEF A!PassOn
      <3> QED BY <1>0, <1>1, <1>2, <3>1, LoggerOwes, Zenon
    <2>2. CASE A!FilterPass
      <3>1. al.filter /\ al' = [al EXCEPT !.pc = "events", !.hand = None]
        BY <2>2 DEF A!FilterPass
      <3> QED BY <1>0, <1>1, <3>1, LoggerGives, Zenon
    <2> QED BY <2>1, <2>2
  <1>8. logged[x] = 0 /\ fr[x] = "none" /\ kids[x] = "none"
    BY <1>3 DEF Whole, Carrying, Records, Ahead
  <1>9. RecordsTyped' /\ \A r \in Reqs : /\ logged'[r] = logged[r]
                                         /\ fr'[r] = IF r = x /\ al.filter THEN "body" ELSE fr[r]
    <2>1. CASE A!PassOn
      <3>1. fr' = fr /\ ~al.filter
        BY <2>1 DEF A!PassOn
      <3> QED BY <1>0, <1>1, <3>1 DEF RecordsTyped
    <2>2. CASE A!FilterPass
      <3>1. fr' = [fr EXCEPT ![x] = "body"] /\ al.filter
        BY <1>2, <2>2 DEF A!FilterPass
      <3> QED BY <1>0, <1>1, <3>1 DEF RecordsTyped
    <2> QED BY <2>1, <2>2
  <1>10. AccessOK'
    BY <1>0, <1>1, <1>7, <1>9, AccessThen
  <1>11. \A r \in Reqs : ~WithAccess(r)'
    BY <1>0, <1>7 DEF WithAccess
  <1>12. \A r \in Reqs : /\ WithTimed(r)' <=> WithTimed(r)
                         /\ InFront(r)' <=> InFront(r)
                         /\ WithRcall(r)' <=> WithRcall(r)
                         /\ WithChild(r)' <=> WithChild(r)
    BY <1>1, <1>6, KeptBy DEF timed, rcall
  <1>13. Apart' /\ UnderWay'
    <2>1. Somewhere(x) /\ Somewhere(x)' /\ Alone(x)'
      BY <1>3, <1>4, <1>6, <1>11, <1>12 DEF Somewhere, Alone
    <2>2. \A r \in Reqs : r # x => Keeps(r)
      BY <1>3, <1>6, <1>11, <1>12 DEF Keeps
    <2> QED BY <1>1, <2>1, <2>2, Moved DEF Whole, Carrying
  <1>14. Records'
    <2>1. \A r \in Reqs : r # x => (Ahead(r)' => Ahead(r)) /\ (Passed(r)' => Passed(r)) /\ (InBack(r)' => InBack(r))
      BY <1>1, <1>6, <1>11, <1>12 DEF Ahead, Passed, rcall
    <2>2. fate[x] = "with"
      BY <1>3 DEF Whole, Carrying, UnderWay, Somewhere
    <2>3. ~Ahead(x)'
      BY <1>1, <1>4, <1>11, <1>12, <2>2 DEF Ahead
    <2>4. kids' = kids /\ first' = first
      BY DEF rcall
    <2> SUFFICES ASSUME NEW r \in Reqs
                 PROVE  /\ Ahead(r)' => logged'[r] = 0 /\ fr'[r] = "none" /\ kids'[r] = "none"
                        /\ InBack(r)' => kids'[r] = "none"
                        /\ logged'[r] \in {0, 1}
                        /\ al'.filter => (logged'[r] = 1 <=> fr'[r] = "over")
                        /\ ~al'.filter => fr'[r] = "none"
                        /\ al'.owed = r => logged'[r] = 0 /\ ~Ahead(r)'
                        /\ first' = "accesslog" /\ ~al'.filter /\ Passed(r)' => (logged'[r] = 1 <=> al'.owed # r)
      BY DEF Records
    <2>5. CASE r = x
      BY <1>0, <1>7, <1>8, <1>9, <2>3, <2>4, <2>5
    <2>6. CASE r # x
      BY <1>0, <1>7, <1>9, <2>1, <2>4, <2>6 DEF Whole, Carrying, Records
    <2> QED BY <2>5, <2>6
  <1> QED BY <1>1, <1>6, <1>10, <1>13, <1>14 DEF Common, Whole, Carrying

\* It writes the record of the one that it passed on.
LEMMA AccessWrites ==
  ASSUME Whole, A!WriteRecord, UNCHANGED <<first, timed, rcall, events>>
  PROVE  Common' /\ Carrying' /\ AccessOK'
  <1>0. /\ Holding(al) /\ Numbered(fs) /\ RecordsTyped /\ (first = "httimed" => al.pc = "ended" /\ ~al.filter)
        /\ None \notin Reqs
    BY AccessNow, ChainAssumption DEF Whole
  <1>1. /\ al.pc = "log" /\ al' = [al EXCEPT !.pc = "hup", !.owed = None] /\ UNCHANGED <<sock, fate, fs, fr>>
        /\ logged' = [logged EXCEPT ![al.owed] = @ + 1]
    BY DEF A!WriteRecord, A!LogReq
  <1>2. /\ Holding(al') /\ al'.hand = al.hand /\ al'.filter = al.filter /\ al'.owed = None
        /\ al.owed \in Reqs /\ ~al.filter
    BY <1>0, <1>1, LoggerWrites, Zenon
  <1>3. PICK x \in Reqs : x = al.owed
    BY <1>2
  <1>4. logged[x] = 0 /\ ~Ahead(x)
    BY <1>3 DEF Whole, Carrying, Records
  <1>5. RecordsTyped' /\ \A r \in Reqs : logged'[r] = IF r = x THEN 1 ELSE logged[r]
    BY <1>0, <1>1, <1>3, <1>4 DEF RecordsTyped
  <1>6. AccessOK'
    BY <1>0, <1>1, <1>2, <1>5, AccessThen
  <1>7. \A r \in Reqs : fate'[r] = fate[r] /\ Keeps(r)
    BY <1>1, <1>2, KeptBy DEF Keeps, timed, rcall
  <1>8. Apart' /\ UnderWay'
    BY <1>7, Unmoved DEF Whole, Carrying
  <1>9. Records'
    <2>1. \A r \in Reqs : (Ahead(r)' <=> Ahead(r)) /\ (InBack(r)' <=> InBack(r)) /\ (Passed(r)' <=> Passed(r))
      BY <1>1, <1>7 DEF Ahead, Keeps, Passed, rcall
    <2>2. kids' = kids /\ first' = first /\ fr' = fr
      BY <1>1 DEF rcall
    <2> SUFFICES ASSUME NEW r \in Reqs
                 PROVE  /\ Ahead(r)' => logged'[r] = 0 /\ fr'[r] = "none" /\ kids'[r] = "none"
                        /\ InBack(r)' => kids'[r] = "none"
                        /\ logged'[r] \in {0, 1}
                        /\ al'.filter => (logged'[r] = 1 <=> fr'[r] = "over")
                        /\ ~al'.filter => fr'[r] = "none"
                        /\ al'.owed = r => logged'[r] = 0 /\ ~Ahead(r)'
                        /\ first' = "accesslog" /\ ~al'.filter /\ Passed(r)' => (logged'[r] = 1 <=> al'.owed # r)
      BY DEF Records
    <2>3. CASE r = x
      BY <1>0, <1>2, <1>3, <1>4, <1>5, <2>1, <2>2, <2>3 DEF Whole, Carrying, Records
    <2>4. CASE r # x
      BY <1>0, <1>2, <1>3, <1>5, <2>1, <2>2, <2>4 DEF Whole, Carrying, Records
    <2> QED BY <2>3, <2>4
  <1> QED BY <1>1, <1>6, <1>8, <1>9 DEF Common, Whole, Carrying

\* With -e, one that cannot be passed on.
LEMMA AccessDrops ==
  ASSUME Whole, A!FilterFails, UNCHANGED <<first, timed, rcall, events>>
  PROVE  Common' /\ Carrying' /\ AccessOK'
  <1>0. /\ Holding(al) /\ al \in Logger /\ Numbered(fs) /\ RecordsTyped /\ (first = "httimed" => al.pc = "ended" /\ ~al.filter)
        /\ sock \in [{"front", "back"} -> Sock] /\ fate \in Fate /\ None \notin Reqs
    BY AccessNow, ChainAssumption DEF Whole, Common, Holding
  <1>1. /\ al.pc = "send" /\ al.filter /\ UNCHANGED <<sock, fs>>
        /\ al' = [al EXCEPT !.pc = "events", !.hand = None]
        /\ fate' = Lose(fate, {al.hand}) /\ fr' = [fr EXCEPT ![al.hand] = "over"]
        /\ logged' = [logged EXCEPT ![al.hand] = @ + 1]
    BY Same DEF A!FilterFails, A!LogReq
  <1>2. PICK x \in Reqs : x = al.hand
    BY <1>0, <1>1 DEF Holding, Logger
  <1>3. WithAccess(x) /\ Alone(x) /\ \A r \in Reqs : WithAccess(r) => r = x
    BY <1>2 DEF WithAccess, Whole, Carrying, Apart
  <1>4. ~InBack(x) /\ ~WithTimed(x) /\ ~WithRcall(x) /\ ~WithChild(x) /\ ~InFront(x)
    BY <1>3 DEF Alone
  <1>5. logged[x] = 0 /\ fr[x] = "none" /\ kids[x] = "none"
    BY <1>3 DEF Whole, Carrying, Records, Ahead
  <1>6. Holding(al') /\ al'.hand = None /\ al'.filter = al.filter /\ al'.owed = None /\ al.owed = None
    BY <1>0, <1>1, LoggerGives, Zenon
  <1>7. RecordsTyped' /\ \A r \in Reqs : IF r # x THEN logged'[r] = logged[r] /\ fr'[r] = fr[r]
                                         ELSE logged'[r] = 1 /\ fr'[r] = "over"
    BY <1>0, <1>1, <1>2, <1>5 DEF RecordsTyped
  <1>8. AccessOK'
    BY <1>0, <1>1, <1>6, <1>7, AccessThen
  <1>9. fate' \in Fate /\ \A r \in Reqs : fate'[r] = IF r = x THEN "lost" ELSE fate[r]
    BY <1>0, <1>1, <1>2, LoseDoes
  <1>10. \A r \in Reqs : ~WithAccess(r)'
    BY <1>0, <1>6 DEF WithAccess
  <1>11. \A r \in Reqs : /\ WithTimed(r)' <=> WithTimed(r)
                         /\ InFront(r)' <=> InFront(r)
                         /\ InBack(r)' <=> InBack(r)
                         /\ WithRcall(r)' <=> WithRcall(r)
                         /\ r # x => (WithChild(r)' <=> WithChild(r))
    BY <1>1, <1>9, KeptBy DEF timed, rcall
  <1>12. ~WithChild(x)'
    BY <1>9 DEF WithChild
  <1>13. Apart' /\ UnderWay'
    <2>1. \A r \in Reqs : IF r \in {x} THEN fate'[r] # "with" /\ ~Somewhere(r)' ELSE fate'[r] = fate[r] /\ Keeps(r)
      <3> SUFFICES ASSUME NEW r \in Reqs
                   PROVE  IF r = x THEN fate'[r] # "with" /\ ~Somewhere(r)' ELSE fate'[r] = fate[r] /\ Keeps(r)
        OBVIOUS
      <3>1. CASE r = x
        BY <3>1, <1>4, <1>9, <1>10, <1>11, <1>12 DEF Somewhere
      <3>2. CASE r # x
        BY <3>2, <1>3, <1>9, <1>10, <1>11 DEF Keeps
      <3> QED BY <3>1, <3>2
    <2> QED BY <2>1, Removed DEF Whole, Carrying
  <1>14. Records'
    <2>1. \A r \in Reqs : /\ r # x => (Ahead(r)' => Ahead(r))
                          /\ InBack(r)' => InBack(r)
      BY <1>9, <1>10, <1>11 DEF Ahead
    <2>2. ~Ahead(x)'
      BY <1>4, <1>9, <1>10, <1>11 DEF Ahead
    <2>3. kids' = kids /\ first' = first
      BY DEF rcall
    <2> SUFFICES ASSUME NEW r \in Reqs
                 PROVE  /\ Ahead(r)' => logged'[r] = 0 /\ fr'[r] = "none" /\ kids'[r] = "none"
                        /\ InBack(r)' => kids'[r] = "none"
                        /\ logged'[r] \in {0, 1}
                        /\ al'.filter => (logged'[r] = 1 <=> fr'[r] = "over")
                        /\ ~al'.filter => fr'[r] = "none"
                        /\ al'.owed = r => logged'[r] = 0 /\ ~Ahead(r)'
                        /\ first' = "accesslog" /\ ~al'.filter /\ Passed(r)' => (logged'[r] = 1 <=> al'.owed # r)
      BY DEF Records
    <2>5. CASE r = x
      BY <1>0, <1>1, <1>5, <1>6, <1>7, <2>2, <2>3, <2>5
    <2>6. CASE r # x
      BY <1>0, <1>1, <1>6, <1>7, <2>1, <2>3, <2>6 DEF Whole, Carrying, Records
    <2> QED BY <2>5, <2>6
  <1> QED BY <1>1, <1>8, <1>9, <1>13, <1>14 DEF Common, Whole, Carrying

\* With -e, what filterreq() does afterwards.
LEMMA AccessFilters ==
  ASSUME Whole, NEW x \in Reqs, A!FilterStep(x) \/ A!FilterOut(x), UNCHANGED <<first, timed, rcall, events>>
  PROVE  Common' /\ Carrying' /\ AccessOK'
  <1>0. /\ Holding(al) /\ al \in Logger /\ Numbered(fs) /\ RecordsTyped /\ (first = "httimed" => al.pc = "ended" /\ ~al.filter)
        /\ sock \in [{"front", "back"} -> Sock] /\ fate \in Fate /\ None \notin Reqs
    BY AccessNow, ChainAssumption DEF Whole, Common, Holding
  <1>1. /\ al.pc \in {"wait", "events"} /\ al' = [al EXCEPT !.pc = "events"] /\ UNCHANGED <<sock, fate, fs>>
        /\ fr[x] \in {"body", "resp", "back"}
        /\ \/ /\ \E v \in {"resp", "back"} : fr' = [fr EXCEPT ![x] = v]
              /\ logged' = logged
           \/ fr' = [fr EXCEPT ![x] = "over"] /\ logged' = [logged EXCEPT ![x] = @ + 1]
    BY DEF A!FilterStep, A!FilterOut, A!Events, A!InFlight, A!LogReq
  <1>2. al.filter /\ logged[x] = 0 /\ ~Ahead(x)
    BY <1>1 DEF Whole, Carrying, Records
  <1>3. Holding(al') /\ al'.hand = al.hand /\ al'.filter = al.filter /\ al'.owed = al.owed
    BY <1>0, <1>1 DEF Holding, Logger
  <1>4. /\ RecordsTyped'
        /\ \A r \in Reqs : r # x => logged'[r] = logged[r] /\ fr'[r] = fr[r]
        /\ logged'[x] \in {0, 1} /\ (logged'[x] = 1 <=> fr'[x] = "over")
    BY <1>0, <1>1, <1>2 DEF RecordsTyped
  <1>5. AccessOK'
    BY <1>0, <1>1, <1>3, <1>4, AccessThen
  <1>6. \A r \in Reqs : fate'[r] = fate[r] /\ Keeps(r)
    BY <1>1, <1>3, KeptBy DEF Keeps, timed, rcall
  <1>7. Apart' /\ UnderWay'
    BY <1>6, Unmoved DEF Whole, Carrying
  <1>8. Records'
    <2>1. \A r \in Reqs : (Ahead(r)' <=> Ahead(r)) /\ (InBack(r)' <=> InBack(r))
      BY <1>6 DEF Ahead, Keeps
    <2>2. kids' = kids /\ first' = first
      BY DEF rcall
    <2>3. al'.owed \notin Reqs
      BY <1>0, <1>2, <1>3 DEF Holding
    <2> QED BY <1>2, <1>3, <1>4, <2>1, <2>2, <2>3 DEF Whole, Carrying, Records
  <1> QED BY <1>1, <1>5, <1>7, <1>8 DEF Common, Whole, Carrying

LEMMA AccessNext ==
  ASSUME Whole, LogInv, Access \/ Hup \/ LogChanges \/ LockingFails \/ KillAccess
  PROVE  Common' /\ Carrying' /\ AccessOK'
  <1>1. CASE Access
    <2>1. A!Requests = Reqs
      BY DEF A!Requests, Whole, Common, Fate
    <2>2. UNCHANGED <<first, timed, rcall, events>> /\ events' \in 0 .. MaxEvents
      BY <1>1 DEF Access, Whole, Common
    <2>3. CASE A!LockFails \/ A!SloopEnds \/ A!FloopEnds
      BY <2>2, <2>3, EndsDoes DEF A!LockFails, A!SloopEnds, A!FloopEnds
    <2>4. CASE AccessStarts \/ AccessReopens \/ AccessTurns
      BY <2>2, <2>4, QuietAccess
    <2>5. CASE A!TakeReq \/ A!Listen
      BY <2>2, <2>5, AccessTakes
    <2>6. CASE A!PassOn \/ A!FilterPass
      BY <2>2, <2>6, AccessGives
    <2>6a. CASE A!WriteRecord
      BY <2>2, <2>6a, AccessWrites
    <2>7. CASE A!FilterFails
      BY <2>2, <2>7, AccessDrops
    <2>8. CASE \E r \in A!Requests : A!FilterStep(r) \/ A!FilterOut(r)
      BY <2>1, <2>2, <2>8, AccessFilters
    <2> QED BY <1>1, <2>3, <2>4, <2>5, <2>6, <2>6a, <2>7, <2>8
            DEF Access, A!AccessLogNext, AccessStarts, AccessReopens, AccessTurns
  <1>2. CASE Hup \/ LogChanges \/ LockingFails \/ KillAccess
    <2>1. AccessStarts \/ AccessReopens \/ A!Hup \/ (A!Running /\ Outside) \/ A!Killed
      BY <1>2 DEF Hup, LogChanges, LockingFails, KillAccess, AccessStarts, AccessReopens
    <2>2. UNCHANGED <<first, timed, rcall>>
      BY <1>2 DEF Hup, LogChanges, LockingFails, KillAccess
    <2>3. events' \in 0 .. MaxEvents
      BY <1>2, ChainAssumption DEF Hup, LogChanges, LockingFails, KillAccess, Event, Whole, Common
    <2> QED BY <2>1, <2>2, <2>3, QuietAccess, EndsDoes DEF A!Killed
  <1> QED BY <1>1, <1>2

-----------------------------------------------------------------------------
(* httrcall.                                                               *)

Caller == [pc : {"top", "reap", "recv", "blocked", "limit", "fork", "add", "ended"}, hand : Reqs \cup {None},
           running : SUBSET Reqs, exited : BOOLEAN]
ChildrenOf(k) == {r \in Reqs : k[r] \in {"runs", "zombie"}}
CallerKnows(c, k) ==
  /\ c \in Caller /\ k \in [Reqs -> {"none", "runs", "zombie", "reaped"}]
  /\ c.hand # None <=> c.pc \in {"limit", "fork", "add"}
  /\ c.pc \in {"limit", "fork"} => k[c.hand] = "none"
  /\ c.pc = "add" => k[c.hand] \in {"runs", "zombie"}
  /\ c.pc # "ended" => c.running = ChildrenOf(k) \ (IF c.pc = "add" THEN {c.hand} ELSE {})
InLimit(c, k) == /\ Limit > 0 => Cardinality(ChildrenOf(k)) <= Limit
                 /\ c.pc = "fork" => Limit = 0 \/ Cardinality(ChildrenOf(k)) < Limit

LEMMA KidsNow == RcallOK => R!Children = ChildrenOf(kids)
  BY DEF RcallOK, R!HtRcallTypeOK, R!Children, ChildrenOf
LEMMA RcallNow == RcallOK => CallerKnows(rc, kids) /\ InLimit(rc, kids)
  BY KidsNow DEF RcallOK, CallerKnows, InLimit, Caller, R!HtRcallTypeOK
LEMMA RcallThen == CallerKnows(rc', kids') /\ InLimit(rc', kids') => RcallOK'
  <1> SUFFICES ASSUME CallerKnows(rc', kids') /\ InLimit(rc', kids') PROVE RcallOK'
    OBVIOUS
  <1>1. R!Children' = ChildrenOf(kids')
    BY DEF CallerKnows, R!Children, ChildrenOf
  <1> QED BY <1>1 DEF RcallOK, CallerKnows, InLimit, Caller, R!HtRcallTypeOK

\* There are finitely many children.
LEMMA FewerKids ==
  ASSUME NEW k, NEW n, ChildrenOf(n) \subseteq ChildrenOf(k)
  PROVE  /\ Cardinality(ChildrenOf(n)) \in Nat /\ Cardinality(ChildrenOf(k)) \in Nat
         /\ Cardinality(ChildrenOf(n)) <= Cardinality(ChildrenOf(k))
  <1>1. IsFiniteSet(ChildrenOf(k))
    BY ChainAssumption, FS_Subset DEF ChildrenOf
  <1>2. Cardinality(ChildrenOf(n)) <= Cardinality(ChildrenOf(k)) /\ IsFiniteSet(ChildrenOf(n))
    BY <1>1, FS_Subset
  <1>3. Cardinality(ChildrenOf(k)) \in Nat /\ Cardinality(ChildrenOf(n)) \in Nat
    BY <1>1, <1>2, FS_CardinalityType
  <1> QED BY <1>2, <1>3

LEMMA OneMoreKid ==
  ASSUME NEW k, NEW n, NEW x, ChildrenOf(n) = ChildrenOf(k) \cup {x}, x \notin ChildrenOf(k)
  PROVE  Cardinality(ChildrenOf(k)) \in Nat /\ Cardinality(ChildrenOf(n)) = Cardinality(ChildrenOf(k)) + 1
  <1>1. IsFiniteSet(ChildrenOf(k))
    BY ChainAssumption, FS_Subset DEF ChildrenOf
  <1> QED BY <1>1, FS_AddElement, FS_CardinalityType

\* What the records need of a step of httrcall.
LEMMA RcallRecords ==
  ASSUME Records, first' = first, logged' = logged, fr' = fr, al' = al,
         \A r \in Reqs : /\ Ahead(r)' => Ahead(r) /\ kids'[r] = kids[r]
                         /\ InBack(r)' => InBack(r) /\ kids'[r] = kids[r]
                         /\ Passed(r)' => Passed(r)
  PROVE  Records'
  <1> SUFFICES ASSUME NEW r \in Reqs
               PROVE  /\ Ahead(r)' => logged'[r] = 0 /\ fr'[r] = "none" /\ kids'[r] = "none"
                      /\ InBack(r)' => kids'[r] = "none"
                      /\ logged'[r] \in {0, 1}
                      /\ al'.filter => (logged'[r] = 1 <=> fr'[r] = "over")
                      /\ ~al'.filter => fr'[r] = "none"
                      /\ al'.owed = r => logged'[r] = 0 /\ ~Ahead(r)'
                      /\ first' = "accesslog" /\ ~al'.filter /\ Passed(r)' => (logged'[r] = 1 <=> al'.owed # r)
    BY DEF Records
  <1>1. CASE Ahead(r)'
    BY <1>1 DEF Records
  <1>2. CASE ~Ahead(r)'
    BY <1>2 DEF Records
  <1> QED BY <1>1, <1>2

\* Steps that move no request and start no child: a look at `exited', waitpid(), the wait for input.
RcallQuiet == R!Look \/ R!Reap \/ R!Block \/ R!WaitForExit \/ R!GoOn

LEMMA QuietKnows ==
  ASSUME CallerKnows(rc, kids), InLimit(rc, kids), RcallOK, RcallQuiet
  PROVE  /\ CallerKnows(rc', kids') /\ InLimit(rc', kids') /\ rc'.hand = rc.hand
         /\ \A r \in Reqs : /\ kids'[r] = "runs" <=> kids[r] = "runs"
                            /\ kids'[r] = "none" <=> kids[r] = "none"
  <1>0. /\ rc \in Caller /\ kids \in [Reqs -> {"none", "runs", "zombie", "reaped"}] /\ Limit \in Nat
        /\ rc.pc # "ended" => rc.running = ChildrenOf(kids) \ (IF rc.pc = "add" THEN {rc.hand} ELSE {})
    BY ChainAssumption DEF CallerKnows
  <1>1. CASE R!Look \/ R!Block
    <2>1. /\ \/ rc.pc = "top" /\ \E p \in {"reap", "recv"} : rc' = [rc EXCEPT !.pc = p, !.exited = FALSE]
             \/ rc.pc = "recv" /\ rc' = [rc EXCEPT !.pc = "blocked"]
          /\ kids' = kids
      BY <1>1 DEF R!Look, R!Block
    <2>2. /\ rc' \in Caller /\ rc'.hand = rc.hand /\ rc'.running = rc.running
          /\ rc.pc \in {"top", "recv"} /\ rc'.pc \in {"reap", "recv", "blocked"}
      BY <1>0, <2>1 DEF Caller
    <2> QED BY <2>1, <2>2 DEF CallerKnows, InLimit
  <1>2. CASE R!GoOn
    <2>1. rc.pc = "limit" /\ R!MayFork /\ rc' = [rc EXCEPT !.pc = "fork"] /\ kids' = kids
      BY <1>2 DEF R!GoOn
    <2>2. rc' \in Caller /\ rc'.hand = rc.hand /\ rc'.running = rc.running /\ rc'.pc = "fork"
      BY <1>0, <2>1 DEF Caller
    <2>3. rc.running = ChildrenOf(kids)
      BY <1>0, <2>1
    <2>4. Limit = 0 \/ Cardinality(ChildrenOf(kids)) < Limit
      BY <2>1, <2>3, SameCount DEF R!MayFork
    <2> QED BY <2>1, <2>2, <2>4 DEF CallerKnows, InLimit
  <1>3. CASE R!Reap \/ R!WaitForExit
    <2>1. /\ kids' = [r \in DOMAIN kids |-> IF r \in R!Zombies THEN "reaped" ELSE kids[r]]
          /\ \/ rc.pc = "reap" /\ rc' = [rc EXCEPT !.pc = "recv", !.running = @ \ R!Zombies]
             \/ /\ rc.pc = "limit"
                /\ \E again \in BOOLEAN : rc' = [rc EXCEPT !.exited = again, !.running = @ \ R!Zombies]
      <3>1. CASE R!Reap
        <4>1. /\ rc.pc = "reap" /\ kids' = [r \in DOMAIN kids |-> IF r \in R!Zombies THEN "reaped" ELSE kids[r]]
              /\ rc' = [[rc EXCEPT !.pc = "recv"] EXCEPT !.running = @ \ R!Zombies]
          BY <3>1 DEF R!Reap, R!ReapAll
        <4>2. [[rc EXCEPT !.pc = "recv"] EXCEPT !.running = @ \ R!Zombies]
                = [rc EXCEPT !.pc = "recv", !.running = @ \ R!Zombies]
          BY <1>0 DEF Caller
        <4> QED BY <4>1, <4>2
      <3>2. CASE R!WaitForExit
        <4>1. PICK again \in BOOLEAN :
                /\ rc.pc = "limit" /\ kids' = [r \in DOMAIN kids |-> IF r \in R!Zombies THEN "reaped" ELSE kids[r]]
                /\ rc' = [[rc EXCEPT !.exited = again] EXCEPT !.running = @ \ R!Zombies]
          BY <3>2, Zenon DEF R!WaitForExit, R!ReapAll
        <4>2. [[rc EXCEPT !.exited = again] EXCEPT !.running = @ \ R!Zombies]
                = [rc EXCEPT !.exited = again, !.running = @ \ R!Zombies]
          BY <1>0 DEF Caller
        <4> QED BY <4>1, <4>2, Zenon
      <3> QED BY <1>3, <3>1, <3>2, Zenon
    <2>2. /\ kids' \in [Reqs -> {"none", "runs", "zombie", "reaped"}]
          /\ \A r \in Reqs : kids'[r] = IF kids[r] = "zombie" THEN "reaped" ELSE kids[r]
      BY <1>0, <2>1, Zenon DEF R!Zombies
    <2>3. /\ rc' \in Caller /\ rc'.hand = rc.hand /\ rc'.running = rc.running \ R!Zombies
          /\ rc'.pc \in {"recv", "limit"} /\ (rc'.pc = "limit" <=> rc.pc = "limit") /\ rc.pc \in {"reap", "limit"}
      BY <1>0, <2>1, ZenonT(60) DEF Caller
    <2>4. ChildrenOf(kids') = ChildrenOf(kids) \ R!Zombies
      BY <1>0, <2>2 DEF ChildrenOf, R!Zombies
    <2>5. CallerKnows(rc', kids')
      <3>1. rc'.running = ChildrenOf(kids')
        BY <1>0, <2>3, <2>4
      <3>2. rc'.pc = "limit" => kids'[rc'.hand] = "none"
        BY <2>2, <2>3 DEF CallerKnows, Caller
      <3> QED BY <2>2, <2>3, <3>1, <3>2 DEF CallerKnows
    <2>6. InLimit(rc', kids')
      <3>1. /\ Cardinality(ChildrenOf(kids')) \in Nat /\ Cardinality(ChildrenOf(kids)) \in Nat
            /\ Cardinality(ChildrenOf(kids')) <= Cardinality(ChildrenOf(kids))
        BY <2>4, FewerKids
      <3> QED BY <1>0, <2>3, <3>1 DEF InLimit
    <2> QED BY <2>2, <2>3, <2>5, <2>6
  <1> QED BY <1>1, <1>2, <1>3 DEF RcallQuiet

LEMMA QuietRcall ==
  ASSUME Whole, RcallQuiet, UNCHANGED <<first, timed, access, events>>
  PROVE  Common' /\ Carrying' /\ RcallOK'
  <1>1. /\ CallerKnows(rc', kids') /\ InLimit(rc', kids') /\ rc'.hand = rc.hand
        /\ \A r \in Reqs : /\ kids'[r] = "runs" <=> kids[r] = "runs"
                           /\ kids'[r] = "none" <=> kids[r] = "none"
    BY RcallNow, QuietKnows DEF Whole
  <1>2. UNCHANGED <<sock, fate>>
    BY DEF RcallQuiet, R!Look, R!Reap, R!Block, R!WaitForExit, R!GoOn
  <1>3. Common'
    BY <1>2 DEF Whole, Common
  <1>4. \A r \in Reqs : fate'[r] = fate[r] /\ Keeps(r)
    BY <1>1, <1>2 DEF Keeps, timed, access, InFront, InBack, WithTimed, WithAccess, WithRcall, WithChild
  <1>5. Apart' /\ UnderWay'
    BY <1>4, Unmoved DEF Whole, Carrying
  <1>6. Records'
    BY <1>1, <1>4 DEF Whole, Carrying, Records, Keeps, Ahead, Passed, timed, access
  <1> QED BY <1>1, <1>3, <1>5, <1>6, RcallThen DEF Carrying

\* What the steps of httrcall need of the state.
LEMMA RcallState ==
  ASSUME Whole
  PROVE  /\ CallerKnows(rc, kids) /\ InLimit(rc, kids) /\ rc \in Caller
         /\ kids \in [Reqs -> {"none", "runs", "zombie", "reaped"}]
         /\ sock \in [{"front", "back"} -> Sock] /\ fate \in Fate /\ None \notin Reqs /\ Limit \in Nat
  BY RcallNow, ChainAssumption DEF Whole, Common, CallerKnows

\* It takes a request.
LEMMA RcallTakes ==
  ASSUME Whole, R!RecvReq, UNCHANGED <<first, timed, access, events>>
  PROVE  Common' /\ Carrying' /\ RcallOK'
  <1>0. /\ CallerKnows(rc, kids) /\ InLimit(rc, kids) /\ rc \in Caller
        /\ sock \in [{"front", "back"} -> Sock] /\ fate \in Fate /\ None \notin Reqs
    BY RcallState
  <1>1. /\ rc.pc \in {"recv", "blocked"} /\ sock["back"].q # <<>> /\ UNCHANGED <<fate, kids>>
        /\ rc' = [rc EXCEPT !.pc = "limit", !.hand = Head(sock["back"].q)]
        /\ sock' = [sock EXCEPT !["back"] = Take(@)]
    BY Same DEF R!RecvReq
  <1>2. /\ Take(sock["back"]) \in Sock /\ Head(sock["back"].q) \in Reqs /\ InBack(Head(sock["back"].q))
        /\ \A x \in Reqs : Holds(Take(sock["back"]).q, x) <=> InBack(x) /\ x # Head(sock["back"].q)
    BY <1>0, <1>1, TakeDoes DEF InBack
  <1>3. PICK x \in Reqs : x = Head(sock["back"].q)
    BY <1>2
  <1>4. /\ sock' \in [{"front", "back"} -> Sock] /\ sock'["front"].q = sock["front"].q
        /\ \A r \in Reqs : InBack(r)' <=> InBack(r) /\ r # x
    BY <1>0, <1>1, <1>2, <1>3 DEF InBack
  <1>5. rc' \in Caller /\ rc'.hand = x /\ rc'.pc = "limit" /\ rc'.running = rc.running /\ rc.hand = None
    BY <1>0, <1>1, <1>3 DEF Caller, CallerKnows
  <1>6. InBack(x) /\ Alone(x) /\ kids[x] = "none"
    BY <1>2, <1>3 DEF Whole, Carrying, Apart, Records
  <1>7. RcallOK'
    <2>1. CallerKnows(rc', kids')
      BY <1>0, <1>1, <1>5, <1>6 DEF CallerKnows
    <2>2. InLimit(rc', kids')
      BY <1>0, <1>1, <1>5 DEF InLimit
    <2> QED BY <2>1, <2>2, RcallThen
  <1>8. \A r \in Reqs : (WithRcall(r)' <=> r = x) /\ ~WithRcall(r)
    BY <1>0, <1>1, <1>5, <1>6 DEF WithRcall
  <1>9. \A r \in Reqs : /\ WithTimed(r)' <=> WithTimed(r)
                        /\ InFront(r)' <=> InFront(r)
                        /\ WithAccess(r)' <=> WithAccess(r)
                        /\ WithChild(r)' <=> WithChild(r)
    BY <1>1, <1>4, KeptBy DEF timed, access
  <1>10. Apart' /\ UnderWay'
    <2>1. Somewhere(x) /\ Somewhere(x)' /\ Alone(x)'
      BY <1>4, <1>6, <1>8, <1>9 DEF Somewhere, Alone
    <2>2. \A r \in Reqs : r # x => Keeps(r)
      BY <1>4, <1>8, <1>9 DEF Keeps
    <2> QED BY <1>1, <2>1, <2>2, Moved DEF Whole, Carrying
  <1>11. Records'
    <2>1. \A r \in Reqs : /\ Ahead(r)' => Ahead(r) /\ kids'[r] = kids[r]
                          /\ InBack(r)' => InBack(r) /\ kids'[r] = kids[r]
                          /\ Passed(r)' => Passed(r)
      BY <1>1, <1>4, <1>5, <1>6, <1>9 DEF Ahead, Passed
    <2> QED BY <2>1, RcallRecords DEF Whole, Carrying, access
  <1> QED BY <1>1, <1>4, <1>7, <1>10, <1>11 DEF Common, Whole, Carrying

\* Its input is over.
LEMMA RcallEnds ==
  ASSUME Whole, R!RecvEnd, UNCHANGED <<first, timed, access, events>>
  PROVE  Common' /\ Carrying' /\ RcallOK'
  <1>0. /\ CallerKnows(rc, kids) /\ InLimit(rc, kids) /\ rc \in Caller /\ sock \in [{"front", "back"} -> Sock]
    BY RcallState
  <1>1. /\ rc.pc \in {"recv", "blocked"} /\ sock["back"].q = <<>> /\ UNCHANGED <<fate, kids>>
        /\ rc' = [rc EXCEPT !.pc = "ended"]
        /\ sock' = [sock EXCEPT !["back"] = Leave(@)]
    BY Same DEF R!RecvEnd, R!AtEnd
  <1>2. /\ sock' \in [{"front", "back"} -> Sock] /\ sock'["front"].q = sock["front"].q
        /\ sock'["back"].q = sock["back"].q
    BY <1>0, <1>1, OtherDo, Zenon DEF Leave, Sock
  <1>3. rc' \in Caller /\ rc'.hand = rc.hand /\ rc'.pc = "ended"
    BY <1>0, <1>1 DEF Caller
  <1>4. RcallOK'
    BY <1>0, <1>1, <1>3, RcallThen DEF CallerKnows, InLimit
  <1>5. Common' /\ Carrying'
    BY <1>1, <1>2, <1>3, StaysPut DEF timed, access, Whole, Common
  <1> QED BY <1>4, <1>5

\* fork(): the request is with the child, or is answered.
LEMMA RcallForks ==
  ASSUME Whole, R!Fork, UNCHANGED <<first, timed, access, events>>
  PROVE  Common' /\ Carrying' /\ RcallOK'
  <1>0. /\ CallerKnows(rc, kids) /\ InLimit(rc, kids) /\ rc \in Caller /\ None \notin Reqs
        /\ kids \in [Reqs -> {"none", "runs", "zombie", "reaped"}] /\ Limit \in Nat
    BY RcallState
  <1>1. /\ rc.pc = "fork" /\ UNCHANGED <<sock, fate>>
        /\ rc' = [rc EXCEPT !.pc = "add"] /\ kids' = [kids EXCEPT ![rc.hand] = "runs"]
    BY DEF R!Fork
  <1>2. PICK x \in Reqs : x = rc.hand
    BY <1>0, <1>1 DEF CallerKnows, Caller
  <1>3. kids[x] = "none" /\ rc.running = ChildrenOf(kids)
    BY <1>0, <1>1, <1>2 DEF CallerKnows
  <1>4. rc' \in Caller /\ rc'.hand = x /\ rc'.pc = "add" /\ rc'.running = rc.running
    BY <1>0, <1>1, <1>2 DEF Caller
  <1>5. /\ kids' \in [Reqs -> {"none", "runs", "zombie", "reaped"}]
        /\ \A r \in Reqs : kids'[r] = IF r = x THEN "runs" ELSE kids[r]
    BY <1>0, <1>1, <1>2
  <1>6. ChildrenOf(kids') = ChildrenOf(kids) \cup {x} /\ x \notin ChildrenOf(kids)
    BY <1>3, <1>5 DEF ChildrenOf
  <1>7. RcallOK'
    <2>1. rc'.running = ChildrenOf(kids') \ {x}
      BY <1>3, <1>4, <1>6
    <2>2. CallerKnows(rc', kids')
      BY <1>0, <1>4, <1>5, <2>1 DEF CallerKnows
    <2>3. InLimit(rc', kids')
      <3>1. Cardinality(ChildrenOf(kids)) \in Nat /\ Cardinality(ChildrenOf(kids')) = Cardinality(ChildrenOf(kids)) + 1
        BY <1>6, OneMoreKid
      <3> QED BY <1>0, <1>1, <1>4, <3>1 DEF InLimit
    <2> QED BY <2>2, <2>3, RcallThen
  <1>8. WithRcall(x) /\ Alone(x) /\ \A r \in Reqs : (WithRcall(r) => r = x) /\ ~WithRcall(r)'
    BY <1>2, <1>3, <1>4, <1>5 DEF WithRcall, Whole, Carrying, Apart
  <1>9. ~InBack(x) /\ ~WithTimed(x) /\ ~WithAccess(x) /\ ~InFront(x) /\ fate[x] = "with"
    BY <1>8 DEF Alone, Whole, Carrying, UnderWay, Somewhere
  <1>10. WithChild(x)' /\ \A r \in Reqs : r # x => (WithChild(r)' <=> WithChild(r))
    BY <1>1, <1>5, <1>9 DEF WithChild
  <1>11. \A r \in Reqs : /\ WithTimed(r)' <=> WithTimed(r)
                         /\ InFront(r)' <=> InFront(r)
                         /\ InBack(r)' <=> InBack(r)
                         /\ WithAccess(r)' <=> WithAccess(r)
    BY <1>1, KeptBy DEF timed, access
  <1>12. Apart' /\ UnderWay'
    <2>1. Somewhere(x) /\ Somewhere(x)' /\ Alone(x)'
      BY <1>8, <1>9, <1>10, <1>11 DEF Somewhere, Alone
    <2>2. \A r \in Reqs : r # x => Keeps(r)
      BY <1>8, <1>10, <1>11 DEF Keeps
    <2> QED BY <1>1, <2>1, <2>2, Moved DEF Whole, Carrying
  <1>13. Records'
    <2>1. ~Ahead(x)' /\ ~InBack(x)'
      BY <1>1, <1>9, <1>11 DEF Ahead
    <2>2. \A r \in Reqs : /\ Ahead(r)' => Ahead(r) /\ kids'[r] = kids[r]
                          /\ InBack(r)' => InBack(r) /\ kids'[r] = kids[r]
                          /\ Passed(r)' => Passed(r)
      <3> SUFFICES ASSUME NEW r \in Reqs
                   PROVE  /\ Ahead(r)' => Ahead(r) /\ kids'[r] = kids[r]
                          /\ InBack(r)' => InBack(r) /\ kids'[r] = kids[r]
                          /\ Passed(r)' => Passed(r)
        OBVIOUS
      <3>1. CASE r = x
        BY <1>2, <2>1, <3>1 DEF Passed
      <3>2. CASE r # x
        BY <1>1, <1>2, <1>4, <1>5, <1>11, <3>2 DEF Ahead, Passed
      <3> QED BY <3>1, <3>2
    <2> QED BY <2>2, RcallRecords DEF Whole, Carrying, access
  <1> QED BY <1>1, <1>7, <1>12, <1>13 DEF Common, Whole, Carrying

LEMMA RcallForkFails ==
  ASSUME Whole, R!ForkFails, UNCHANGED <<first, timed, access, events>>
  PROVE  Common' /\ Carrying' /\ RcallOK'
  <1>0. /\ CallerKnows(rc, kids) /\ InLimit(rc, kids) /\ rc \in Caller /\ None \notin Reqs /\ fate \in Fate
    BY RcallState
  <1>1. /\ rc.pc = "fork" /\ UNCHANGED <<sock, kids>>
        /\ rc' = [rc EXCEPT !.pc = "top", !.hand = None] /\ fate' = [fate EXCEPT ![rc.hand] = "answered"]
    BY DEF R!ForkFails
  <1>2. PICK x \in Reqs : x = rc.hand
    BY <1>0, <1>1 DEF CallerKnows, Caller
  <1>3. rc' \in Caller /\ rc'.hand = None /\ rc'.pc = "top" /\ rc'.running = rc.running
    BY <1>0, <1>1 DEF Caller
  <1>4. fate' \in Fate /\ \A r \in Reqs : fate'[r] = IF r = x THEN "answered" ELSE fate[r]
    BY <1>0, <1>1, <1>2 DEF Fate
  <1>5. RcallOK'
    BY <1>0, <1>1, <1>3, RcallThen DEF CallerKnows, InLimit
  <1>6. WithRcall(x) /\ Alone(x) /\ \A r \in Reqs : (WithRcall(r) => r = x) /\ ~WithRcall(r)'
    BY <1>0, <1>1, <1>2, <1>3 DEF WithRcall, Whole, Carrying, Apart, CallerKnows
  <1>7. ~InBack(x) /\ ~WithTimed(x) /\ ~WithAccess(x) /\ ~InFront(x)
    BY <1>6 DEF Alone
  <1>8. \A r \in Reqs : /\ WithTimed(r)' <=> WithTimed(r)
                        /\ InFront(r)' <=> InFront(r)
                        /\ InBack(r)' <=> InBack(r)
                        /\ WithAccess(r)' <=> WithAccess(r)
                        /\ r # x => (WithChild(r)' <=> WithChild(r))
    BY <1>1, <1>4, KeptBy DEF timed, access
  <1>9. ~WithChild(x)'
    BY <1>4 DEF WithChild
  <1>10. Apart' /\ UnderWay'
    <2>1. \A r \in Reqs : IF r \in {x} THEN fate'[r] # "with" /\ ~Somewhere(r)' ELSE fate'[r] = fate[r] /\ Keeps(r)
      <3> SUFFICES ASSUME NEW r \in Reqs
                   PROVE  IF r = x THEN fate'[r] # "with" /\ ~Somewhere(r)' ELSE fate'[r] = fate[r] /\ Keeps(r)
        OBVIOUS
      <3>1. CASE r = x
        BY <3>1, <1>4, <1>6, <1>7, <1>8, <1>9 DEF Somewhere
      <3>2. CASE r # x
        BY <3>2, <1>4, <1>6, <1>8 DEF Keeps
      <3> QED BY <3>1, <3>2
    <2> QED BY <2>1, Removed DEF Whole, Carrying
  <1>11. Records'
    <2>1. \A r \in Reqs : /\ Ahead(r)' => Ahead(r) /\ kids'[r] = kids[r]
                          /\ InBack(r)' => InBack(r) /\ kids'[r] = kids[r]
                          /\ Passed(r)' => Passed(r)
      BY <1>0, <1>1, <1>3, <1>4, <1>8 DEF Ahead, Passed
    <2> QED BY <2>1, RcallRecords DEF Whole, Carrying, access
  <1> QED BY <1>1, <1>4, <1>5, <1>10, <1>11 DEF Common, Whole, Carrying

\* The child is entered in `running'.
LEMMA RcallAdds ==
  ASSUME Whole, R!AddRunning, UNCHANGED <<first, timed, access, events>>
  PROVE  Common' /\ Carrying' /\ RcallOK'
  <1>0. CallerKnows(rc, kids) /\ InLimit(rc, kids) /\ rc \in Caller /\ None \notin Reqs
    BY RcallState
  <1>1. /\ rc.pc = "add" /\ UNCHANGED <<sock, fate, kids>>
        /\ rc' = [rc EXCEPT !.pc = "top", !.running = @ \cup {rc.hand}, !.hand = None]
    BY DEF R!AddRunning
  <1>2. PICK x \in Reqs : x = rc.hand
    BY <1>0, <1>1 DEF CallerKnows, Caller
  <1>3. kids[x] \in {"runs", "zombie"} /\ rc.running = ChildrenOf(kids) \ {x}
    BY <1>0, <1>1, <1>2 DEF CallerKnows
  <1>4. x \in ChildrenOf(kids)
    BY <1>3 DEF ChildrenOf
  <1>5. rc' \in Caller /\ rc'.hand = None /\ rc'.pc = "top" /\ rc'.running = rc.running \cup {x}
    BY <1>0, <1>1, <1>2 DEF Caller
  <1>6. RcallOK'
    <2>1. rc'.running = ChildrenOf(kids')
      BY <1>1, <1>3, <1>4, <1>5
    <2>2. CallerKnows(rc', kids')
      BY <1>0, <1>1, <1>5, <2>1 DEF CallerKnows
    <2> QED BY <1>0, <1>1, <1>5, <2>2, RcallThen DEF InLimit
  <1>7. \A r \in Reqs : ~WithRcall(r) /\ ~WithRcall(r)'
    BY <1>0, <1>2, <1>3, <1>5 DEF WithRcall
  <1>8. \A r \in Reqs : fate'[r] = fate[r] /\ Keeps(r)
    BY <1>1, <1>7, KeptBy DEF Keeps, timed, access
  <1>9. Apart' /\ UnderWay'
    BY <1>8, Unmoved DEF Whole, Carrying
  <1>10. Records'
    <2>1. \A r \in Reqs : /\ Ahead(r)' => Ahead(r) /\ kids'[r] = kids[r]
                          /\ InBack(r)' => InBack(r) /\ kids'[r] = kids[r]
                          /\ Passed(r)' => Passed(r)
      BY <1>0, <1>1, <1>5, <1>8 DEF Ahead, Passed, Keeps
    <2> QED BY <2>1, RcallRecords DEF Whole, Carrying, access
  <1> QED BY <1>1, <1>6, <1>9, <1>10 DEF Common, Whole, Carrying

\* A child answers, or ends.
LEMMA KidAnswersDoes ==
  ASSUME Whole, NEW x \in Reqs, R!ChildAnswers(x), UNCHANGED <<first, timed, access, events>>
  PROVE  Common' /\ Carrying' /\ RcallOK'
  <1>0. /\ CallerKnows(rc, kids) /\ InLimit(rc, kids) /\ fate \in Fate
    BY RcallState
  <1>1. /\ kids[x] = "runs" /\ fate[x] = "with" /\ UNCHANGED <<sock, rc, kids>>
        /\ fate' = [fate EXCEPT ![x] = "answered"]
    BY DEF R!ChildAnswers
  <1>2. fate' \in Fate /\ \A r \in Reqs : fate'[r] = IF r = x THEN "answered" ELSE fate[r]
    BY <1>0, <1>1 DEF Fate
  <1>3. RcallOK'
    BY <1>0, <1>1, RcallThen
  <1>4. WithChild(x) /\ Alone(x) /\ ~WithChild(x)'
    BY <1>1, <1>2 DEF WithChild, Whole, Carrying, Apart
  <1>5. ~InBack(x) /\ ~WithTimed(x) /\ ~WithAccess(x) /\ ~InFront(x) /\ ~WithRcall(x)
    BY <1>1, <1>4 DEF Alone, WithRcall
  <1>6. \A r \in Reqs : /\ WithTimed(r)' <=> WithTimed(r)
                        /\ InFront(r)' <=> InFront(r)
                        /\ InBack(r)' <=> InBack(r)
                        /\ WithAccess(r)' <=> WithAccess(r)
                        /\ WithRcall(r)' <=> WithRcall(r)
                        /\ r # x => (WithChild(r)' <=> WithChild(r))
    BY <1>1, <1>2, KeptBy DEF timed, access
  <1>7. Apart' /\ UnderWay'
    <2>1. \A r \in Reqs : IF r \in {x} THEN fate'[r] # "with" /\ ~Somewhere(r)' ELSE fate'[r] = fate[r] /\ Keeps(r)
      <3> SUFFICES ASSUME NEW r \in Reqs
                   PROVE  IF r = x THEN fate'[r] # "with" /\ ~Somewhere(r)' ELSE fate'[r] = fate[r] /\ Keeps(r)
        OBVIOUS
      <3>1. CASE r = x
        BY <3>1, <1>2, <1>4, <1>5, <1>6 DEF Somewhere
      <3>2. CASE r # x
        BY <3>2, <1>2, <1>6 DEF Keeps
      <3> QED BY <3>1, <3>2
    <2> QED BY <2>1, Removed DEF Whole, Carrying
  <1>8. Records'
    <2>1. \A r \in Reqs : /\ Ahead(r)' => Ahead(r) /\ kids'[r] = kids[r]
                          /\ InBack(r)' => InBack(r) /\ kids'[r] = kids[r]
                          /\ Passed(r)' => Passed(r)
      BY <1>1, <1>2, <1>6 DEF Ahead, Passed
    <2> QED BY <2>1, RcallRecords DEF Whole, Carrying, access
  <1> QED BY <1>1, <1>2, <1>3, <1>7, <1>8 DEF Common, Whole, Carrying

LEMMA KidEndsDoes ==
  ASSUME Whole, NEW x \in Reqs, R!ChildExits(x), UNCHANGED <<first, timed, access, events>>
  PROVE  Common' /\ Carrying' /\ RcallOK'
  <1>0. /\ CallerKnows(rc, kids) /\ InLimit(rc, kids) /\ rc \in Caller /\ None \notin Reqs /\ fate \in Fate
        /\ kids \in [Reqs -> {"none", "runs", "zombie", "reaped"}]
    BY RcallState
  <1>1. /\ kids[x] = "runs" /\ sock' = sock
        /\ kids' = [kids EXCEPT ![x] = "zombie"]
        /\ fate' = [fate EXCEPT ![x] = IF @ = "with" THEN "lost" ELSE @]
        /\ rc' = IF rc.pc = "ended" THEN rc ELSE R!ChldHandler
    BY DEF R!ChildExits
  <1>2. fate' \in Fate /\ \A r \in Reqs : fate'[r] = IF r = x /\ fate[r] = "with" THEN "lost" ELSE fate[r]
    BY <1>0, <1>1 DEF Fate
  <1>3. /\ kids' \in [Reqs -> {"none", "runs", "zombie", "reaped"}]
        /\ \A r \in Reqs : kids'[r] = IF r = x THEN "zombie" ELSE kids[r]
    BY <1>0, <1>1
  <1>4. /\ rc' \in Caller /\ rc'.hand = rc.hand /\ rc'.running = rc.running
        /\ rc'.pc = IF rc.pc = "blocked" THEN "top" ELSE rc.pc
    BY <1>0, <1>1 DEF Caller, R!ChldHandler
  <1>5. ChildrenOf(kids') = ChildrenOf(kids)
    BY <1>0, <1>1, <1>3 DEF ChildrenOf
  <1>6. RcallOK'
    <2>1. CallerKnows(rc', kids')
      <3>1. rc.pc \in {"limit", "fork"} => rc.hand # x /\ rc.hand \in Reqs
        BY <1>0, <1>1 DEF CallerKnows, Caller
      <3>2. rc.pc = "add" => rc.hand \in Reqs
        BY <1>0 DEF CallerKnows, Caller
      <3> QED BY <1>0, <1>3, <1>4, <1>5, <3>1, <3>2 DEF CallerKnows
    <2>2. InLimit(rc', kids')
      BY <1>0, <1>4, <1>5 DEF InLimit
    <2> QED BY <2>1, <2>2, RcallThen
  <1>7. ~WithChild(x)' /\ ~WithRcall(x) /\ ~WithRcall(x)'
    BY <1>1, <1>3, <1>4 DEF WithChild, WithRcall
  <1>8. \A r \in Reqs : /\ WithTimed(r)' <=> WithTimed(r)
                        /\ InFront(r)' <=> InFront(r)
                        /\ InBack(r)' <=> InBack(r)
                        /\ WithAccess(r)' <=> WithAccess(r)
                        /\ r # x => (WithRcall(r)' <=> WithRcall(r))
                        /\ r # x => (WithChild(r)' <=> WithChild(r))
    <2>1. \A r \in Reqs : /\ WithTimed(r)' <=> WithTimed(r)
                          /\ InFront(r)' <=> InFront(r)
                          /\ InBack(r)' <=> InBack(r)
                          /\ WithAccess(r)' <=> WithAccess(r)
      BY <1>1, KeptBy DEF timed, access
    <2>2. \A r \in Reqs : r # x => (WithRcall(r)' <=> WithRcall(r)) /\ (WithChild(r)' <=> WithChild(r))
      BY <1>2, <1>3, <1>4 DEF WithRcall, WithChild
    <2> QED BY <2>1, <2>2
  <1>9. Apart' /\ UnderWay'
    <2>1. CASE fate[x] = "with"
      <3>1. ~InBack(x) /\ ~WithTimed(x) /\ ~WithAccess(x) /\ ~InFront(x)
        BY <1>1, <2>1 DEF WithChild, Alone, Whole, Carrying, Apart
      <3>2. \A r \in Reqs : IF r \in {x} THEN fate'[r] # "with" /\ ~Somewhere(r)' ELSE fate'[r] = fate[r] /\ Keeps(r)
        <4> SUFFICES ASSUME NEW r \in Reqs
                     PROVE  IF r = x THEN fate'[r] # "with" /\ ~Somewhere(r)' ELSE fate'[r] = fate[r] /\ Keeps(r)
          OBVIOUS
        <4>1. CASE r = x
          BY <4>1, <1>2, <1>7, <1>8, <2>1, <3>1 DEF Somewhere
        <4>2. CASE r # x
          BY <4>2, <1>2, <1>8 DEF Keeps
        <4> QED BY <4>1, <4>2
      <3> QED BY <3>2, Removed DEF Whole, Carrying
    <2>2. CASE fate[x] # "with"
      <3>1. ~WithChild(x)
        BY <2>2 DEF WithChild
      <3>2. \A r \in Reqs : fate'[r] = fate[r] /\ Keeps(r)
        BY <1>2, <1>7, <1>8, <2>2, <3>1 DEF Keeps
      <3> QED BY <3>2, Unmoved DEF Whole, Carrying
    <2> QED BY <2>1, <2>2
  <1>10. Records'
    <2>1. ~Ahead(x) /\ ~InBack(x) /\ Passed(x)
      BY <1>1 DEF Passed, Whole, Carrying, Records
    <2>2. ~Ahead(x)' /\ ~InBack(x)'
      BY <1>2, <1>8, <2>1 DEF Ahead
    <2>3. \A r \in Reqs : r # x => /\ Ahead(r)' => Ahead(r) /\ kids'[r] = kids[r]
                                   /\ InBack(r)' => InBack(r) /\ kids'[r] = kids[r]
                                   /\ Passed(r)' => Passed(r)
      BY <1>2, <1>3, <1>4, <1>8 DEF Ahead, Passed
    <2> QED BY <2>1, <2>2, <2>3, RcallRecords DEF Whole, Carrying, access
  <1> QED BY <1>1, <1>2, <1>6, <1>9, <1>10 DEF Common, Whole, Carrying

\* httrcall is killed.
LEMMA KilledDoes ==
  ASSUME Whole, R!Killed, UNCHANGED <<first, timed, access>>, events' \in 0 .. MaxEvents
  PROVE  Common' /\ Carrying' /\ RcallOK'
  <1>0. /\ CallerKnows(rc, kids) /\ InLimit(rc, kids) /\ rc \in Caller /\ None \notin Reqs /\ fate \in Fate
        /\ kids \in [Reqs -> {"none", "runs", "zombie", "reaped"}] /\ sock \in [{"front", "back"} -> Sock]
        /\ R!Children = ChildrenOf(kids)
    BY RcallState, KidsNow DEF Whole
  <1>1. /\ kids' = kids
        /\ sock' = [sock EXCEPT !["back"] = Leave(@)]
        /\ fate' = Lose(fate, Queued(sock["back"]) \cup ({rc.hand} \ ({None} \cup ChildrenOf(kids))))
        /\ rc' = [rc EXCEPT !.pc = "ended", !.hand = None, !.exited = FALSE]
    BY <1>0, Same, SameQueued DEF R!Killed
  <1>2. rc' \in Caller /\ rc'.pc = "ended" /\ rc'.hand = None
    BY <1>0, <1>1 DEF Caller
  <1>3. RcallOK'
    BY <1>0, <1>1, <1>2, RcallThen DEF CallerKnows, InLimit
  <1>4. /\ sock' \in [{"front", "back"} -> Sock] /\ sock'["front"].q = sock["front"].q
        /\ \A x : ~InBack(x)'
        /\ \A x : x \in Queued(sock["back"]) <=> InBack(x)
    BY <1>0, <1>1, OtherDo DEF InBack
  <1>5. \A r \in Reqs : WithRcall(r) <=> r \in {rc.hand} \ ({None} \cup ChildrenOf(kids))
    BY <1>0 DEF WithRcall, ChildrenOf, CallerKnows, Caller
  <1>6. /\ fate' \in Fate
        /\ \A r \in Reqs : fate'[r] = IF WithRcall(r) \/ InBack(r) THEN "lost" ELSE fate[r]
    BY <1>0, <1>1, <1>4, <1>5, LoseDoes
  <1>7. \A r \in Reqs : ~WithRcall(r)'
    BY <1>0, <1>2 DEF WithRcall
  <1>8. \A r \in Reqs : /\ WithTimed(r)' <=> WithTimed(r)
                        /\ InFront(r)' <=> InFront(r)
                        /\ WithAccess(r)' <=> WithAccess(r)
                        /\ ~WithRcall(r) /\ ~InBack(r) => (WithChild(r)' <=> WithChild(r))
    BY <1>1, <1>4, <1>6, KeptBy DEF timed, access
  <1>9. \A r \in Reqs : fate'[r] = "lost" => ~WithChild(r)'
    BY DEF WithChild
  <1>10. Apart' /\ UnderWay'
    <2> DEFINE gone == {r \in Reqs : WithRcall(r) \/ InBack(r)}
    <2>1. \A r \in Reqs : IF r \in gone THEN fate'[r] # "with" /\ ~Somewhere(r)' ELSE fate'[r] = fate[r] /\ Keeps(r)
      <3> SUFFICES ASSUME NEW r \in Reqs
                   PROVE  IF r \in gone THEN fate'[r] # "with" /\ ~Somewhere(r)' ELSE fate'[r] = fate[r] /\ Keeps(r)
        OBVIOUS
      <3>1. CASE WithRcall(r) \/ InBack(r)
        <4>1. ~WithTimed(r) /\ ~InFront(r) /\ ~WithAccess(r)
          BY <3>1 DEF Whole, Carrying, Apart, Alone
        <4> QED BY <3>1, <4>1, <1>4, <1>6, <1>7, <1>8, <1>9 DEF Somewhere
      <3>2. CASE ~(WithRcall(r) \/ InBack(r))
        BY <3>2, <1>4, <1>6, <1>7, <1>8 DEF Keeps
      <3> QED BY <3>1, <3>2
    <2> HIDE DEF gone
    <2> QED BY <2>1, Removed DEF Whole, Carrying
  <1>11. Records'
    <2>1. \A r \in Reqs : /\ Ahead(r)' => Ahead(r) /\ kids'[r] = kids[r]
                          /\ InBack(r)' => InBack(r) /\ kids'[r] = kids[r]
                          /\ Passed(r)' => Passed(r)
      BY <1>0, <1>1, <1>2, <1>4, <1>6, <1>8 DEF Ahead, Passed
    <2>2. logged' = logged /\ fr' = fr /\ al' = al
      BY DEF access
    <2> QED BY <2>1, <2>2, RcallRecords DEF Whole, Carrying
  <1> QED BY <1>3, <1>4, <1>6, <1>10, <1>11 DEF Common, Whole, Carrying

-----------------------------------------------------------------------------
(* The outside, the beginning, and all steps.                              *)

LEMMA SendDoes ==
  ASSUME Whole, NEW x \in Reqs, Send(x)
  PROVE  Common' /\ Carrying'
  <1>0. sock \in [{"front", "back"} -> Sock] /\ fate \in Fate /\ events \in 0 .. MaxEvents /\ MaxEvents \in Nat
    BY ChainAssumption DEF Whole, Common
  <1>1. /\ fate[x] = "new" /\ Fits(sock["front"]) /\ events < MaxEvents /\ events' = events + 1
        /\ sock' = [sock EXCEPT !["front"] = Put(@, x)]
        /\ fate' = [fate EXCEPT ![x] = "with"]
        /\ UNCHANGED <<first, tm, al, fs, logged, fr, rc, kids>>
    BY DEF Send, Event, timed, access, rcall
  <1>2. events' \in 0 .. MaxEvents
    BY <1>0, <1>1
  <1>3. fate' \in Fate /\ \A r \in Reqs : fate'[r] = IF r = x THEN "with" ELSE fate[r]
    BY <1>0, <1>1 DEF Fate
  <1>4. ~InFront(x) /\ ~InBack(x) /\ ~WithTimed(x) /\ ~WithAccess(x) /\ ~WithRcall(x) /\ ~WithChild(x) /\ Ahead(x)
    BY <1>1 DEF Whole, Carrying, UnderWay, Somewhere, Ahead
  <1>5. /\ Put(sock["front"], x) \in Sock
        /\ \A r \in Reqs : Holds(Put(sock["front"], x).q, r) <=> InFront(r) \/ r = x
    BY <1>0, <1>1, <1>4, PutDoes DEF InFront
  <1>6. /\ sock' \in [{"front", "back"} -> Sock] /\ sock'["back"].q = sock["back"].q
        /\ \A r \in Reqs : InFront(r)' <=> InFront(r) \/ r = x
    BY <1>0, <1>1, <1>5 DEF InFront
  <1>7. kids[x] = "none" /\ logged[x] = 0 /\ fr[x] = "none"
    BY <1>4 DEF Whole, Carrying, Records
  <1>8. /\ \A r \in Reqs : /\ WithTimed(r)' <=> WithTimed(r)
                           /\ InBack(r)' <=> InBack(r)
                           /\ WithAccess(r)' <=> WithAccess(r)
                           /\ WithRcall(r)' <=> WithRcall(r)
                           /\ r # x => (WithChild(r)' <=> WithChild(r))
        /\ ~WithChild(x)'
    BY <1>1, <1>3, <1>6, <1>7, KeptBy DEF WithChild
  <1>9. \A r \in Reqs : r # x => fate'[r] = fate[r] /\ Keeps(r)
    BY <1>3, <1>6, <1>8 DEF Keeps
  <1>10. Alone(x)' /\ Somewhere(x)' /\ fate'[x] = "with"
    BY <1>3, <1>4, <1>6, <1>8 DEF Alone, Somewhere
  <1>11. Apart' /\ UnderWay'
    <2>1. ASSUME NEW r \in Reqs PROVE Alone(r)' /\ (fate'[r] = "with" <=> Somewhere(r)')
      <3>1. CASE r = x
        BY <1>10, <3>1
      <3>2. CASE r # x
        BY <1>9, <3>2 DEF Whole, Carrying, Apart, Alone, UnderWay, Somewhere, Keeps
      <3> QED BY <3>1, <3>2
    <2> QED BY <2>1 DEF Apart, UnderWay
  <1>12. Records'
    <2>1. \A r \in Reqs : /\ Ahead(r)' => Ahead(r) /\ kids'[r] = kids[r]
                          /\ InBack(r)' => InBack(r) /\ kids'[r] = kids[r]
                          /\ Passed(r)' => Passed(r)
      BY <1>1, <1>3, <1>4, <1>6, <1>8 DEF Ahead, Passed
    <2> QED BY <1>1, <2>1, RcallRecords DEF Whole, Carrying
  <1> QED BY <1>1, <1>2, <1>3, <1>6, <1>11, <1>12 DEF Common, Whole, Carrying

LEMMA CloseFrontDoes ==
  ASSUME Whole, CloseFront
  PROVE  Common' /\ Carrying'
  <1>1. sock \in [{"front", "back"} -> Sock] /\ sock' = [sock EXCEPT !["front"] = Finish(@)]
    BY DEF CloseFront, Whole, Common
  <1>2. /\ sock' \in [{"front", "back"} -> Sock] /\ sock'["front"].q = sock["front"].q
        /\ sock'["back"].q = sock["back"].q
    BY <1>1, OtherDo
  <1> QED BY <1>2, StaysPut DEF CloseFront, timed, access, rcall, Whole, Common

\* What a program is not concerned with leaves it as it is.
LEMMA TimedUntouched == TimedOK /\ tm' = tm /\ first' = first => TimedOK'
  BY TimedNow, TimedThen
LEMMA AccessUntouched == AccessOK /\ UNCHANGED access /\ first' = first => AccessOK'
  BY AccessNow, AccessThen DEF access, RecordsTyped
LEMMA RcallUntouched == RcallOK /\ UNCHANGED rcall => RcallOK'
  BY RcallNow, RcallThen DEF rcall

LEMMA WholeInit == Init => Whole
  <1> SUFFICES ASSUME Init PROVE Whole
    OBVIOUS
  <1>0. /\ None \notin Reqs /\ MaxEvents \in Nat /\ MaxFile \in Nat /\ 0 < MaxFile /\ Limit \in Nat /\ Timeout \in Nat
    BY ChainAssumption
  <1>1. Common
    <2>1. Open \in Sock
      BY EmptyQueue DEF Open, Sock
    <2> QED BY <1>0, <2>1 DEF Init, Common, Fate
  <1>2. TimedOK
    <2>1. PICK pc \in {"loop", "ended"} : T!HtTimedInit(pc) /\ (first = "accesslog" => pc = "ended")
      BY DEF Init
    <2>2. tm = [pc |-> pc, age |-> 0, left |-> 0, seen |-> 0, off |-> FALSE, in |-> FALSE, hup |-> FALSE, hand |-> None]
      BY <2>1 DEF T!HtTimedInit
    <2>3. InOrder(tm)
      BY <1>0, <2>2 DEF InOrder, Timer
    <2> QED BY <2>1, <2>2, <2>3, TimedNow
  <1>3. AccessOK
    <2>1. PICK pc \in {"open", "ended"}, filter \in BOOLEAN :
            al = A!AlStart(pc, filter) /\ (first = "httimed" => pc = "ended" /\ ~filter)
      BY DEF Init, A!NoAccessLog, A!AccessLogInit
    <2>2. Holding(al) /\ al.pc = pc /\ al.filter = filter
      BY <1>0, <2>1 DEF A!AlStart, Holding, Logger
    <2>3. PICK name \in {0, 1}, other \in {0, 1} :
            fs = [name |-> name, made |-> name, out |-> 0, mine |-> {}, other |-> other, back |-> FALSE, bare |-> FALSE]
      BY DEF Init, A!NoAccessLog, A!AccessLogInit
    <2>4. Numbered(fs)
      BY <1>0, <2>3 DEF Numbered, FileSet
    <2>5. RecordsTyped
      <3>1. logged = [r \in Reqs |-> 0] /\ fr = [r \in Reqs |-> "none"]
        BY DEF Init, A!NoAccessLog, A!AccessLogInit
      <3> QED BY <3>1 DEF RecordsTyped
    <2> QED BY <2>1, <2>2, <2>4, <2>5, AccessNow
  <1>4. RcallOK
    <2>1. rc = [pc |-> "top", hand |-> None, running |-> {}, exited |-> FALSE] /\ kids = [r \in Reqs |-> "none"]
      BY DEF Init, R!HtRcallInit
    <2>2. R!Children = {}
      BY <2>1 DEF R!Children
    <2>3. R!HtRcallTypeOK(Reqs)
      BY <2>1 DEF R!HtRcallTypeOK
    <2> QED BY <1>0, <2>1, <2>2, <2>3, FS_EmptySet DEF RcallOK
  <1>5. Carrying
    <2>1. /\ sock["front"].q = <<>> /\ sock["back"].q = <<>> /\ tm.hand = None /\ rc.hand = None /\ al.hand = None
          /\ al.owed = None
          /\ \A r \in Reqs : fate[r] = "new" /\ kids[r] = "none" /\ logged[r] = 0 /\ fr[r] = "none"
      BY DEF Init, Open, T!HtTimedInit, A!NoAccessLog, A!AccessLogInit, A!AlStart, R!HtRcallInit
    <2>2. \A r \in Reqs : ~InFront(r) /\ ~InBack(r) /\ ~WithTimed(r) /\ ~WithAccess(r) /\ ~WithRcall(r) /\ ~WithChild(r)
      BY <1>0, <2>1, EmptyQueue DEF InFront, InBack, WithTimed, WithAccess, WithRcall, WithChild
    <2> QED BY <1>0, <2>1, <2>2 DEF Carrying, Apart, Alone, UnderWay, Somewhere, Records, Passed
  <1> QED BY <1>1, <1>2, <1>3, <1>4, <1>5 DEF Whole

LEMMA WholeNext == Whole /\ LogInv /\ [Next]_vars => Whole'
  <1> SUFFICES ASSUME Whole, LogInv, [Next]_vars PROVE Whole'
    OBVIOUS
  <1>1. CASE Timed \/ Tick
    <2>1. (T!HtTimedNext \/ T!Tick) /\ UNCHANGED <<first, access, rcall, events>>
      BY <1>1 DEF Timed, Tick
    <2>2. Common' /\ Carrying' /\ TimedOK'
      BY <2>1, TimedNext
    <2> QED BY <2>1, <2>2, AccessUntouched, RcallUntouched DEF Whole
  <1>2. CASE Access \/ Hup \/ LogChanges \/ LockingFails \/ KillAccess
    <2>1. Common' /\ Carrying' /\ AccessOK'
      BY <1>2, AccessNext
    <2>2. UNCHANGED <<first, timed, rcall>>
      BY <1>2 DEF Access, Hup, LogChanges, LockingFails, KillAccess
    <2> QED BY <2>1, <2>2, TimedUntouched, RcallUntouched DEF Whole, timed
  <1>3. CASE Rcall
    <2>1. R!HtRcallNext /\ UNCHANGED <<first, timed, access, events>>
      BY <1>3 DEF Rcall
    <2>2. Common' /\ Carrying' /\ RcallOK'
      BY <2>1, QuietRcall, RcallTakes, RcallEnds, RcallForks, RcallForkFails, RcallAdds DEF R!HtRcallNext, RcallQuiet
    <2> QED BY <2>1, <2>2, TimedUntouched, AccessUntouched DEF Whole, timed
  <1>4. CASE \E r \in Reqs : KidEnds(r) \/ KidAnswers(r)
    <2>1. PICK r \in Reqs : R!ChildExits(r) \/ R!ChildAnswers(r)
      BY <1>4 DEF KidEnds, KidAnswers
    <2>2. UNCHANGED <<first, timed, access, events>>
      BY <1>4 DEF KidEnds, KidAnswers
    <2>3. Common' /\ Carrying' /\ RcallOK'
      BY <2>1, <2>2, KidEndsDoes, KidAnswersDoes
    <2> QED BY <2>2, <2>3, TimedUntouched, AccessUntouched DEF Whole, timed
  <1>5. CASE KillRcall
    <2>1. R!Killed /\ UNCHANGED <<first, timed, access>>
      BY <1>5 DEF KillRcall
    <2>2. events' \in 0 .. MaxEvents
      BY <1>5, ChainAssumption DEF KillRcall, Event, Whole, Common
    <2>3. Common' /\ Carrying' /\ RcallOK'
      BY <2>1, <2>2, KilledDoes
    <2> QED BY <2>1, <2>3, TimedUntouched, AccessUntouched DEF Whole, timed
  <1>6. CASE CloseFront \/ \E r \in Reqs : Send(r)
    <2>1. Common' /\ Carrying'
      BY <1>6, CloseFrontDoes, SendDoes
    <2>2. UNCHANGED <<first, timed, access, rcall>>
      BY <1>6 DEF CloseFront, Send
    <2> QED BY <2>1, <2>2, TimedUntouched, AccessUntouched, RcallUntouched DEF Whole, timed
  <1>7. CASE UNCHANGED vars
    <2>1. UNCHANGED <<first, timed, access, rcall, sock, fate, events>>
      BY <1>7 DEF vars
    <2>2. Common' /\ Carrying'
      BY <2>1, StaysPut DEF Whole, Common, timed, access, rcall
    <2> QED BY <2>1, <2>2, TimedUntouched, AccessUntouched, RcallUntouched DEF Whole, timed
  <1> QED BY <1>1, <1>2, <1>3, <1>4, <1>5, <1>6, <1>7 DEF Next

-----------------------------------------------------------------------------
(* What it gives.                                                          *)

LEMMA QueueBound == Queue \subseteq BoundedSeq(Reqs, Room)
  <1> SUFFICES ASSUME NEW q \in Queue PROVE q \in BoundedSeq(Reqs, Room)
    OBVIOUS
  <1>1. q \in Seq(Reqs) /\ Len(q) \in 0 .. Room
    BY Rooms DEF Queue
  <1>2. q \in [1 .. Len(q) -> Reqs]
    BY <1>1
  <1> QED BY <1>1, <1>2 DEF BoundedSeq, SeqOf

LEMMA WholeTyped == Whole => TypeOK
  <1> SUFFICES ASSUME Whole PROVE TypeOK
    OBVIOUS
  <1>1. Sock \subseteq [q : BoundedSeq(Reqs, Room), snd : BOOLEAN, rcv : {"open", "shut", "gone"}]
    BY QueueBound DEF Sock
  <1>2. sock \in [{"front", "back"} -> [q : BoundedSeq(Reqs, Room), snd : BOOLEAN, rcv : {"open", "shut", "gone"}]]
    BY <1>1 DEF Whole, Common
  <1> QED BY <1>2 DEF Whole, Common, TimedOK, AccessOK, RcallOK, TypeOK, Fate

LEMMA WholeCounts == Whole => Counted
  <1> SUFFICES ASSUME Whole PROVE Counted
    OBVIOUS
  <1>1. RcallOK /\ R!Children = ChildrenOf(kids) /\ Limit \in Nat
    BY KidsNow, ChainAssumption DEF Whole
  <1>2. ASSUME Limit > 0 PROVE Cardinality({r \in Reqs : kids[r] = "runs"}) <= Limit
    <2>1. IsFiniteSet(ChildrenOf(kids))
      BY ChainAssumption, FS_Subset DEF ChildrenOf
    <2>2. {r \in Reqs : kids[r] = "runs"} \in SUBSET ChildrenOf(kids)
      BY DEF ChildrenOf
    <2>3. /\ Cardinality({r \in Reqs : kids[r] = "runs"}) <= Cardinality(ChildrenOf(kids))
          /\ IsFiniteSet({r \in Reqs : kids[r] = "runs"})
      BY <2>1, <2>2, FS_Subset
    <2>4. Cardinality({r \in Reqs : kids[r] = "runs"}) \in Nat /\ Cardinality(ChildrenOf(kids)) \in Nat
      BY <2>1, <2>3, FS_CardinalityType
    <2>5. Cardinality(ChildrenOf(kids)) <= Limit
      BY <1>1, <1>2 DEF RcallOK
    <2> QED BY <1>1, <2>3, <2>4, <2>5
  <1> QED BY <1>1, <1>2 DEF RcallOK, Counted

InQueues(r) == {x \in [s : {"front", "back"}, i : 1 .. Room] : x.i <= Len(sock[x.s].q) /\ sock[x.s].q[x.i] = r}
InHands(r) == {p \in {"httimed", "accesslog", "httrcall", "child"} :
                 \/ p = "httimed" /\ WithTimed(r)
                 \/ p = "accesslog" /\ WithAccess(r)
                 \/ p = "httrcall" /\ WithRcall(r)
                 \/ p = "child" /\ WithChild(r)}
LEMMA PlacesAre == \A r : Places(r) = InQueues(r) \cup InHands(r)
  BY DEF Places, InQueues, InHands, WithTimed, WithAccess, WithRcall, WithChild

LEMMA OneQueue ==
  ASSUME Whole, NEW r \in Reqs, NEW s \in {"front", "back"}, NEW t \in {"front", "back"}, s # t,
         Holds(sock[s].q, r), ~Holds(sock[t].q, r)
  PROVE  \E x : InQueues(r) = {x}
  <1>1. PICK i \in DOMAIN sock[s].q : sock[s].q[i] = r
    BY DEF Holds
  <1>2. /\ sock[s].q \in Seq(Reqs) /\ Len(sock[s].q) <= Room /\ Len(sock[s].q) \in Nat
        /\ \A j, k \in DOMAIN sock[s].q : sock[s].q[j] = sock[s].q[k] => j = k
        /\ sock[t].q \in Seq(Reqs)
    BY DEF Whole, Common, Sock, Queue
  <1> DEFINE x == [s |-> s, i |-> i]
  <1>3. x \in InQueues(r)
    BY <1>1, <1>2, Rooms DEF InQueues
  <1>4. ASSUME NEW y \in InQueues(r) PROVE y = x
    <2>1. y \in [s : {"front", "back"}, i : 1 .. Room] /\ y.i <= Len(sock[y.s].q) /\ sock[y.s].q[y.i] = r
      BY <1>4 DEF InQueues
    <2>2. y.s \in {"front", "back"} /\ y.i \in 1 .. Room /\ y = [s |-> y.s, i |-> y.i]
      BY <2>1
    <2>3. y.s = s
      <3>1. ASSUME y.s = t PROVE FALSE
        <4>1. y.i \in DOMAIN sock[t].q /\ sock[t].q[y.i] = r
          BY <1>2, <2>1, <2>2, <3>1
        <4> QED BY <4>1 DEF Holds
      <3> QED BY <2>2, <3>1
    <2>4. y.i \in DOMAIN sock[s].q
      BY <1>2, <2>1, <2>2, <2>3
    <2>5. y.i = i
      BY <1>1, <1>2, <2>1, <2>3, <2>4
    <2> QED BY <2>2, <2>3, <2>5
  <1> QED BY <1>3, <1>4

LEMMA NoQueue ==
  ASSUME Whole, NEW r \in Reqs, ~InFront(r), ~InBack(r)
  PROVE  InQueues(r) = {}
  <1> SUFFICES ASSUME NEW y \in InQueues(r) PROVE FALSE
    OBVIOUS
  <1>1. y \in [s : {"front", "back"}, i : 1 .. Room] /\ y.i <= Len(sock[y.s].q) /\ sock[y.s].q[y.i] = r
    BY DEF InQueues
  <1>2. y.s \in {"front", "back"} /\ y.i \in 1 .. Room /\ sock[y.s].q \in Seq(Reqs)
    BY <1>1 DEF Whole, Common, Sock, Queue
  <1>3. y.i \in DOMAIN sock[y.s].q
    BY <1>1, <1>2
  <1>4. Holds(sock[y.s].q, r)
    BY <1>1, <1>3 DEF Holds
  <1> QED BY <1>2, <1>4 DEF InFront, InBack

LEMMA OnePlace ==
  ASSUME Whole, NEW r \in Reqs
  PROVE  Cardinality(Places(r)) = IF fate[r] = "with" THEN 1 ELSE 0
  <1>1. Alone(r) /\ (fate[r] = "with" <=> Somewhere(r))
    BY DEF Whole, Carrying, Apart, UnderWay
  <1>2. CASE InFront(r) \/ InBack(r)
    <2>1. \E x : InQueues(r) = {x}
      <3>1. CASE InFront(r)
        <4>1. ~InBack(r)
          BY <1>1, <3>1 DEF Alone
        <4> QED BY <3>1, <4>1, OneQueue DEF InFront, InBack
      <3>2. CASE InBack(r)
        <4>1. ~InFront(r)
          BY <1>1, <3>2 DEF Alone
        <4> QED BY <3>2, <4>1, OneQueue DEF InFront, InBack
      <3> QED BY <1>2, <3>1, <3>2
    <2>2. InHands(r) = {}
      BY <1>1, <1>2 DEF InHands, Alone
    <2>3. \E x : Places(r) = {x}
      BY <2>1, <2>2, PlacesAre
    <2> QED BY <1>1, <1>2, <2>3, FS_Singleton DEF Somewhere
  <1>3. CASE ~InFront(r) /\ ~InBack(r)
    <2>1. Places(r) = InHands(r)
      BY <1>3, NoQueue, PlacesAre
    <2>2. CASE Somewhere(r)
      <3>1. \E p : InHands(r) = {p}
        <4>1. CASE WithTimed(r)
          <5>1. InHands(r) = {"httimed"}
            BY <1>1, <4>1 DEF InHands, Alone
          <5> QED BY <5>1
        <4>2. CASE WithAccess(r)
          <5>1. InHands(r) = {"accesslog"}
            BY <1>1, <4>2 DEF InHands, Alone
          <5> QED BY <5>1
        <4>3. CASE WithRcall(r)
          <5>1. ~WithChild(r)
            BY <4>3 DEF WithRcall, WithChild
          <5>2. InHands(r) = {"httrcall"}
            BY <1>1, <4>3, <5>1 DEF InHands, Alone
          <5> QED BY <5>2
        <4>4. CASE WithChild(r)
          <5>1. ~WithRcall(r)
            BY <4>4 DEF WithRcall, WithChild
          <5>2. InHands(r) = {"child"}
            BY <1>1, <4>4, <5>1 DEF InHands, Alone
          <5> QED BY <5>2
        <4> QED BY <1>3, <2>2, <4>1, <4>2, <4>3, <4>4 DEF Somewhere
      <3> QED BY <1>1, <2>1, <2>2, <3>1, FS_Singleton
    <2>3. CASE ~Somewhere(r)
      <3>1. InHands(r) = {}
        BY <2>3 DEF InHands, Somewhere
      <3> QED BY <1>1, <2>1, <2>3, <3>1, FS_EmptySet
    <2> QED BY <2>2, <2>3
  <1> QED BY <1>2, <1>3

LEMMA WholeCarries == Whole => Carried
  <1> SUFFICES ASSUME Whole PROVE Carried
    OBVIOUS
  <1>1. ASSUME NEW r \in Reqs
        PROVE  /\ Cardinality(Places(r)) = IF fate[r] = "with" THEN 1 ELSE 0
               /\ logged[r] <= 1
               /\ al.filter => (logged[r] = 1 <=> fr[r] = "over")
               /\ first = "accesslog" /\ ~al.filter /\ PassedOn(r) => (logged[r] = 1 <=> al.owed # r)
    <2>1. r \in Queued(sock["back"]) <=> InBack(r)
      BY OtherDo DEF InBack, Whole, Common
    <2>2. logged[r] <= 1
      BY DEF Whole, Carrying, Records
    <2> QED BY <2>1, <2>2, OnePlace DEF Whole, Carrying, Records, Passed, PassedOn
  <1>2. al.owed # None => al.pc \in {"log", "ended"}
    BY DEF Whole, AccessOK
  <1> QED BY <1>1, <1>2, WholeTyped, WholeCounts DEF Carried

\* Whatever of httimed, accesslog, httrcall and its children ends, fails, cannot fork or is killed,
\* a request that is under way is in exactly one place and one that is over in none, so that none
\* is dropped or served twice.  It has at most one record in the log: with -e once its filterreq()
\* is over, and otherwise once it was passed on; only of the last that was passed on there is none
\* while accesslog has yet to write it, and none ever if it is killed before.  And no more children
\* run than httrcall's limit.
THEOREM AlwaysCarried == Spec => []Carried
  <1>1. Init => Whole /\ LogInv
    BY WholeInit, LogInit
  <1>2. (Whole /\ LogInv) /\ [Next]_vars => (Whole /\ LogInv)'
    BY WholeNext, LogNext
  <1> QED BY <1>1, <1>2, WholeCarries, PTL DEF Spec

-----------------------------------------------------------------------------
(* The buffers through which the log is written: Faithful of BufIo.        *)

\* A set of naturals that is not empty has a least element.
LEMMA LeastNat ==
  ASSUME NEW S \in SUBSET Nat, S # {}
  PROVE  \E x \in S : \A y \in S : x <= y
<1> DEFINE Less == OpToRel(<, Nat)
<1>1. PICK x \in S : \A y \in S : ~(<<y, x>> \in Less)
  BY NatLessThanWellFounded, WFMin, Zenon
<1>2. \A y \in Nat : <<y, x>> \in Less \/ ~(y < x)
  BY DEF OpToRel
<1> HIDE DEF Less
<1>3. \A y \in S : ~(y < x)
  BY <1>1, <1>2, Zenon
<1>4. \A y \in S : x <= y
  BY <1>3
<1> QED BY <1>4

\* The doubling of sizebuf() from any size of at least lo.
Doubles(lo, t, n, f) == f = [m \in lo .. t |-> IF m >= n THEN m ELSE f[2 * m]]

\* It ends.
LEMMA DoublesEnd ==
  ASSUME NEW n \in Nat, NEW t \in Nat, t > 2 * n PROVE \E f : Doubles(1, t, n, f)
<1> DEFINE Bad == {k \in 0 .. t - 1 : ~\E f : Doubles(t - k, t, n, f)}
<1>1. ASSUME Bad # {} PROVE FALSE
  <2>1. PICK k \in Bad : \A j \in Bad : k <= j
    <3>1. Bad \in SUBSET Nat
      OBVIOUS
    <3> HIDE DEF Bad
    <3> QED BY <1>1, <3>1, LeastNat
  <2>2. k \in 0 .. t - 1 /\ ~\E f : Doubles(t - k, t, n, f)
    BY <2>1
  <2>3. k # 0
    <3>1. Doubles(t - 0, t, n, [m \in t .. t |-> m])
      BY DEF Doubles
    <3> QED BY <2>2, <3>1
  <2>4. k - 1 \in 0 .. t - 1 /\ k - 1 \notin Bad
    BY <2>1, <2>2, <2>3
  <2>5. \E f : Doubles(t - (k - 1), t, n, f)
    BY <2>4
  <2>6. PICK a \in 1 .. t : a = t - k
    BY <2>2
  <2>7. t - (k - 1) = a + 1 /\ a < t
    BY <2>2, <2>3, <2>6
  <2>8. PICK f : Doubles(a + 1, t, n, f)
    BY <2>5, <2>7
  <2> DEFINE g == [m \in a .. t |-> IF m >= n THEN m ELSE f[2 * m]]
  <2>9. Doubles(a, t, n, g)
    <3>1. \A m \in a .. t : ~(m >= n) => 2 * m \in a + 1 .. t
      BY <2>6, <2>7
    <3>2. \A m \in a + 1 .. t : f[m] = IF m >= n THEN m ELSE f[2 * m]
      BY <2>8 DEF Doubles
    <3>3. \A m \in a + 1 .. t : g[m] = f[m]
      BY <3>2, <2>6
    <3>4. \A m \in a .. t : ~(m >= n) => g[2 * m] = f[2 * m]
      BY <3>1, <3>3
    <3>5. g = [m \in a .. t |-> IF m >= n THEN m ELSE g[2 * m]]
      BY <3>4
    <3> HIDE DEF g
    <3> QED BY <3>5 DEF Doubles
  <2> QED BY <2>2, <2>6, <2>9
<1>2. Bad = {}
  <2> HIDE DEF Bad
  <2> QED BY <1>1
<1>3. t - 1 \in 0 .. t - 1 /\ t - (t - 1) = 1
  OBVIOUS
<1>4. \E f : Doubles(t - (t - 1), t, n, f)
  BY <1>2, <1>3
<1> QED BY <1>3, <1>4

\* sizebuf() makes room, and never less of it.
LEMMA SizebufIs ==
  ASSUME NEW s \in Nat, NEW n \in Nat
  PROVE  Sizebuf(s, n) \in Nat /\ Sizebuf(s, n) >= n /\ Sizebuf(s, n) >= s
<1> DEFINE t == AtLeast(s, 2 * n + 1)
           f == CHOOSE f : Doubles(1, t, n, f)
           a == AtLeast(s, 1)
           Good(m) == f[m] \in Nat /\ f[m] >= n /\ f[m] >= m
<1>1. t \in Nat /\ t > 2 * n /\ a \in 1 .. t /\ a >= s
  BY DEF AtLeast
<1>2. Sizebuf(s, n) = f[a]
  BY DEF Sizebuf, Doubles
<1> HIDE DEF t, a
<1>3. Doubles(1, t, n, f)
  BY <1>1, DoublesEnd
<1> HIDE DEF f
<1>4. \A m \in 1 .. t : f[m] = IF m >= n THEN m ELSE f[2 * m]
  BY <1>3 DEF Doubles
<1> DEFINE Bad == {k \in 0 .. t - 1 : ~Good(t - k)}
<1>5. ASSUME Bad # {} PROVE FALSE
  <2>1. PICK k \in Bad : \A j \in Bad : k <= j
    <3>1. Bad \in SUBSET Nat
      BY <1>1
    <3> HIDE DEF Bad
    <3> QED BY <1>5, <3>1, LeastNat
  <2>2. k \in 0 .. t - 1 /\ ~Good(t - k)
    BY <2>1
  <2>3. PICK m \in 1 .. t : m = t - k
    BY <1>1, <2>2
  <2>4. ~(m >= n)
    BY <1>4, <2>2, <2>3
  <2>5. 2 * m \in 1 .. t /\ f[m] = f[2 * m]
    BY <1>1, <1>4, <2>3, <2>4
  <2>6. PICK j \in 0 .. t - 1 : j = t - 2 * m /\ j < k
    BY <1>1, <2>3, <2>5, <2>2
  <2>7. j \notin Bad
    BY <2>1, <2>2, <2>6
  <2>8. Good(t - j)
    BY <2>6, <2>7
  <2>9. t - j = 2 * m
    BY <1>1, <2>3, <2>6
  <2>10. Good(2 * m)
    BY <2>8, <2>9
  <2> QED BY <2>2, <2>3, <2>5, <2>10
<1>6. \A m \in 1 .. t : Good(m)
  <2>1. Bad = {}
    <3> HIDE DEF Bad
    <3> QED BY <1>5
  <2> SUFFICES ASSUME NEW m \in 1 .. t PROVE Good(m)
    OBVIOUS
  <2>2. PICK k \in 0 .. t - 1 : k = t - m
    BY <1>1
  <2>3. Good(t - k)
    BY <2>1
  <2>4. t - k = m
    BY <1>1, <2>2
  <2> QED BY <2>3, <2>4
<1> QED BY <1>1, <1>2, <1>6

-----------------------------------------------------------------------------
(* What is done to a buffer keeps what is pending in it.                   *)

GoodBuffer(b) == b \in [data : Seq(Nat), h : Nat, s : Nat] /\ BufferOK(b)
SameBytes(b, c) == GoodBuffer(c) /\ Pending(c) = Pending(b)

\* What is left of a sequence after the first h of it.
LEMMA RestIs ==
  ASSUME NEW d \in Seq(Nat), NEW h \in 0 .. Len(d)
  PROVE  /\ SubSeq(d, h + 1, Len(d)) \in Seq(Nat)
         /\ Len(SubSeq(d, h + 1, Len(d))) = Len(d) - h
         /\ \A i \in 1 .. Len(d) - h : SubSeq(d, h + 1, Len(d))[i] = d[h + i]
<1> DEFINE p == SubSeq(d, h + 1, Len(d))
<1>1. Len(d) \in Nat /\ h \in Nat /\ h <= Len(d)
  OBVIOUS
<1>2. \A i \in h + 1 .. Len(d) : d[i] \in Nat
  BY <1>1
<1>3. h + 1 \in Int /\ Len(d) \in Int
  BY <1>1
<1>4. /\ p \in Seq(Nat)
      /\ Len(p) = IF h + 1 <= Len(d) THEN Len(d) - (h + 1) + 1 ELSE 0
      /\ \A i \in 1 .. Len(d) - (h + 1) + 1 : p[i] = d[h + 1 + i - 1]
  BY <1>2, <1>3, SubSeqProperties
<1> HIDE DEF p
<1>5. Len(p) = Len(d) - h
  BY <1>1, <1>4
<1>6. ASSUME NEW i \in 1 .. Len(d) - h PROVE p[i] = d[h + i]
  <2>1. i \in 1 .. Len(d) - (h + 1) + 1 /\ h + 1 + i - 1 = h + i
    BY <1>1
  <2> QED BY <1>4, <2>1
<1> QED BY <1>4, <1>5, <1>6 DEF p

LEMMA PendingIs ==
  ASSUME NEW b, GoodBuffer(b)
  PROVE  /\ Pending(b) \in Seq(Nat)
         /\ Len(Pending(b)) = Len(b.data) - b.h
<1>1. b.data \in Seq(Nat) /\ b.h \in 0 .. Len(b.data)
  BY DEF GoodBuffer, BufferOK
<1> QED BY <1>1, RestIs DEF Pending

\* What is added to a sequence is added to what is left of it.
LEMMA RestOfConcat ==
  ASSUME NEW d \in Seq(Nat), NEW h \in 0 .. Len(d), NEW x \in Seq(Nat)
  PROVE  SubSeq(d \o x, h + 1, Len(d \o x)) = SubSeq(d, h + 1, Len(d)) \o x
<1> DEFINE e == d \o x
           p == SubSeq(d, h + 1, Len(d))
           q == SubSeq(e, h + 1, Len(e))
<1>1. Len(d) \in Nat /\ h \in Nat /\ h <= Len(d) /\ Len(x) \in Nat
  OBVIOUS
<1>2. /\ e \in Seq(Nat) /\ Len(e) = Len(d) + Len(x)
      /\ \A j \in 1 .. Len(d) + Len(x) : e[j] = IF j <= Len(d) THEN d[j] ELSE x[j - Len(d)]
  BY ConcatProperties
<1>3. p \in Seq(Nat) /\ Len(p) = Len(d) - h /\ \A i \in 1 .. Len(d) - h : p[i] = d[h + i]
  BY RestIs
<1>4. q \in Seq(Nat) /\ Len(q) = Len(e) - h /\ \A i \in 1 .. Len(e) - h : q[i] = e[h + i]
  <2>1. h \in 0 .. Len(e)
    BY <1>1, <1>2
  <2> HIDE DEF e
  <2> QED BY <1>2, <2>1, RestIs
<1> HIDE DEF e, p, q
<1>5. /\ p \o x \in Seq(Nat) /\ Len(p \o x) = Len(p) + Len(x)
      /\ \A j \in 1 .. Len(p) + Len(x) : (p \o x)[j] = IF j <= Len(p) THEN p[j] ELSE x[j - Len(p)]
  BY <1>3, ConcatProperties
<1>6. Len(p) \in Nat /\ Len(q) \in Nat /\ Len(p \o x) = Len(q)
  BY <1>1, <1>2, <1>3, <1>4, <1>5
<1>7. ASSUME NEW i \in 1 .. Len(q) PROVE (p \o x)[i] = q[i]
  <2>1. i \in Nat /\ i \in 1 .. Len(p) + Len(x) /\ h + i \in 1 .. Len(d) + Len(x) /\ i \in 1 .. Len(e) - h
    BY <1>1, <1>2, <1>3, <1>4, <1>6
  <2>2. (p \o x)[i] = IF i <= Len(p) THEN p[i] ELSE x[i - Len(p)]
    BY <1>5, <2>1
  <2>3. q[i] = e[h + i] /\ e[h + i] = IF h + i <= Len(d) THEN d[h + i] ELSE x[h + i - Len(d)]
    <3>1. q[i] = e[h + i]
      BY <1>4, <2>1
    <3>2. PICK m \in 1 .. Len(d) + Len(x) : m = h + i
      BY <2>1
    <3>3. e[m] = IF m <= Len(d) THEN d[m] ELSE x[m - Len(d)]
      BY <1>2
    <3> QED BY <3>1, <3>2, <3>3
  <2>4. (i <= Len(p) <=> h + i <= Len(d)) /\ i - Len(p) = h + i - Len(d)
    BY <1>1, <1>3, <2>1
  <2>5. ASSUME i <= Len(p) PROVE p[i] = d[h + i]
    <3>1. i \in 1 .. Len(d) - h
      BY <1>1, <1>3, <2>1, <2>5
    <3> QED BY <1>3, <3>1
  <2> QED BY <2>2, <2>3, <2>4, <2>5
<1>8. p \o x = q
  BY <1>4, <1>5, <1>6, <1>7, SeqEqual
<1> QED BY <1>8 DEF e, p, q

\* A part of what is left comes before the rest of it.
LEMMA RestInParts ==
  ASSUME NEW d \in Seq(Nat), NEW h \in 0 .. Len(d), NEW k \in h .. Len(d)
  PROVE  /\ SubSeq(d, h + 1, k) \in Seq(Nat)
         /\ SubSeq(d, h + 1, k) \o SubSeq(d, k + 1, Len(d)) = SubSeq(d, h + 1, Len(d))
<1>1. Len(d) \in Nat /\ h \in Nat /\ k \in Nat /\ h <= k /\ k <= Len(d)
  OBVIOUS
<1>2. h + 1 \in 1 .. Len(d) + 1 /\ k \in h + 1 - 1 .. Len(d) /\ Len(d) \in k .. Len(d)
  BY <1>1
<1>3. h + 1 \in Int /\ k \in Int /\ \A i \in h + 1 .. k : d[i] \in Nat
  BY <1>1
<1>4. SubSeq(d, h + 1, k) \in Seq(Nat)
  BY <1>3, SubSeqProperties
<1>5. PICK m \in Int : m = h + 1
  BY <1>1
<1>6. m \in 1 .. Len(d) + 1 /\ k \in m - 1 .. Len(d) /\ Len(d) \in k .. Len(d)
  BY <1>2, <1>5
<1>7. SubSeq(d, m, k) \o SubSeq(d, k + 1, Len(d)) = SubSeq(d, m, Len(d))
  BY <1>6, ConcatAdjacentSubSeq, Zenon
<1> QED BY <1>4, <1>5, <1>7

\* A sequence is its head and its tail.
LEMMA TwoParts ==
  ASSUME NEW q \in Seq(Nat), NEW k \in 0 .. Len(q)
  PROVE  /\ SubSeq(q, 1, k) \in Seq(Nat) /\ SubSeq(q, k + 1, Len(q)) \in Seq(Nat)
         /\ Len(SubSeq(q, 1, k)) = k
         /\ SubSeq(q, 1, k) \o SubSeq(q, k + 1, Len(q)) = q
<1>1. Len(q) \in Nat /\ k \in Nat
  OBVIOUS
<1>2. SubSeq(q, 1, k) \in Seq(Nat) /\ SubSeq(q, 1, k) \o SubSeq(q, k + 1, Len(q)) = SubSeq(q, 1, Len(q))
  <2>1. PICK h \in 0 .. Len(q) : h = 0
    BY <1>1
  <2>2. k \in h .. Len(q)
    BY <2>1
  <2>3. SubSeq(q, h + 1, k) \in Seq(Nat) /\ SubSeq(q, h + 1, k) \o SubSeq(q, k + 1, Len(q)) = SubSeq(q, h + 1, Len(q))
    BY <2>2, RestInParts
  <2>4. h + 1 = 1
    BY <2>1
  <2> QED BY <2>3, <2>4
<1>3. SubSeq(q, k + 1, Len(q)) \in Seq(Nat)
  BY RestIs
<1>4. Len(SubSeq(q, 1, k)) = IF 1 <= k THEN k - 1 + 1 ELSE 0
  <2>1. \A i \in 1 .. k : q[i] \in Nat
    BY <1>1
  <2>2. 1 \in Int /\ k \in Int
    BY <1>1
  <2> QED BY <2>1, <2>2, SubSeqProperties
<1>5. Len(SubSeq(q, 1, k)) = k
  BY <1>1, <1>4
<1>6. SubSeq(q, 1, Len(q)) = q
  BY SubSeqFull
<1> QED BY <1>1, <1>2, <1>3, <1>5, <1>6, Zenon

LEMMA EmptyIs == \A q \in Seq(Nat) : q \o <<>> = q /\ <<>> \o q = q /\ (Len(q) = 0 => q = <<>>)
  BY ConcatEmptySeq, EmptySeq

LEMMA Associative ==
  \A s, t, u \in Seq(Nat) : (s \o t) \o u = s \o (t \o u)
<1> DEFINE N == Nat
<1> HIDE DEF N
<1>1. \A s, t, u \in Seq(N) : (s \o t) \o u = s \o (t \o u)
  BY ConcatAssociative
<1> QED BY <1>1, Zenon DEF N

\* The buffer is emptied when nothing is pending.
LEMMA EmptiedIs ==
  ASSUME NEW b, GoodBuffer(b), b.h = Len(b.data)
  PROVE  SameBytes(b, Emptied(b)) /\ Pending(b) = <<>> /\ Space(Emptied(b)) = b.s /\ Emptied(b).s = b.s
<1>1. Pending(b) = <<>>
  <2>1. Pending(b) \in Seq(Nat) /\ Len(Pending(b)) = 0
    BY PendingIs DEF GoodBuffer, BufferOK
  <2> QED BY <2>1, EmptyIs
<1>2. Pending(Emptied(b)) = <<>>
  BY DEF Pending, Emptied
<1>3. GoodBuffer(Emptied(b))
  BY DEF GoodBuffer, BufferOK, Emptied
<1>4. Space(Emptied(b)) = b.s /\ Emptied(b).s = b.s
  BY DEF Space, Emptied, GoodBuffer
<1> QED BY <1>1, <1>2, <1>3, <1>4 DEF SameBytes

\* It is moved to the start of the buffer.
LEMMA MovedDownIs ==
  ASSUME NEW b, GoodBuffer(b)
  PROVE  /\ SameBytes(b, MovedDown(b)) /\ MovedDown(b).s = b.s
         /\ b.h > 0 => Space(MovedDown(b)) > 0
<1>1. /\ Pending(b) \in Seq(Nat) /\ Len(Pending(b)) = Len(b.data) - b.h
      /\ b.h \in Nat /\ b.s \in Nat /\ Len(b.data) \in Nat /\ b.h <= Len(b.data) /\ Len(b.data) <= b.s
  BY PendingIs DEF GoodBuffer, BufferOK
<1> DEFINE p == Pending(b)
           c == [data |-> p, h |-> 0, s |-> b.s]
<1>2. MovedDown(b) = c
  BY DEF MovedDown
<1> HIDE DEF p
<1>3. p \in Seq(Nat) /\ Len(p) = Len(b.data) - b.h
  BY <1>1 DEF p
<1>4. GoodBuffer(c)
  BY <1>1, <1>3 DEF GoodBuffer, BufferOK
<1>5. Pending(c) = p
  <2>1. Pending(c) = SubSeq(p, 1, Len(p))
    BY DEF Pending
  <2> QED BY <2>1, <1>3, SubSeqFull
<1>6. b.h > 0 => Space(c) > 0
  BY <1>1, <1>3 DEF Space
<1>7. p = Pending(b)
  BY DEF p
<1> HIDE DEF c
<1> QED BY <1>2, <1>4, <1>5, <1>6, <1>7 DEF SameBytes, c

\* Its size changes.
LEMMA ResizedIs ==
  ASSUME NEW b, GoodBuffer(b), NEW n \in Nat, Len(b.data) <= n
  PROVE  /\ SameBytes(b, [b EXCEPT !.s = n]) /\ Space([b EXCEPT !.s = n]) = n - Len(b.data)
         /\ [b EXCEPT !.s = n].h = b.h /\ [b EXCEPT !.s = n].data = b.data
<1> DEFINE c == [b EXCEPT !.s = n]
<1>1. c.h = b.h /\ c.data = b.data /\ c.s = n /\ c \in [data : Seq(Nat), h : Nat, s : Nat]
  BY DEF GoodBuffer
<1> HIDE DEF c
<1>2. GoodBuffer(c)
  BY <1>1 DEF GoodBuffer, BufferOK
<1>3. Pending(c) = Pending(b) /\ Space(c) = n - Len(b.data)
  BY <1>1 DEF Pending, Space
<1> QED BY <1>1, <1>2, <1>3 DEF SameBytes, c

\* Bytes are added to it.
LEMMA AddedIs ==
  ASSUME NEW b, GoodBuffer(b), NEW x \in Seq(Nat), Len(x) <= Space(b)
  PROVE  /\ GoodBuffer([b EXCEPT !.data = @ \o x])
         /\ Pending([b EXCEPT !.data = @ \o x]) = Pending(b) \o x
<1> DEFINE e == b.data \o x
           c == [b EXCEPT !.data = e]
<1>1. /\ b.data \in Seq(Nat) /\ Len(b.data) \in Nat /\ b.h \in Nat /\ b.s \in Nat /\ Len(x) \in Nat
      /\ b.h \in 0 .. Len(b.data) /\ Len(b.data) <= b.s /\ Len(x) <= b.s - Len(b.data)
  BY DEF GoodBuffer, BufferOK, Space
<1>2. e \in Seq(Nat) /\ Len(e) = Len(b.data) + Len(x)
  BY <1>1, ConcatProperties
<1>3. SubSeq(e, b.h + 1, Len(e)) = SubSeq(b.data, b.h + 1, Len(b.data)) \o x
  BY <1>1, RestOfConcat
<1> HIDE DEF e
<1>4. c.h = b.h /\ c.s = b.s /\ c.data = e /\ c \in [data : Seq(Nat), h : Nat, s : Nat]
  BY <1>2 DEF GoodBuffer
<1> HIDE DEF c
<1>5. BufferOK(c)
  BY <1>1, <1>2, <1>4 DEF BufferOK
<1>6. Pending(c) = Pending(b) \o x
  BY <1>3, <1>4 DEF Pending
<1> QED BY <1>4, <1>5, <1>6 DEF c, e, GoodBuffer

\* Some of it is taken from its head.
LEMMA HeadIs ==
  ASSUME NEW b, GoodBuffer(b), NEW k \in b.h .. Len(b.data)
  PROVE  /\ GoodBuffer([b EXCEPT !.h = k])
         /\ SubSeq(b.data, b.h + 1, k) \in Seq(Nat)
         /\ SubSeq(b.data, b.h + 1, k) \o Pending([b EXCEPT !.h = k]) = Pending(b)
         /\ Pending([b EXCEPT !.h = k]) \in Seq(Nat)
<1> DEFINE c == [b EXCEPT !.h = k]
<1>1. /\ b.data \in Seq(Nat) /\ Len(b.data) \in Nat /\ b.h \in 0 .. Len(b.data) /\ k \in 0 .. Len(b.data)
      /\ Len(b.data) <= b.s
  BY DEF GoodBuffer, BufferOK
<1>2. c.h = k /\ c.s = b.s /\ c.data = b.data /\ c \in [data : Seq(Nat), h : Nat, s : Nat]
  BY <1>1 DEF GoodBuffer
<1> HIDE DEF c
<1>3. GoodBuffer(c)
  BY <1>1, <1>2 DEF GoodBuffer, BufferOK
<1>4. /\ SubSeq(b.data, b.h + 1, k) \in Seq(Nat)
      /\ SubSeq(b.data, b.h + 1, k) \o SubSeq(b.data, k + 1, Len(b.data)) = SubSeq(b.data, b.h + 1, Len(b.data))
  BY <1>1, RestInParts
<1>5. Pending(c) = SubSeq(b.data, k + 1, Len(b.data)) /\ Pending(b) = SubSeq(b.data, b.h + 1, Len(b.data))
  BY <1>2 DEF Pending
<1>6. Pending(c) \in Seq(Nat)
  BY <1>3, PendingIs
<1> QED BY <1>3, <1>4, <1>5, <1>6 DEF c

-----------------------------------------------------------------------------
(* The calls on one buffer.                                                *)

LEMMA BufferIs ==
  ASSUME NEW b, GoodBuffer(b)
  PROVE  /\ b.data \in Seq(Nat) /\ Len(b.data) \in Nat /\ b.h \in Nat /\ b.s \in Nat
         /\ b.h <= Len(b.data) /\ Len(b.data) <= b.s
         /\ Space(b) \in Nat /\ Space(b) = b.s - Len(b.data)
BY DEF GoodBuffer, BufferOK, Space

\* biofill() makes room.
LEMMA ReadyIs ==
  ASSUME NEW b, GoodBuffer(b)
  PROVE  SameBytes(b, Ready(b)) /\ Space(Ready(b)) > 0
<1> DEFINE c == IF b.h = Len(b.data) THEN Emptied(b) ELSE b
           n == Sizebuf(c.s, AtLeast(2 * c.s, Hint))
           d == IF Space(c) > 0 THEN c ELSE IF c.h > 0 THEN MovedDown(c) ELSE [c EXCEPT !.s = n]
           e == IF d.s > Hint /\ Len(d.data) < Hint THEN [d EXCEPT !.s = Hint] ELSE d
<1>1. Ready(b) = e
  BY DEF Ready
<1>2. Hint \in Nat /\ Hint > 0
  BY BufIoAssumption
<1>3. SameBytes(b, c)
  BY EmptiedIs DEF SameBytes
<1> HIDE DEF c
<1>4. GoodBuffer(c)
  BY <1>3 DEF SameBytes
<1>5. c.s \in Nat /\ Len(c.data) \in Nat /\ Len(c.data) <= c.s /\ Space(c) = c.s - Len(c.data)
  BY <1>4, BufferIs
<1>6. n \in Nat /\ n > c.s
  <2>1. AtLeast(2 * c.s, Hint) \in Nat /\ AtLeast(2 * c.s, Hint) > c.s
    BY <1>2, <1>5 DEF AtLeast
  <2>2. n \in Nat /\ n >= AtLeast(2 * c.s, Hint)
    BY <1>5, <2>1, SizebufIs
  <2> QED BY <1>5, <2>1, <2>2
<1> HIDE DEF n
<1>7. SameBytes(c, d) /\ Space(d) > 0
  <2>1. CASE Space(c) > 0
    BY <1>4, <2>1 DEF SameBytes
  <2>2. CASE ~(Space(c) > 0) /\ c.h > 0
    BY <1>4, <2>2, MovedDownIs
  <2>3. CASE ~(Space(c) > 0) /\ ~(c.h > 0)
    <3>1. Len(c.data) <= n /\ n - Len(c.data) > 0
      BY <1>5, <1>6
    <3>2. SameBytes(c, [c EXCEPT !.s = n]) /\ Space([c EXCEPT !.s = n]) = n - Len(c.data)
      BY <1>4, <1>6, <3>1, ResizedIs
    <3> QED BY <2>3, <3>1, <3>2
  <2> QED BY <2>1, <2>2, <2>3
<1> HIDE DEF d
<1>8. GoodBuffer(d)
  BY <1>7 DEF SameBytes
<1>9. SameBytes(d, e) /\ Space(e) > 0
  <2>1. CASE d.s > Hint /\ Len(d.data) < Hint
    <3>1. Len(d.data) \in Nat /\ Len(d.data) <= Hint /\ Hint - Len(d.data) > 0
      BY <1>2, <1>8, <2>1, BufferIs
    <3>2. SameBytes(d, [d EXCEPT !.s = Hint]) /\ Space([d EXCEPT !.s = Hint]) = Hint - Len(d.data)
      BY <1>2, <1>8, <3>1, ResizedIs
    <3> QED BY <2>1, <3>1, <3>2
  <2>2. CASE ~(d.s > Hint /\ Len(d.data) < Hint)
    BY <1>7, <1>8, <2>2 DEF SameBytes
  <2> QED BY <2>1, <2>2
<1> HIDE DEF e
<1> QED BY <1>1, <1>3, <1>7, <1>9 DEF SameBytes

\* bioflush() writes a part of what is pending, or all of it.
WrittenTo(b, c, x) == GoodBuffer(c) /\ x \in Seq(Nat) /\ x \o Pending(c) = Pending(b)

LEMMA FlushedIs ==
  ASSUME NEW b, GoodBuffer(b), NEW f \in Flushed(b)
  PROVE  /\ WrittenTo(b, f.b, SubSeq(b.data, b.h + 1, f.b.h))
         /\ f.ok \in BOOLEAN
         /\ f.ok => f.b.h = Len(f.b.data)
         /\ f.b.s = b.s
<1>0. b.h \in Nat /\ Len(b.data) \in Nat /\ b.h <= Len(b.data) /\ b \in [data : Seq(Nat), h : Nat, s : Nat]
  BY BufferIs DEF GoodBuffer
<1>1. PICK k \in b.h .. Len(b.data) : f.b = [b EXCEPT !.h = k] /\ f.ok \in BOOLEAN /\ (f.ok => k = Len(b.data))
  <2> DEFINE Upto(k) == [b EXCEPT !.h = k]
  <2>1. f = [b |-> Upto(Len(b.data)), ok |-> TRUE] \/ \E k \in b.h .. Len(b.data) - 1 : f = [b |-> Upto(k), ok |-> FALSE]
    BY DEF Flushed
  <2> HIDE DEF Upto
  <2>2. \E k \in b.h .. Len(b.data) : f.b = Upto(k) /\ f.ok \in BOOLEAN /\ (f.ok => k = Len(b.data))
    <3>1. CASE f = [b |-> Upto(Len(b.data)), ok |-> TRUE]
      <4>1. Len(b.data) \in b.h .. Len(b.data)
        BY <1>0
      <4> QED BY <3>1, <4>1
    <3>2. ASSUME NEW k \in b.h .. Len(b.data) - 1, f = [b |-> Upto(k), ok |-> FALSE]
          PROVE  \E i \in b.h .. Len(b.data) : f.b = Upto(i) /\ f.ok \in BOOLEAN /\ (f.ok => i = Len(b.data))
      <4>1. k \in b.h .. Len(b.data)
        BY <1>0
      <4> QED BY <3>2, <4>1
    <3> QED BY <2>1, <3>1, <3>2
  <2> QED BY <2>2 DEF Upto
<1> DEFINE c == [b EXCEPT !.h = k]
<1>2. c.h = k /\ c.data = b.data /\ c.s = b.s
  BY <1>0
<1>3. WrittenTo(b, c, SubSeq(b.data, b.h + 1, k))
  BY HeadIs DEF WrittenTo
<1>4. f.b = c
  BY <1>1
<1> HIDE DEF c
<1> QED BY <1>1, <1>2, <1>3, <1>4

\* biowensure() makes room for n bytes, unless it fails.
LEMMA EnsuredIs ==
  ASSUME NEW b, GoodBuffer(b), NEW n \in Nat, NEW e \in Ensured(b, n)
  PROVE  /\ WrittenTo(b, e.b, SubSeq(b.data, b.h + 1, e.mid.h))
         /\ e.ok \in BOOLEAN
         /\ e.ok => Space(e.b) >= n
<1>0. Hint \in Nat /\ Hint > 0
  BY BufIoAssumption
<1>1. CASE Space(b) >= n
  <2>1. e = [b |-> b, mid |-> b, ok |-> TRUE]
    BY <1>1 DEF Ensured
  <2>2. SubSeq(b.data, b.h + 1, b.h) = <<>>
    <3>1. b.h + 1 \in Int /\ b.h \in Int /\ b.h < b.h + 1
      BY BufferIs
    <3> QED BY <3>1, SubSeqEmpty
  <2>3. Pending(b) \in Seq(Nat)
    BY PendingIs
  <2>4. WrittenTo(b, b, <<>>)
    BY <2>3, EmptyIs DEF WrittenTo
  <2> QED BY <1>1, <2>1, <2>2, <2>4
<1>2. CASE ~(Space(b) >= n)
  <2> DEFINE m == IF b.s > Hint /\ n <= Hint THEN Hint ELSE Sizebuf(b.s, AtLeast(n, Hint))
             Made(f) == IF ~f.ok THEN f.b ELSE [Emptied(f.b) EXCEPT !.s = m]
  <2>1. m \in Nat /\ m >= n
    <3>1. AtLeast(n, Hint) \in Nat /\ AtLeast(n, Hint) >= n /\ b.s \in Nat
      BY <1>0, BufferIs DEF AtLeast
    <3>2. Sizebuf(b.s, AtLeast(n, Hint)) \in Nat /\ Sizebuf(b.s, AtLeast(n, Hint)) >= AtLeast(n, Hint)
      BY <3>1, SizebufIs
    <3> QED BY <1>0, <3>1, <3>2
  <2>2. PICK f \in Flushed(b) : e = [mid |-> f.b, ok |-> f.ok, b |-> Made(f)]
    <3>1. \A f \in Flushed(b) : Emptied(f.b).s = b.s
      BY FlushedIs DEF Emptied
    <3>2. PICK f \in Flushed(b) :
            e = [mid |-> f.b, ok |-> f.ok,
                 b |-> IF ~f.ok THEN f.b
                       ELSE [Emptied(f.b) EXCEPT !.s = IF b.s > Hint /\ n <= Hint THEN Hint
                                                       ELSE Sizebuf(@, AtLeast(n, Hint))]]
      BY <1>2 DEF Ensured
    <3> QED BY <3>1, <3>2
  <2> HIDE DEF m
  <2>3. /\ WrittenTo(b, f.b, SubSeq(b.data, b.h + 1, f.b.h)) /\ f.ok \in BOOLEAN
        /\ f.ok => f.b.h = Len(f.b.data)
    BY FlushedIs
  <2>4. CASE ~f.ok
    BY <2>2, <2>3, <2>4
  <2>5. CASE f.ok
    <3> DEFINE c == Emptied(f.b)
    <3>1. GoodBuffer(f.b) /\ f.b.h = Len(f.b.data)
      BY <2>3, <2>5 DEF WrittenTo
    <3>2. SameBytes(f.b, c)
      BY <3>1, EmptiedIs
    <3>3. Len(c.data) = 0
      BY DEF Emptied
    <3> HIDE DEF c
    <3>4. GoodBuffer(c) /\ Pending(c) = Pending(f.b)
      BY <3>2 DEF SameBytes
    <3>5. SameBytes(c, [c EXCEPT !.s = m]) /\ Space([c EXCEPT !.s = m]) = m - Len(c.data)
      <4>1. Len(c.data) <= m
        BY <2>1, <3>3
      <4> QED BY <2>1, <3>4, <4>1, ResizedIs
    <3> DEFINE d == [c EXCEPT !.s = m]
    <3>6. e = [mid |-> f.b, ok |-> f.ok, b |-> d]
      BY <2>2, <2>5 DEF c
    <3>7. SameBytes(c, d) /\ Space(d) >= n
      BY <2>1, <3>3, <3>5
    <3> HIDE DEF d
    <3>8. WrittenTo(b, d, SubSeq(b.data, b.h + 1, f.b.h))
      BY <2>3, <3>4, <3>7 DEF WrittenTo, SameBytes
    <3> QED BY <2>3, <3>6, <3>7, <3>8
  <2> QED BY <2>4, <2>5
<1> QED BY <1>1, <1>2

\* biowritesome() and biocopybuf() before they add to the buffer.
LEMMA SizedIs == ASSUME NEW b, GoodBuffer(b) PROVE SameBytes(b, Sized(b))
<1> DEFINE n == Sizebuf(b.s, Hint)
<1>1. n \in Nat /\ Len(b.data) <= n
  <2>1. Hint \in Nat
    BY BufIoAssumption
  <2>2. b.s \in Nat /\ Len(b.data) \in Nat /\ Len(b.data) <= b.s
    BY BufferIs
  <2>3. n \in Nat /\ n >= b.s
    BY <2>1, <2>2, SizebufIs
  <2> QED BY <2>2, <2>3
<1>2. Sized(b) = [b EXCEPT !.s = n]
  BY DEF Sized
<1> HIDE DEF n
<1> QED BY <1>1, <1>2, ResizedIs

LEMMA CompactIs == ASSUME NEW b, GoodBuffer(b) PROVE SameBytes(b, Compact(b))
BY MovedDownIs DEF Compact, SameBytes

LEMMA WriteReadyIs == ASSUME NEW b, GoodBuffer(b) PROVE SameBytes(b, WriteReady(b))
<1> DEFINE c == Sized(b)
           d == IF c.h = Len(c.data) THEN Emptied(c) ELSE c
<1>1. WriteReady(b) = Compact(d)
  BY DEF WriteReady
<1>2. SameBytes(b, c)
  BY SizedIs
<1> HIDE DEF c
<1>3. GoodBuffer(c)
  BY <1>2 DEF SameBytes
<1>4. SameBytes(c, d)
  BY <1>3, EmptiedIs DEF SameBytes
<1> HIDE DEF d
<1>5. SameBytes(d, Compact(d))
  BY <1>4, CompactIs DEF SameBytes
<1> QED BY <1>1, <1>2, <1>4, <1>5 DEF SameBytes

\* The head of what is left of a sequence.
LEMMA HeadOfRest ==
  ASSUME NEW d \in Seq(Nat), NEW h \in 0 .. Len(d), NEW k \in h + 1 .. Len(d)
  PROVE  SubSeq(SubSeq(d, h + 1, Len(d)), 1, k - h) = SubSeq(d, h + 1, k)
<1>1. Len(d) \in Nat /\ h \in Nat /\ k \in Nat /\ h + 1 <= k /\ k <= Len(d)
  OBVIOUS
<1>2. PICK i \in 1 .. Len(d) : i = h + 1
  BY <1>1
<1>3. PICK j \in 1 .. Len(d) : j = Len(d)
  BY <1>1
<1>4. PICK n \in 1 .. j - i + 1 : n = k - h
  BY <1>1, <1>2, <1>3
<1>5. 1 \in 1 .. j - i + 1
  BY <1>1, <1>2, <1>3
<1>6. SubSeq(SubSeq(d, i, j), 1, n) = SubSeq(d, i + 1 - 1, i + n - 1)
  BY <1>5, SubSeqOfSubSeq
<1>7. i + 1 - 1 = i /\ i + n - 1 = k
  BY <1>1, <1>2, <1>4
<1> QED BY <1>2, <1>3, <1>4, <1>6, <1>7

\* What was added is taken back.
LEMMA TakenBack ==
  ASSUME NEW d \in Seq(Nat), NEW x \in Seq(Nat)
  PROVE  SubSeq(d \o x, 1, Len(d \o x) - Len(x)) = d
<1> DEFINE e == d \o x
           n == Len(e) - Len(x)
           p == SubSeq(e, 1, n)
<1>1. /\ Len(e) = Len(d) + Len(x) /\ Len(d) \in Nat /\ Len(x) \in Nat
      /\ \A j \in 1 .. Len(d) + Len(x) : e[j] = IF j <= Len(d) THEN d[j] ELSE x[j - Len(d)]
  BY ConcatProperties
<1>2. n = Len(d)
  BY <1>1
<1> HIDE DEF e, n
<1>3. \A j \in 1 .. n : e[j] = d[j]
  BY <1>1, <1>2
<1>4. \A j \in 1 .. n : e[j] \in Nat
  BY <1>2, <1>3
<1>5. 1 \in Int /\ n \in Int /\ n \in Nat
  BY <1>1, <1>2
<1>6. /\ p \in Seq(Nat) /\ Len(p) = IF 1 <= n THEN n - 1 + 1 ELSE 0
      /\ \A j \in 1 .. n - 1 + 1 : p[j] = e[1 + j - 1]
  BY <1>4, <1>5, SubSeqProperties
<1> HIDE DEF p
<1>7. Len(p) = Len(d)
  BY <1>2, <1>5, <1>6
<1>8. ASSUME NEW j \in 1 .. Len(p) PROVE p[j] = d[j]
  <2>1. j \in 1 .. n - 1 + 1 /\ 1 + j - 1 = j /\ j \in 1 .. n
    BY <1>2, <1>5, <1>7
  <2> QED BY <1>3, <1>6, <2>1
<1>9. p = d
  BY <1>6, <1>7, <1>8, SeqEqual
<1> QED BY <1>9 DEF p, n, e

\* What biowritesome() may come to: what was pending, with what it takes, has been written or is
\* pending.
LEMMA SomeWrittenIs ==
  ASSUME GoodBuffer(wbuf), NEW q \in Seq(Nat), NEW o \in SomeWritten(q)
  PROVE  /\ GoodBuffer(o.b) /\ o.ret \in 0 .. Len(q)
         /\ SubSeq(Pending(wbuf) \o SubSeq(q, 1, o.ret), 1, o.k) \in Seq(Nat)
         /\ SubSeq(Pending(wbuf) \o SubSeq(q, 1, o.ret), 1, o.k) \o Pending(o.b)
              = Pending(wbuf) \o SubSeq(q, 1, o.ret)
<1> DEFINE b == WriteReady(wbuf)
           ret == AtMost(Len(q), Space(b))
           x == SubSeq(q, 1, ret)
           c == [b EXCEPT !.data = @ \o x]
           p == Pending(wbuf)
           Upto(k) == [c EXCEPT !.h = k]
<1>1. \/ \E k \in c.h + 1 .. Len(c.data) : o = Some(Upto(k), ret, k - c.h, TRUE)
      \/ Pending(c) = <<>> /\ o = Some(c, 0, 0, FALSE)
      \/ Pending(c) # <<>> /\ o = SomeFailed(c, ret)
  BY Zenon DEF SomeWritten
<1>2. GoodBuffer(b) /\ Pending(b) = p /\ p \in Seq(Nat)
  BY WriteReadyIs, PendingIs DEF SameBytes
<1> HIDE DEF b
<1>3. Space(b) \in Nat /\ Len(q) \in Nat /\ b.data \in Seq(Nat) /\ b \in [data : Seq(Nat), h : Nat, s : Nat]
  BY <1>2, BufferIs DEF GoodBuffer
<1>4. ret \in 0 .. Len(q) /\ ret <= Space(b)
  BY <1>3 DEF AtMost
<1> HIDE DEF ret
<1>5. x \in Seq(Nat) /\ Len(x) = ret
  BY <1>4, TwoParts
<1>6. SubSeq(q, 1, 0) = <<>>
  <2>1. 1 \in Int /\ 0 \in Int /\ 0 < 1
    OBVIOUS
  <2> QED BY <2>1, SubSeqEmpty
<1>7. x = SubSeq(q, 1, ret)
  OBVIOUS
<1> HIDE DEF x
<1>8. GoodBuffer(c) /\ Pending(c) = p \o x /\ p \o x \in Seq(Nat)
  BY <1>2, <1>4, <1>5, AddedIs, ConcatProperties
<1>9. c.data = b.data \o x
  BY <1>3
<1>10. SubSeq(p \o x, 1, 0) = <<>> /\ SubSeq(p \o <<>>, 1, 0) = <<>>
  <2>1. 1 \in Int /\ 0 \in Int /\ 0 < 1
    OBVIOUS
  <2> QED BY <2>1, SubSeqEmpty
<1>11. p \o <<>> = p /\ <<>> \in Seq(Nat)
  BY <1>2, EmptyIs
<1> DEFINE y == SubSeq(q, 1, o.ret)
           z == SubSeq(p \o y, 1, o.k)
<1> SUFFICES GoodBuffer(o.b) /\ o.ret \in 0 .. Len(q) /\ z \in Seq(Nat) /\ z \o Pending(o.b) = p \o y
  OBVIOUS
<1> HIDE DEF p
<1>12. ASSUME NEW k \in c.h + 1 .. Len(c.data), o = Some(Upto(k), ret, k - c.h, TRUE)
       PROVE  GoodBuffer(o.b) /\ o.ret \in 0 .. Len(q) /\ z \in Seq(Nat) /\ z \o Pending(o.b) = p \o y
  <2>1. o.b = Upto(k) /\ o.ret = ret /\ o.k = k - c.h
    BY <1>12 DEF Some
  <2>2. c.data \in Seq(Nat) /\ c.h \in 0 .. Len(c.data) /\ k \in c.h .. Len(c.data)
    <3> HIDE DEF c
    <3> QED BY <1>8, BufferIs
  <2> HIDE DEF c
  <2>3. /\ GoodBuffer(Upto(k)) /\ SubSeq(c.data, c.h + 1, k) \in Seq(Nat)
        /\ SubSeq(c.data, c.h + 1, k) \o Pending(Upto(k)) = Pending(c)
    BY <1>8, <2>2, HeadIs
  <2>4. SubSeq(Pending(c), 1, k - c.h) = SubSeq(c.data, c.h + 1, k)
    BY <2>2, HeadOfRest DEF Pending
  <2> HIDE DEF Upto
  <2>5. y = x
    BY <1>7, <2>1
  <2>6. z = SubSeq(c.data, c.h + 1, k)
    BY <1>8, <2>1, <2>4, <2>5
  <2> QED BY <1>4, <1>8, <2>1, <2>3, <2>5, <2>6
<1> HIDE DEF Upto
<1>13. CASE Pending(c) = <<>> /\ o = Some(c, 0, 0, FALSE)
  <2>1. o.b = c /\ o.ret = 0 /\ o.k = 0
    BY <1>13 DEF Some
  <2>2. p = <<>>
    <3>1. p \o x = <<>>
      BY <1>8, <1>13
    <3> QED BY <1>2, <1>5, <3>1, ConcatEqualIffEmpty
  <2>3. y = <<>>
    BY <1>6, <2>1
  <2>4. z = <<>>
    BY <1>10, <2>1, <2>3
  <2>5. z \o Pending(o.b) = p \o y
    BY <1>11, <1>13, <2>1, <2>2, <2>3, <2>4
  <2>6. 0 \in 0 .. Len(q)
    BY <1>3
  <2> QED BY <1>8, <1>11, <2>1, <2>4, <2>5, <2>6
<1>14. CASE o = SomeFailed(c, ret) /\ ret < Len(Pending(c))
  <2> DEFINE u == SubSeq(c.data, 1, Len(c.data) - ret)
  <2>1. o = Some([c EXCEPT !.data = u], 0, 0, TRUE)
    BY <1>14 DEF SomeFailed
  <2>2. u = b.data
    BY <1>3, <1>5, <1>9, TakenBack
  <2>3. [c EXCEPT !.data = u] = b
    <3> HIDE DEF u
    <3>1. [c EXCEPT !.data = u] = [b EXCEPT !.data = u]
      BY <1>3
    <3>2. [b EXCEPT !.data = b.data] = b
      BY <1>3
    <3> QED BY <2>2, <3>1, <3>2
  <2>4. o.b = b /\ o.ret = 0 /\ o.k = 0
    BY <2>1, <2>3 DEF Some
  <2>5. y = <<>>
    BY <1>6, <2>4
  <2>6. z = <<>>
    BY <1>10, <2>4, <2>5
  <2>7. z \o Pending(o.b) = p \o y
    BY <1>2, <1>11, <2>4, <2>5, <2>6, EmptyIs
  <2>8. 0 \in 0 .. Len(q)
    BY <1>3
  <2> QED BY <1>2, <1>11, <2>4, <2>6, <2>7, <2>8
<1>15. CASE o = SomeFailed(c, ret) /\ ~(ret < Len(Pending(c)))
  <2>1. o = Some(c, ret, 0, TRUE)
    BY <1>15 DEF SomeFailed
  <2>2. o.b = c /\ o.ret = ret /\ o.k = 0
    BY <2>1 DEF Some
  <2> HIDE DEF c
  <2>3. y = x
    BY <1>7, <2>2
  <2>4. z = <<>>
    BY <1>10, <2>2, <2>3
  <2>5. z \o Pending(o.b) = p \o y
    BY <1>8, <2>2, <2>3, <2>4, EmptyIs
  <2> QED BY <1>4, <1>8, <1>11, <2>2, <2>4, <2>5
<1> QED BY <1>1, <1>12, <1>13, <1>14, <1>15

-----------------------------------------------------------------------------
(* The inductive invariant.                                                *)

ReadOK ==
  /\ GoodBuffer(rbuf) /\ got \in Seq(Nat) /\ input \in Seq(Nat) /\ eof \in BOOLEAN
  /\ got \o Pending(rbuf) \o input = Source
  /\ eof => input = <<>>

WriteOK ==
  /\ GoodBuffer(wbuf) /\ job \in Seq(Nat) /\ accepted \in Seq(Nat) /\ output \in Seq(Nat)
  /\ output \o Pending(wbuf) = accepted

\* A descriptor has one owner.
FdsOK ==
  /\ nfds \in Nat /\ rights \in 0 .. nfds /\ sendrights \in 0 .. nfds /\ taken \subseteq 1 .. nfds
  /\ rights # NoFd => rights # sendrights
  /\ {rights, sendrights} \cap taken = {}
  /\ open = (({rights, sendrights} \cup taken) \ {NoFd})

BioInv == ReadOK /\ WriteOK /\ FdsOK /\ isopen \in BOOLEAN

LEMMA BioInitInv == BioInit => BioInv
<1> SUFFICES ASSUME BioInit PROVE BioInv
  OBVIOUS
<1>1. GoodBuffer(NewBuffer) /\ Pending(NewBuffer) = <<>>
  <2>1. <<>> \in Seq(Nat) /\ Len(<<>>) = 0
    BY EmptySeq
  <2>2. SubSeq(<<>>, 1, 0) = <<>>
    <3>1. 1 \in Int /\ 0 \in Int /\ 0 < 1
      OBVIOUS
    <3> QED BY <3>1, SubSeqEmpty
  <2> QED BY <2>1, <2>2 DEF GoodBuffer, BufferOK, NewBuffer, Pending
<1>2. <<>> \in Seq(Nat) /\ Source \in Seq(Nat)
  BY BufIoAssumption, EmptySeq
<1>3. <<>> \o <<>> = <<>> /\ <<>> \o Source = Source
  BY <1>2, EmptyIs
<1>4. ReadOK
  BY <1>1, <1>2, <1>3 DEF BioInit, ReadOK
<1>5. WriteOK
  BY <1>1, <1>2, <1>3 DEF BioInit, WriteOK
<1>6. FdsOK
  BY DEF BioInit, FdsOK, NoFd
<1> QED BY <1>4, <1>5, <1>6 DEF BioInit, BioInv

LEMMA SameReading == ReadOK /\ UNCHANGED reading => ReadOK'
<1> SUFFICES ASSUME ReadOK, UNCHANGED reading PROVE ReadOK'
  OBVIOUS
<1>1. rbuf' = rbuf /\ eof' = eof /\ input' = input /\ got' = got
  BY DEF reading
<1>2. GoodBuffer(rbuf)' /\ Pending(rbuf)' = Pending(rbuf)
  BY <1>1 DEF ReadOK, GoodBuffer, BufferOK, Pending
<1> QED BY <1>1, <1>2 DEF ReadOK

LEMMA SameWriting == WriteOK /\ UNCHANGED writing => WriteOK'
BY DEF WriteOK, writing, GoodBuffer, BufferOK, Pending

LEMMA SameFds == FdsOK /\ UNCHANGED fds => FdsOK'
BY DEF FdsOK, fds

\* Descriptors that come and go.
LEMMA RecvRightsOK == FdsOK /\ RecvRights => FdsOK'
<1> SUFFICES ASSUME FdsOK, RecvRights PROVE FdsOK'
  OBVIOUS
<1>1. CASE UNCHANGED fds
  BY <1>1, SameFds
<1>2. CASE nfds' = nfds + 1 /\ UNCHANGED <<sendrights, taken, rights, open>>
  BY <1>2 DEF FdsOK
<1>3. CASE /\ nfds' = nfds + 1 /\ UNCHANGED <<sendrights, taken>> /\ rights = NoFd
           /\ rights' = nfds + 1 /\ open' = open \cup {nfds + 1}
  BY <1>3 DEF FdsOK, NoFd
<1> QED BY <1>1, <1>2, <1>3 DEF RecvRights

LEMMA SendRightsOK == ASSUME FdsOK, SendRights \/ UNCHANGED fds PROVE FdsOK'
<1>1. CASE UNCHANGED fds
  BY <1>1, SameFds
<1>2. CASE SendRights
  BY <1>2 DEF SendRights, FdsOK, NoFd
<1> QED BY <1>1, <1>2

LEMMA CloseRightsOK == FdsOK /\ CloseRights => FdsOK'
BY DEF FdsOK, CloseRights, NoFd

-----------------------------------------------------------------------------
(* Reading.                                                                *)

\* Some of what is pending is given to the user.
LEMMA GivenOK ==
  ASSUME ReadOK, NEW k \in 0 .. Len(Pending(rbuf)),
         rbuf' = [rbuf EXCEPT !.h = @ + k], got' = got \o SubSeq(Pending(rbuf), 1, k),
         UNCHANGED <<eof, input>>
  PROVE  ReadOK'
<1> DEFINE p == Pending(rbuf)
           n == rbuf.h + k
           c == [rbuf EXCEPT !.h = n]
           x == SubSeq(p, 1, k)
<1>1. GoodBuffer(rbuf) /\ got \in Seq(Nat) /\ input \in Seq(Nat) /\ p \in Seq(Nat) /\ Len(p) = Len(rbuf.data) - rbuf.h
  BY PendingIs DEF ReadOK
<1>2. rbuf.h \in 0 .. Len(rbuf.data) /\ rbuf.data \in Seq(Nat) /\ Len(rbuf.data) \in Nat
  BY <1>1, BufferIs
<1>3. n \in rbuf.h .. Len(rbuf.data) /\ n \in Nat /\ k \in Nat
  <2>1. k \in Nat /\ k <= Len(p)
    BY <1>1
  <2>2. rbuf.h \in Nat /\ Len(rbuf.data) \in Nat /\ Len(p) = Len(rbuf.data) - rbuf.h
    BY <1>1, <1>2
  <2> DEFINE l == Len(p)
             d == Len(rbuf.data)
             h == rbuf.h
  <2>3. k \in Nat /\ k <= l /\ h \in Nat /\ d \in Nat /\ l = d - h
    BY <2>1, <2>2
  <2> HIDE DEF l, d, h
  <2>4. h + k \in h .. d /\ h + k \in Nat
    BY <2>3
  <2> QED BY <2>3, <2>4 DEF d, h
<1>4. x = SubSeq(rbuf.data, rbuf.h + 1, n)
  <2>1. CASE k = 0
    <3>1. x = <<>>
      BY <2>1, SubSeqEmpty
    <3>2. rbuf.h + 1 \in Int /\ n \in Int /\ n < rbuf.h + 1
      BY <1>2, <1>3, <2>1
    <3>3. SubSeq(rbuf.data, rbuf.h + 1, n) = <<>>
      BY <3>2, SubSeqEmpty
    <3> QED BY <3>1, <3>3
  <2>2. CASE k # 0
    <3>1. n \in rbuf.h + 1 .. Len(rbuf.data) /\ n - rbuf.h = k
      <4>1. rbuf.h \in Nat /\ k \in Nat /\ k # 0 /\ n \in rbuf.h .. Len(rbuf.data) /\ Len(rbuf.data) \in Nat
        BY <1>2, <1>3, <2>2
      <4> DEFINE h == rbuf.h
                 d == Len(rbuf.data)
      <4>2. h \in Nat /\ d \in Nat /\ h + k \in h .. d
        BY <4>1
      <4> HIDE DEF h, d
      <4>3. h + k \in h + 1 .. d /\ h + k - h = k
        BY <4>1, <4>2
      <4> QED BY <4>1, <4>3 DEF h, d
    <3> HIDE DEF n
    <3>2. SubSeq(SubSeq(rbuf.data, rbuf.h + 1, Len(rbuf.data)), 1, n - rbuf.h) = SubSeq(rbuf.data, rbuf.h + 1, n)
      BY <1>2, <3>1, HeadOfRest
    <3> QED BY <3>1, <3>2 DEF Pending
  <2> QED BY <2>1, <2>2
<1>5. rbuf' = c
  OBVIOUS
<1> HIDE DEF n
<1>6. GoodBuffer(c) /\ x \in Seq(Nat) /\ x \o Pending(c) = p /\ Pending(c) \in Seq(Nat)
  BY <1>1, <1>3, <1>4, HeadIs
<1>7. got' = got \o x
  OBVIOUS
<1> HIDE DEF x, c, p
<1>8. got \o x \in Seq(Nat)
  BY <1>1, <1>6, ConcatProperties
<1>9. (got \o x) \o Pending(c) = got \o p
  <2>1. (got \o x) \o Pending(c) = got \o (x \o Pending(c))
    <3>1. got \in Seq(Nat) /\ x \in Seq(Nat) /\ Pending(c) \in Seq(Nat)
      BY <1>1, <1>6
    <3> QED BY <3>1, Associative, Zenon
  <2> QED BY <1>6, <2>1
<1>10. got \o p \o input = Source
  BY DEF ReadOK, p
<1>11. Pending(rbuf') = Pending(c) /\ GoodBuffer(rbuf')
  BY <1>5, <1>6
<1>12. got' \o Pending(rbuf') \o input' = Source
  BY <1>7, <1>9, <1>10, <1>11
<1> QED BY <1>7, <1>8, <1>11, <1>12 DEF ReadOK, GoodBuffer, BufferOK, Pending

LEMMA FillOK == ASSUME ReadOK, FdsOK, Fill, UNCHANGED got PROVE ReadOK' /\ FdsOK'
<1> DEFINE b == Ready(rbuf)
<1>1. CASE UNCHANGED <<rbuf, eof, input, fds>>
  BY <1>1, SameReading, SameFds DEF reading
<1>2. SameBytes(rbuf, b) /\ Space(b) > 0 /\ Pending(rbuf) \in Seq(Nat) /\ got \in Seq(Nat) /\ input \in Seq(Nat)
  BY ReadyIs, PendingIs DEF ReadOK
<1>3. \/ \E k \in 1 .. AtMost(Space(b), Len(input)) :
           /\ rbuf' = [b EXCEPT !.data = @ \o SubSeq(input, 1, k)]
           /\ input' = SubSeq(input, k + 1, Len(input))
           /\ RecvRights
           /\ UNCHANGED eof
      \/ rbuf' = b /\ eof' = (input = <<>> \/ Space(b) = 0) /\ UNCHANGED <<input, fds>>
      \/ UNCHANGED <<rbuf, eof, input, fds>>
  BY DEF Fill
<1> HIDE DEF b
<1>4. GoodBuffer(b) /\ Pending(b) = Pending(rbuf)
  BY <1>2 DEF SameBytes
<1>5. ASSUME NEW k \in 1 .. AtMost(Space(b), Len(input)),
             rbuf' = [b EXCEPT !.data = @ \o SubSeq(input, 1, k)],
             input' = SubSeq(input, k + 1, Len(input)), RecvRights, UNCHANGED eof
      PROVE  ReadOK' /\ FdsOK'
  <2> DEFINE x == SubSeq(input, 1, k)
             c == [b EXCEPT !.data = @ \o x]
             p == Pending(rbuf)
  <2>1. k \in 0 .. Len(input) /\ k <= Space(b) /\ k # 0 /\ Len(input) \in Nat
    <3>1. Space(b) \in Nat /\ Len(input) \in Nat
      BY <1>2, <1>4, BufferIs
    <3> QED BY <3>1 DEF AtMost
  <2>2. /\ x \in Seq(Nat) /\ Len(x) = k /\ SubSeq(input, k + 1, Len(input)) \in Seq(Nat)
        /\ x \o SubSeq(input, k + 1, Len(input)) = input
    BY <1>2, <2>1, TwoParts
  <2>3. rbuf' = c
    BY <1>5
  <2> HIDE DEF x
  <2>4. GoodBuffer(c) /\ Pending(c) = Pending(b) \o x
    BY <1>4, <2>1, <2>2, AddedIs
  <2> HIDE DEF c
  <2>5. Pending(rbuf') = p \o x /\ GoodBuffer(rbuf')
    BY <1>4, <2>3, <2>4
  <2>6. input' \in Seq(Nat) /\ x \o input' = input
    BY <1>5, <2>2
  <2>7. got \o p \o input = Source /\ p \in Seq(Nat)
    BY <1>2 DEF ReadOK
  <2> HIDE DEF p
  <2>8. got \o (p \o x) \o input' = Source
    <3>1. got \o (p \o x) = (got \o p) \o x
      <4>1. got \in Seq(Nat) /\ p \in Seq(Nat) /\ x \in Seq(Nat)
        BY <1>2, <2>2, <2>7
      <4>2. (got \o p) \o x = got \o (p \o x)
        BY <4>1, Associative, Zenon
      <4> QED BY <4>2
    <3>2. got \o p \in Seq(Nat)
      BY <1>2, <2>7, ConcatProperties
    <3>3. ((got \o p) \o x) \o input' = (got \o p) \o (x \o input')
      <4>1. got \o p \in Seq(Nat) /\ x \in Seq(Nat) /\ input' \in Seq(Nat)
        BY <2>2, <2>6, <3>2
      <4> QED BY <4>1, Associative, Zenon
    <3> QED BY <2>6, <2>7, <3>1, <3>3
  <2>9. input # <<>>
    BY <2>1
  <2>10. ~eof /\ eof' = eof
    BY <1>5, <2>9 DEF ReadOK
  <2>11. ReadOK'
    BY <1>2, <2>5, <2>6, <2>8, <2>10 DEF ReadOK, GoodBuffer, BufferOK, Pending
  <2> QED BY <1>5, <2>11, RecvRightsOK
<1>6. CASE rbuf' = b /\ eof' = (input = <<>> \/ Space(b) = 0) /\ UNCHANGED <<input, fds>>
  <2>1. eof' = (input = <<>>) /\ eof' \in BOOLEAN
    BY <1>2, <1>6
  <2>2. GoodBuffer(rbuf') /\ Pending(rbuf') = Pending(rbuf)
    BY <1>4, <1>6
  <2>3. ReadOK'
    BY <1>6, <2>1, <2>2 DEF ReadOK, GoodBuffer, BufferOK, Pending
  <2> QED BY <1>6, <2>3, SameFds
<1> QED BY <1>1, <1>3, <1>5, <1>6

LEMMA FillSomeOK == ASSUME BioInv, NEW n, FillSome(n) PROVE BioInv'
<1>1. ReadOK' /\ FdsOK'
  BY FillOK DEF BioInv, FillSome
<1> QED BY <1>1, SameWriting DEF BioInv, FillSome

LEMMA AtMostIs == \A n, m \in Nat : AtMost(n, m) \in 0 .. m /\ AtMost(n, m) <= n /\ AtMost(n, m) \in Nat
BY DEF AtMost

LEMMA ReadSomeOK == ASSUME BioInv, NEW n \in Nat, ReadSome(n) PROVE BioInv'
<1> DEFINE k == AtMost(n, Len(Pending(rbuf)))
<1>1. got' = got \o SubSeq(Pending(rbuf), 1, k) /\ rbuf' = [rbuf EXCEPT !.h = @ + k]
  BY DEF ReadSome
<1>2. k \in 0 .. Len(Pending(rbuf))
  <2>1. Len(Pending(rbuf)) \in Nat
    BY PendingIs DEF BioInv, ReadOK
  <2> QED BY <2>1, AtMostIs
<1> HIDE DEF k
<1>3. ReadOK'
  BY <1>1, <1>2, GivenOK DEF BioInv, ReadSome
<1> QED BY <1>3, SameWriting, SameFds DEF BioInv, ReadSome

-----------------------------------------------------------------------------
(* Writing.                                                                *)

LEMMA BytesAre == ASSUME WriteOK, NEW n \in Nat PROVE Bytes(n) \in Seq(Nat) /\ Len(Bytes(n)) = n
<1>1. Len(accepted) \in Nat
  BY DEF WriteOK
<1>2. Bytes(n) \in [1 .. n -> Nat]
  BY <1>1 DEF Bytes
<1> QED BY <1>2

\* What was written comes after what was written before, and before what is pending then.
LEMMA OutputIs ==
  ASSUME WriteOK, NEW c, NEW x, WrittenTo(wbuf, c, x)
  PROVE  output \o x \in Seq(Nat) /\ output \o x \o Pending(c) = accepted
<1>1. output \in Seq(Nat) /\ x \in Seq(Nat) /\ Pending(c) \in Seq(Nat)
  BY PendingIs DEF WriteOK, WrittenTo
<1>2. (output \o x) \o Pending(c) = output \o (x \o Pending(c))
  BY <1>1, Associative, Zenon
<1>3. output \o x \in Seq(Nat)
  BY <1>1, ConcatProperties
<1> QED BY <1>2, <1>3 DEF WriteOK, WrittenTo

\* The same with bytes that are added, and taken from the user.
LEMMA OutputWith ==
  ASSUME NEW o \in Seq(Nat), NEW b, GoodBuffer(b), o \o Pending(b) = accepted, NEW x \in Seq(Nat),
         Len(x) <= Space(b)
  PROVE  /\ GoodBuffer([b EXCEPT !.data = @ \o x])
         /\ o \o Pending([b EXCEPT !.data = @ \o x]) = accepted \o x
<1> DEFINE c == [b EXCEPT !.data = @ \o x]
<1>1. GoodBuffer(c) /\ Pending(c) = Pending(b) \o x
  BY AddedIs
<1> HIDE DEF c
<1>2. Pending(b) \in Seq(Nat)
  BY PendingIs
<1>3. (o \o Pending(b)) \o x = o \o (Pending(b) \o x)
  BY <1>2, Associative, Zenon
<1> QED BY <1>1, <1>3 DEF c

LEMMA WriteThen ==
  ASSUME GoodBuffer(wbuf'), job' \in Seq(Nat), accepted' \in Seq(Nat), output' \in Seq(Nat),
         output' \o Pending(wbuf') = accepted'
  PROVE  WriteOK'
BY DEF WriteOK, GoodBuffer, BufferOK, Pending

LEMMA Unread == ASSUME BioInv, WriteOK', FdsOK', UNCHANGED <<reading, isopen>> PROVE BioInv'
BY SameReading DEF BioInv

LEMMA FlushOK == ASSUME BioInv, Flush PROVE BioInv'
<1>1. PICK k \in wbuf.h .. Len(wbuf.data) : wbuf' = [wbuf EXCEPT !.h = k] /\ Writes(wbuf, wbuf')
  BY DEF Flush
<1> DEFINE c == [wbuf EXCEPT !.h = k]
           x == SubSeq(wbuf.data, wbuf.h + 1, k)
<1>2. WrittenTo(wbuf, c, x)
  BY HeadIs DEF BioInv, WriteOK, WrittenTo
<1>3. c.h = k
  BY DEF BioInv, WriteOK, GoodBuffer
<1>4. wbuf' = c /\ output' = output \o x
  BY <1>1, <1>3 DEF Writes
<1>5. /\ accepted' = accepted /\ job' = job /\ UNCHANGED <<reading, isopen>>
      /\ (SendRights \/ UNCHANGED fds)
  BY DEF Flush, SendsIf
<1> HIDE DEF c, x
<1>6. WriteOK'
  <2>1. output \o x \in Seq(Nat) /\ output \o x \o Pending(c) = accepted
    BY <1>2, OutputIs DEF BioInv
  <2>2. GoodBuffer(wbuf')
    BY <1>2, <1>4 DEF WrittenTo
  <2>3. output' \in Seq(Nat) /\ output' \o Pending(wbuf') = accepted'
    BY <1>4, <1>5, <2>1
  <2>4. job' \in Seq(Nat) /\ accepted' \in Seq(Nat)
    BY <1>5 DEF BioInv, WriteOK
  <2> QED BY <2>2, <2>3, <2>4, WriteThen
<1>7. FdsOK'
  BY <1>5, SendRightsOK DEF BioInv
<1> QED BY <1>5, <1>6, <1>7, Unread

\* A call that ensures room, and then leaves what was ensured or adds x to it.
LEMMA EnsuredThen ==
  ASSUME BioInv, NEW n \in Nat, NEW e \in Ensured(wbuf, n), NEW x \in Seq(Nat)
  PROVE  /\ output \o SubSeq(wbuf.data, wbuf.h + 1, e.mid.h) \in Seq(Nat)
         /\ output \o SubSeq(wbuf.data, wbuf.h + 1, e.mid.h) \o Pending(e.b) = accepted
         /\ GoodBuffer(e.b) /\ Space(e.b) \in Nat /\ e.ok \in BOOLEAN
         /\ e.ok => n <= Space(e.b)
         /\ Len(x) <= Space(e.b) =>
              /\ GoodBuffer([e.b EXCEPT !.data = @ \o x])
              /\ output \o SubSeq(wbuf.data, wbuf.h + 1, e.mid.h) \o Pending([e.b EXCEPT !.data = @ \o x])
                   = accepted \o x
<1> DEFINE o == output \o SubSeq(wbuf.data, wbuf.h + 1, e.mid.h)
<1>1. /\ WrittenTo(wbuf, e.b, SubSeq(wbuf.data, wbuf.h + 1, e.mid.h)) /\ e.ok \in BOOLEAN
      /\ e.ok => Space(e.b) >= n
  BY EnsuredIs DEF BioInv, WriteOK
<1>2. o \in Seq(Nat) /\ o \o Pending(e.b) = accepted
  BY <1>1, OutputIs DEF BioInv
<1>3. GoodBuffer(e.b) /\ Space(e.b) \in Nat
  BY <1>1, BufferIs DEF WrittenTo
<1> HIDE DEF o
<1>4. ASSUME Len(x) <= Space(e.b)
      PROVE  /\ GoodBuffer([e.b EXCEPT !.data = @ \o x])
             /\ o \o Pending([e.b EXCEPT !.data = @ \o x]) = accepted \o x
  BY <1>2, <1>3, <1>4, OutputWith
<1>5. e.ok => n <= Space(e.b)
  BY <1>1, <1>3
<1> QED BY <1>1, <1>2, <1>3, <1>4, <1>5 DEF o

LEMMA PutcOK == ASSUME BioInv, Putc PROVE BioInv'
<1>1. PICK e \in Ensured(wbuf, 1) :
        /\ wbuf' = IF e.ok THEN [e.b EXCEPT !.data = @ \o Bytes(1)] ELSE e.b
        /\ Writes(wbuf, e.mid)
        /\ accepted' = IF e.ok THEN accepted \o Bytes(1) ELSE accepted
        /\ SendsIf(Tries(wbuf, 1))
  BY DEF Putc
<1>2. job' = job /\ UNCHANGED <<reading, isopen>>
  BY DEF Putc
<1> DEFINE x == Bytes(1)
           c == [e.b EXCEPT !.data = @ \o x]
           o == output \o SubSeq(wbuf.data, wbuf.h + 1, e.mid.h)
<1>3. x \in Seq(Nat) /\ Len(x) = 1
  BY BytesAre DEF BioInv
<1>4. wbuf' = (IF e.ok THEN c ELSE e.b) /\ output' = o /\ accepted' = IF e.ok THEN accepted \o x ELSE accepted
  BY <1>1 DEF Writes
<1> HIDE DEF x
<1>5. /\ o \in Seq(Nat) /\ o \o Pending(e.b) = accepted /\ GoodBuffer(e.b) /\ e.ok \in BOOLEAN
      /\ e.ok => GoodBuffer(c) /\ o \o Pending(c) = accepted \o x
  BY <1>3, EnsuredThen
<1> HIDE DEF c, o
<1>6. accepted \in Seq(Nat) /\ accepted \o x \in Seq(Nat) /\ job' \in Seq(Nat)
  BY <1>2, <1>3, ConcatProperties DEF BioInv, WriteOK
<1>7. WriteOK'
  <2>1. CASE e.ok
    <3>1. GoodBuffer(wbuf') /\ accepted' \in Seq(Nat) /\ output' \in Seq(Nat)
      BY <1>4, <1>5, <1>6, <2>1
    <3>2. output' \o Pending(wbuf') = accepted'
      BY <1>4, <1>5, <2>1
    <3> QED BY <1>6, <3>1, <3>2, WriteThen
  <2>2. CASE ~e.ok
    <3>1. GoodBuffer(wbuf') /\ accepted' \in Seq(Nat) /\ output' \in Seq(Nat)
      BY <1>4, <1>5, <1>6, <2>2
    <3>2. output' \o Pending(wbuf') = accepted'
      BY <1>4, <1>5, <2>2
    <3> QED BY <1>6, <3>1, <3>2, WriteThen
  <2> QED BY <2>1, <2>2
<1>8. FdsOK'
  <2>1. SendRights \/ UNCHANGED fds
    BY <1>1 DEF SendsIf
  <2> QED BY <2>1, SendRightsOK DEF BioInv
<1> QED BY <1>2, <1>7, <1>8, Unread

LEMMA WriteCallOK == ASSUME BioInv, NEW n \in Nat, Write(n) PROVE BioInv'
<1>1. job' = Bytes(n) /\ wbuf' = wbuf /\ accepted' = accepted /\ output' = output /\ UNCHANGED <<reading, isopen>>
      /\ UNCHANGED fds
  BY DEF Write
<1>2. Bytes(n) \in Seq(Nat)
  BY BytesAre DEF BioInv
<1>3. WriteOK'
  BY <1>1, <1>2, WriteThen DEF BioInv, WriteOK
<1>4. FdsOK'
  BY <1>1, SameFds DEF BioInv
<1> QED BY <1>1, <1>3, <1>4, Unread

LEMMA PrintfOK == ASSUME BioInv, NEW f \in Nat, NEW n \in Nat, Printf(f, n) PROVE BioInv'
<1> DEFINE x == Bytes(n)
<1>1. x \in Seq(Nat) /\ Len(x) = n
  BY BytesAre DEF BioInv
<1>2. PICK e \in Ensured(wbuf, f) :
       \/ /\ ~e.ok
          /\ wbuf' = e.b
          /\ Writes(wbuf, e.mid)
          /\ SendsIf(Tries(wbuf, f))
          /\ UNCHANGED accepted
       \/ /\ e.ok /\ n < Space(e.b)
          /\ wbuf' = [e.b EXCEPT !.data = @ \o x]
          /\ Writes(wbuf, e.mid)
          /\ SendsIf(Tries(wbuf, f))
          /\ accepted' = accepted \o x
       \/ /\ e.ok /\ n >= Space(e.b)
          /\ SendsIf(Tries(wbuf, f) \/ Tries(e.b, n + 1))
          /\ \E g \in Ensured(e.b, n + 1) :
               /\ wbuf' = IF g.ok THEN [g.b EXCEPT !.data = @ \o x] ELSE g.b
               /\ output' = output \o SubSeq(wbuf.data, wbuf.h + 1, e.mid.h)
                                   \o SubSeq(e.b.data, e.b.h + 1, g.mid.h)
               /\ accepted' = IF g.ok THEN accepted \o x ELSE accepted
  BY ZenonT(60) DEF Printf
<1> HIDE DEF x
<1>3. job' = job /\ UNCHANGED <<reading, isopen>>
  BY DEF Printf
<1>4. FdsOK'
  <2>1. SendRights \/ UNCHANGED fds
    BY <1>2 DEF SendsIf
  <2> QED BY <2>1, SendRightsOK DEF BioInv
<1>5. accepted \in Seq(Nat) /\ accepted \o x \in Seq(Nat) /\ job' \in Seq(Nat)
  BY <1>1, <1>3, ConcatProperties DEF BioInv, WriteOK
<1> DEFINE c == [e.b EXCEPT !.data = @ \o x]
           o == output \o SubSeq(wbuf.data, wbuf.h + 1, e.mid.h)
<1>6. /\ o \in Seq(Nat) /\ o \o Pending(e.b) = accepted /\ GoodBuffer(e.b) /\ Space(e.b) \in Nat
      /\ Len(x) <= Space(e.b) => GoodBuffer(c) /\ o \o Pending(c) = accepted \o x
  BY <1>1, EnsuredThen
<1>7. CASE wbuf' = e.b /\ Writes(wbuf, e.mid) /\ UNCHANGED accepted
  <2>1. output' = o
    BY <1>7 DEF Writes
  <2> HIDE DEF o
  <2>2. WriteOK'
    BY <1>5, <1>6, <1>7, <2>1, WriteThen
  <2> QED BY <1>3, <1>4, <2>2, Unread
<1>8. CASE e.ok /\ n < Space(e.b) /\ wbuf' = c /\ Writes(wbuf, e.mid) /\ accepted' = accepted \o x
  <2>1. output' = o
    BY <1>8 DEF Writes
  <2> HIDE DEF o, c
  <2>2. Len(x) <= Space(e.b)
    BY <1>1, <1>6, <1>8
  <2>3. GoodBuffer(wbuf') /\ accepted' \in Seq(Nat) /\ output' \in Seq(Nat)
    BY <1>5, <1>6, <1>8, <2>1, <2>2
  <2>4. output' \o Pending(wbuf') = accepted'
    BY <1>6, <1>8, <2>1, <2>2
  <2>5. WriteOK'
    BY <1>5, <2>3, <2>4, WriteThen
  <2> QED BY <1>3, <1>4, <2>5, Unread
<1>9. ASSUME NEW g \in Ensured(e.b, n + 1),
             wbuf' = IF g.ok THEN [g.b EXCEPT !.data = @ \o x] ELSE g.b,
             output' = output \o SubSeq(wbuf.data, wbuf.h + 1, e.mid.h) \o SubSeq(e.b.data, e.b.h + 1, g.mid.h),
             accepted' = IF g.ok THEN accepted \o x ELSE accepted
      PROVE  BioInv'
  <2> DEFINE d == [g.b EXCEPT !.data = @ \o x]
             y == SubSeq(e.b.data, e.b.h + 1, g.mid.h)
  <2>1. WrittenTo(e.b, g.b, y) /\ g.ok \in BOOLEAN /\ (g.ok => Space(g.b) >= n + 1)
    <3>1. GoodBuffer(e.b) /\ n + 1 \in Nat
      BY <1>6
    <3> HIDE DEF o
    <3> QED BY <3>1, EnsuredIs
  <2>2. output' = o \o y
    BY <1>9
  <2> HIDE DEF y, o
  <2>3. o \o y \in Seq(Nat) /\ o \o y \o Pending(g.b) = accepted /\ GoodBuffer(g.b) /\ Space(g.b) \in Nat
    <3>1. y \in Seq(Nat) /\ Pending(g.b) \in Seq(Nat) /\ y \o Pending(g.b) = Pending(e.b) /\ GoodBuffer(g.b)
      BY <2>1, PendingIs DEF WrittenTo
    <3>2. (o \o y) \o Pending(g.b) = o \o (y \o Pending(g.b))
      <4>1. o \in Seq(Nat)
        BY <1>6
      <4> QED BY <3>1, <4>1, Associative, Zenon
    <3>3. o \o y \in Seq(Nat)
      BY <1>6, <3>1, ConcatProperties
    <3>4. Space(g.b) \in Nat
      BY <3>1, BufferIs
    <3> QED BY <1>6, <3>1, <3>2, <3>3, <3>4
  <2>4. g.ok => GoodBuffer(d) /\ o \o y \o Pending(d) = accepted \o x
    <3>1. g.ok => Len(x) <= Space(g.b)
      BY <1>1, <2>1, <2>3
    <3> QED BY <1>1, <2>3, <3>1, OutputWith
  <2>5. wbuf' = (IF g.ok THEN d ELSE g.b)
    BY <1>9
  <2> HIDE DEF d
  <2>6. WriteOK'
    <3>1. CASE g.ok
      <4>1. GoodBuffer(wbuf') /\ accepted' \in Seq(Nat) /\ output' \in Seq(Nat)
        BY <1>5, <1>9, <2>2, <2>3, <2>4, <2>5, <3>1
      <4>2. output' \o Pending(wbuf') = accepted'
        BY <1>9, <2>2, <2>4, <2>5, <3>1, ZenonT(60)
      <4> QED BY <1>5, <4>1, <4>2, WriteThen
    <3>2. CASE ~g.ok
      <4>1. GoodBuffer(wbuf') /\ accepted' \in Seq(Nat) /\ output' \in Seq(Nat)
        BY <1>5, <1>9, <2>2, <2>3, <2>5, <3>2
      <4>2. output' \o Pending(wbuf') = accepted'
        BY <1>9, <2>2, <2>3, <2>5, <3>2
      <4> QED BY <1>5, <4>1, <4>2, WriteThen
    <3> QED BY <3>1, <3>2
  <2> QED BY <1>3, <1>4, <2>6, Unread
<1> QED BY <1>2, <1>7, <1>8, <1>9, Zenon

\* What is taken of the user's bytes without the buffer.
LEMMA DirectIs ==
  ASSUME NEW o \in Seq(Nat), NEW a \in Seq(Nat), o = a, NEW x \in Seq(Nat)
  PROVE  o \o x \in Seq(Nat) /\ o \o x \o <<>> = a \o x
<1>1. o \o x \in Seq(Nat)
  BY ConcatProperties
<1> QED BY <1>1, EmptyIs

LEMMA WriteTurnOK == ASSUME BioInv, WriteTurn PROVE BioInv'
<1> DEFINE m == AtMost(Len(job), Hint)
<1>1. PICK e \in Ensured(wbuf, m) :
     /\ SendsIf(Tries(wbuf, m) \/ Len(job) >= Space(e.b))
     /\ \/ /\ ~e.ok
          /\ wbuf' = e.b /\ job' = <<>>
          /\ Writes(wbuf, e.mid)
          /\ UNCHANGED accepted
       \/ /\ e.ok /\ Len(job) < Space(e.b)
          /\ wbuf' = [e.b EXCEPT !.data = @ \o job]
          /\ job' = <<>>
          /\ Writes(wbuf, e.mid)
          /\ accepted' = accepted \o job
       \/ /\ e.ok /\ Len(job) >= Space(e.b)
          /\ \E f \in Flushed(e.b) :
               \E k \in IF f.ok THEN 0 .. Len(job) ELSE {0} :
                 /\ wbuf' = IF f.ok THEN Emptied(f.b) ELSE f.b
                 /\ job' = IF k = 0 THEN <<>> ELSE SubSeq(job, k + 1, Len(job))
                 /\ accepted' = accepted \o SubSeq(job, 1, k)
                 /\ output' = output \o SubSeq(wbuf.data, wbuf.h + 1, e.mid.h)
                                     \o SubSeq(e.b.data, e.b.h + 1, f.b.h) \o SubSeq(job, 1, k)
  BY ZenonT(60) DEF WriteTurn
<1>2. UNCHANGED <<reading, isopen>>
  BY Zenon DEF WriteTurn
<1>3. FdsOK'
  <2>1. SendRights \/ UNCHANGED fds
    BY <1>1, Zenon DEF SendsIf
  <2> QED BY <2>1, SendRightsOK DEF BioInv
<1>4. job \in Seq(Nat) /\ Len(job) \in Nat /\ accepted \in Seq(Nat) /\ <<>> \in Seq(Nat)
  BY EmptySeq DEF BioInv, WriteOK
<1>5. m \in Nat
  BY <1>4, BufIoAssumption, AtMostIs
<1> HIDE DEF m
<1> DEFINE c == [e.b EXCEPT !.data = @ \o job]
           o == output \o SubSeq(wbuf.data, wbuf.h + 1, e.mid.h)
<1>6. /\ o \in Seq(Nat) /\ o \o Pending(e.b) = accepted /\ GoodBuffer(e.b) /\ Space(e.b) \in Nat
      /\ Len(job) <= Space(e.b) => GoodBuffer(c) /\ o \o Pending(c) = accepted \o job
  BY <1>4, <1>5, EnsuredThen
<1>7. CASE wbuf' = e.b /\ job' = <<>> /\ Writes(wbuf, e.mid) /\ UNCHANGED accepted
  <2>1. output' = o
    BY <1>7 DEF Writes
  <2> HIDE DEF o
  <2>2. WriteOK'
    BY <1>4, <1>6, <1>7, <2>1, WriteThen
  <2> QED BY <1>2, <1>3, <2>2, Unread
<1>8. CASE Len(job) < Space(e.b) /\ wbuf' = c /\ job' = <<>> /\ Writes(wbuf, e.mid) /\ accepted' = accepted \o job
  <2>1. output' = o
    BY <1>8 DEF Writes
  <2> HIDE DEF o, c
  <2>2. Len(job) <= Space(e.b) /\ accepted \o job \in Seq(Nat)
    BY <1>4, <1>6, <1>8, ConcatProperties
  <2>3. GoodBuffer(wbuf') /\ accepted' \in Seq(Nat) /\ output' \in Seq(Nat) /\ job' \in Seq(Nat)
    BY <1>4, <1>6, <1>8, <2>1, <2>2
  <2>4. output' \o Pending(wbuf') = accepted'
    BY <1>6, <1>8, <2>1, <2>2
  <2>5. WriteOK'
    BY <2>3, <2>4, WriteThen
  <2> QED BY <1>2, <1>3, <2>5, Unread
<1>9. ASSUME NEW f \in Flushed(e.b), NEW k \in IF f.ok THEN 0 .. Len(job) ELSE {0},
             wbuf' = IF f.ok THEN Emptied(f.b) ELSE f.b,
             job' = IF k = 0 THEN <<>> ELSE SubSeq(job, k + 1, Len(job)),
             accepted' = accepted \o SubSeq(job, 1, k),
             output' = output \o SubSeq(wbuf.data, wbuf.h + 1, e.mid.h)
                              \o SubSeq(e.b.data, e.b.h + 1, f.b.h) \o SubSeq(job, 1, k)
      PROVE  BioInv'
  <2> DEFINE y == SubSeq(e.b.data, e.b.h + 1, f.b.h)
             x == SubSeq(job, 1, k)
  <2>1. WrittenTo(e.b, f.b, y) /\ f.ok \in BOOLEAN /\ (f.ok => f.b.h = Len(f.b.data))
    BY <1>6, FlushedIs
  <2>2. output' = (o \o y) \o x /\ accepted' = accepted \o x
    BY <1>9
  <2>3. k \in 0 .. Len(job) /\ (~f.ok => k = 0)
    BY <1>4, <1>9
  <2>4. /\ x \in Seq(Nat) /\ SubSeq(job, k + 1, Len(job)) \in Seq(Nat)
        /\ k = 0 => x = <<>>
    <3>1. x \in Seq(Nat) /\ SubSeq(job, k + 1, Len(job)) \in Seq(Nat) /\ Len(x) = k
      BY <1>4, <2>3, TwoParts
    <3> QED BY <3>1, EmptyIs
  <2>5. job' \in Seq(Nat)
    BY <1>4, <1>9, <2>4
  <2> HIDE DEF y, o, x
  <2>6. o \o y \in Seq(Nat) /\ o \o y \o Pending(f.b) = accepted /\ GoodBuffer(f.b)
    <3>1. y \in Seq(Nat) /\ Pending(f.b) \in Seq(Nat) /\ y \o Pending(f.b) = Pending(e.b) /\ GoodBuffer(f.b)
      BY <2>1, PendingIs DEF WrittenTo
    <3>2. (o \o y) \o Pending(f.b) = o \o (y \o Pending(f.b))
      <4>1. o \in Seq(Nat)
        BY <1>6
      <4> QED BY <3>1, <4>1, Associative, Zenon
    <3>3. o \o y \in Seq(Nat)
      BY <1>6, <3>1, ConcatProperties
    <3> QED BY <1>6, <3>1, <3>2, <3>3
  <2>7. accepted' \in Seq(Nat)
    BY <1>4, <2>2, <2>4, ConcatProperties
  <2>8. WriteOK'
    <3>1. CASE f.ok
      <4>1. SameBytes(f.b, Emptied(f.b)) /\ Pending(f.b) = <<>>
        BY <2>1, <2>6, <3>1, EmptiedIs
      <4>2. wbuf' = Emptied(f.b)
        BY <1>9, <3>1
      <4>3. GoodBuffer(wbuf') /\ Pending(wbuf') = <<>>
        BY <4>1, <4>2 DEF SameBytes
      <4>4. o \o y = accepted
        BY <2>6, <4>1, EmptyIs
      <4>5. (o \o y) \o x \in Seq(Nat) /\ (o \o y) \o x \o <<>> = accepted \o x
        BY <1>4, <2>4, <2>6, <4>4, DirectIs
      <4>6. output' \in Seq(Nat) /\ output' \o Pending(wbuf') = accepted'
        BY <2>2, <4>3, <4>5
      <4> QED BY <2>5, <2>7, <4>3, <4>6, WriteThen
    <3>2. CASE ~f.ok
      <4>1. wbuf' = f.b
        BY <1>9, <3>2
      <4>2. (o \o y) \o x = o \o y /\ accepted \o x = accepted
        BY <1>4, <2>3, <2>4, <2>6, <3>2, EmptyIs
      <4>3. output' \in Seq(Nat) /\ output' \o Pending(wbuf') = accepted' /\ GoodBuffer(wbuf')
        BY <2>2, <2>6, <4>1, <4>2
      <4> QED BY <2>5, <2>7, <4>3, WriteThen
    <3> QED BY <3>1, <3>2
  <2> QED BY <1>2, <1>3, <2>8, Unread
<1> QED BY <1>1, <1>7, <1>8, <1>9, ZenonT(60)

\* What biowritesome() comes to, of the user's bytes or of those that were read.
LEMMA WritesSomeOK ==
  ASSUME BioInv, NEW q \in Seq(Nat), NEW o \in SomeWritten(q), WritesSome(q, o)
  PROVE  WriteOK' /\ FdsOK' /\ o.ret \in 0 .. Len(q)
<1> DEFINE x == SubSeq(q, 1, o.ret)
           p == Pending(wbuf)
           y == SubSeq(p \o x, 1, o.k)
<1>1. wbuf' = o.b /\ accepted' = accepted \o x /\ output' = output \o y /\ job' = job
  BY DEF WritesSome
<1>2. FdsOK'
  <2>1. SendRights \/ UNCHANGED fds
    BY DEF WritesSome, SendsIf
  <2> QED BY <2>1, SendRightsOK DEF BioInv
<1>3. /\ GoodBuffer(wbuf) /\ accepted \in Seq(Nat) /\ output \in Seq(Nat) /\ job \in Seq(Nat)
      /\ output \o p = accepted
  BY DEF BioInv, WriteOK
<1>4. p \in Seq(Nat)
  BY <1>3, PendingIs
<1>5. GoodBuffer(o.b) /\ o.ret \in 0 .. Len(q) /\ y \in Seq(Nat) /\ y \o Pending(o.b) = p \o x
  BY <1>3, SomeWrittenIs
<1>6. x \in Seq(Nat)
  BY <1>5, TwoParts
<1>7. Pending(o.b) \in Seq(Nat)
  BY <1>5, PendingIs
<1> HIDE DEF x, p, y
<1>8. output \o y \in Seq(Nat) /\ accepted \o x \in Seq(Nat)
  BY <1>3, <1>5, <1>6, ConcatProperties
<1>9. output \o y \o Pending(o.b) = accepted \o x
  <2>1. (output \o y) \o Pending(o.b) = output \o (y \o Pending(o.b))
    <3>1. output \in Seq(Nat) /\ y \in Seq(Nat)
      BY <1>3, <1>5
    <3> QED BY <1>7, <3>1, Associative, Zenon
  <2>2. (output \o p) \o x = output \o (p \o x)
    <3>1. output \in Seq(Nat)
      BY <1>3
    <3> QED BY <1>4, <1>6, <3>1, Associative, Zenon
  <2> QED BY <1>3, <1>5, <2>1, <2>2
<1>10. WriteOK'
  <2>1. GoodBuffer(wbuf') /\ job' \in Seq(Nat) /\ accepted' \in Seq(Nat) /\ output' \in Seq(Nat)
    BY <1>1, <1>3, <1>5, <1>8
  <2>2. output' \o Pending(wbuf') = accepted'
    BY <1>1, <1>9
  <2> QED BY <2>1, <2>2, WriteThen
<1> QED BY <1>2, <1>5, <1>10

LEMMA WriteSomeOK == ASSUME BioInv, NEW n \in Nat, WriteSome(n) PROVE BioInv'
<1>1. PICK o \in SomeWritten(Bytes(n)) : WritesSome(Bytes(n), o)
  BY DEF WriteSome
<1>2. Bytes(n) \in Seq(Nat)
  BY BytesAre DEF BioInv
<1>3. WriteOK' /\ FdsOK'
  BY <1>1, <1>2, WritesSomeOK
<1>4. UNCHANGED <<reading, isopen>>
  BY DEF WriteSome
<1> QED BY <1>3, <1>4, Unread

LEMMA CopySomeOK == ASSUME BioInv, CopySome PROVE BioInv'
<1> DEFINE p == Pending(rbuf)
<1>1. PICK o \in SomeWritten(p) :
         /\ WritesSome(p, o)
         /\ rbuf' = [rbuf EXCEPT !.h = @ + o.ret]
         /\ got' = got \o SubSeq(p, 1, o.ret)
  BY DEF CopySome
<1>2. p \in Seq(Nat)
  BY PendingIs DEF BioInv, ReadOK
<1>3. WriteOK' /\ FdsOK' /\ o.ret \in 0 .. Len(p)
  <2> HIDE DEF p
  <2> QED BY <1>1, <1>2, WritesSomeOK
<1>4. UNCHANGED <<eof, input, isopen>>
  BY DEF CopySome
<1>5. ReadOK'
  BY <1>1, <1>3, <1>4, GivenOK DEF BioInv
<1> QED BY <1>3, <1>4, <1>5 DEF BioInv

LEMMA CopyBufOK == ASSUME BioInv, CopyBuf PROVE BioInv'
<1> DEFINE b == Compact(Sized(wbuf))
           p == Pending(rbuf)
           k == AtMost(Len(p), Space(b))
           x == SubSeq(p, 1, k)
           c == [b EXCEPT !.data = @ \o x]
<1>1. /\ wbuf' = c /\ rbuf' = [rbuf EXCEPT !.h = @ + Len(x)] /\ got' = got \o x /\ accepted' = accepted \o x
      /\ UNCHANGED <<eof, input, job, output, fds, isopen>>
  BY DEF CopyBuf
<1>2. /\ GoodBuffer(wbuf) /\ accepted \in Seq(Nat) /\ output \in Seq(Nat) /\ job \in Seq(Nat)
      /\ output \o Pending(wbuf) = accepted
  BY DEF BioInv, WriteOK
<1>3. GoodBuffer(b) /\ Pending(b) = Pending(wbuf)
  <2>1. SameBytes(wbuf, Sized(wbuf))
    BY <1>2, SizedIs
  <2>2. SameBytes(Sized(wbuf), b)
    BY <2>1, CompactIs DEF SameBytes
  <2> QED BY <2>1, <2>2 DEF SameBytes
<1> HIDE DEF b
<1>4. p \in Seq(Nat) /\ Len(p) \in Nat /\ Space(b) \in Nat
  BY <1>3, PendingIs, BufferIs DEF BioInv, ReadOK
<1>5. k \in 0 .. Len(p) /\ k <= Space(b)
  BY <1>4 DEF AtMost
<1>6. p = Pending(rbuf)
  OBVIOUS
<1> HIDE DEF k
<1>7. x \in Seq(Nat) /\ Len(x) = k
  BY <1>4, <1>5, TwoParts
<1>8. ReadOK'
  <2>1. rbuf' = [rbuf EXCEPT !.h = @ + k] /\ got' = got \o SubSeq(Pending(rbuf), 1, k) /\ UNCHANGED <<eof, input>>
    BY <1>1, <1>7
  <2> QED BY <1>5, <2>1, GivenOK DEF BioInv
<1> HIDE DEF x
<1>9. GoodBuffer(c) /\ output \o Pending(c) = accepted \o x
  <2>1. output \in Seq(Nat) /\ output \o Pending(b) = accepted /\ Len(x) <= Space(b)
    BY <1>2, <1>3, <1>5, <1>7
  <2> QED BY <1>3, <1>7, <2>1, OutputWith
<1> HIDE DEF c
<1>10. WriteOK'
  <2>1. accepted \o x \in Seq(Nat)
    BY <1>2, <1>7, ConcatProperties
  <2> QED BY <1>1, <1>2, <1>9, <2>1, WriteThen
<1>11. FdsOK'
  BY <1>1, SameFds DEF BioInv
<1> QED BY <1>1, <1>8, <1>10, <1>11 DEF BioInv

-----------------------------------------------------------------------------
(* Descriptors, and all steps.                                             *)

LEMMA RightsOK == ASSUME BioInv, TakeRights \/ GiveRights PROVE BioInv'
<1>1. UNCHANGED <<reading, writing, isopen>>
  BY DEF TakeRights, GiveRights
<1>2. CASE TakeRights
  <2>1. FdsOK'
    BY <1>2 DEF TakeRights, FdsOK, NoFd, BioInv
  <2> QED BY <1>1, <2>1, SameReading, SameWriting DEF BioInv
<1>3. CASE GiveRights
  <2>1. FdsOK'
    BY <1>3 DEF GiveRights, FdsOK, NoFd, BioInv
  <2> QED BY <1>1, <2>1, SameReading, SameWriting DEF BioInv
<1> QED BY <1>2, <1>3

LEMMA CloseOK == ASSUME BioInv, Close PROVE BioInv'
<1>1. PICK f \in Flushed(wbuf) : wbuf' = f.b /\ Writes(wbuf, f.b)
  BY DEF Close
<1>2. isopen' = FALSE /\ CloseRights /\ UNCHANGED <<job, accepted, reading>>
  BY DEF Close
<1> DEFINE x == SubSeq(wbuf.data, wbuf.h + 1, f.b.h)
<1>3. WrittenTo(wbuf, f.b, x)
  BY FlushedIs DEF BioInv, WriteOK
<1>4. output' = output \o x
  BY <1>1 DEF Writes
<1> HIDE DEF x
<1>5. output \o x \in Seq(Nat) /\ output \o x \o Pending(f.b) = accepted
  BY <1>3, OutputIs DEF BioInv
<1>6. WriteOK'
  <2>1. GoodBuffer(wbuf') /\ job' \in Seq(Nat) /\ accepted' \in Seq(Nat) /\ output' \in Seq(Nat)
    BY <1>1, <1>2, <1>3, <1>4, <1>5 DEF BioInv, WriteOK, WrittenTo
  <2>2. output' \o Pending(wbuf') = accepted'
    BY <1>1, <1>2, <1>4, <1>5
  <2> QED BY <2>1, <2>2, WriteThen
<1>7. FdsOK'
  BY <1>2, CloseRightsOK DEF BioInv
<1> QED BY <1>2, <1>6, <1>7, SameReading DEF BioInv

LEMMA BioNextInv == BioInv /\ [BioNext]_biovars => BioInv'
<1> SUFFICES ASSUME BioInv, [BioNext]_biovars PROVE BioInv'
  OBVIOUS
<1>1. \A n \in Lens : n \in Nat
  BY BufIoAssumption
<1>2. ASSUME NEW n \in Lens, FillSome(n) PROVE BioInv'
  BY <1>2, FillSomeOK
<1>3. ASSUME NEW n \in Lens, ReadSome(n) PROVE BioInv'
  BY <1>1, <1>3, ReadSomeOK
<1>4. ASSUME NEW n \in Lens, Write(n) PROVE BioInv'
  BY <1>1, <1>4, WriteCallOK
<1>5. ASSUME NEW n \in Lens, WriteSome(n) PROVE BioInv'
  BY <1>1, <1>5, WriteSomeOK
<1>6. ASSUME NEW n \in Lens, NEW f \in Lens, Printf(f, n) PROVE BioInv'
  BY <1>1, <1>6, PrintfOK
<1>7. CASE Flush \/ Putc \/ WriteTurn
  BY <1>7, FlushOK, PutcOK, WriteTurnOK
<1>8. CASE CopySome \/ CopyBuf
  BY <1>8, CopySomeOK, CopyBufOK
<1>9. CASE TakeRights \/ GiveRights \/ Close
  BY <1>9, RightsOK, CloseOK
<1>10. CASE UNCHANGED biovars
  <2>1. UNCHANGED fds /\ UNCHANGED reading /\ UNCHANGED writing /\ UNCHANGED isopen
    BY <1>10 DEF biovars
  <2> QED BY <2>1, SameReading, SameWriting, SameFds DEF BioInv
<1> QED BY <1>2, <1>3, <1>4, <1>5, <1>6, <1>7, <1>8, <1>9, <1>10 DEF BioNext

\* Whatever calls of bufio.c follow each other, on whatever comes and however they fail: bytes come
\* and go in order and once, no buffer overflows and each descriptor has one owner.
THEOREM AlwaysFaithful == BioSpec => []Faithful
<1>1. BioInv => Faithful
  <2> SUFFICES ASSUME BioInv PROVE Faithful
    OBVIOUS
  <2>1. BioTypeOK
    BY DEF BioInv, ReadOK, WriteOK, FdsOK, GoodBuffer, BioTypeOK
  <2> QED BY <2>1 DEF BioInv, ReadOK, WriteOK, FdsOK, Faithful
<1> QED BY <1>1, BioInitInv, BioNextInv, PTL DEF BioSpec
=============================================================================
