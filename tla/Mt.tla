--------------------------------- MODULE Mt ---------------------------------
(***************************************************************************)
(* The coroutines ("muths") of lib/mt.c.                                   *)
(*                                                                         *)
(* Exactly one context runs at any time: the main context (current = NULL) *)
(* or one muth.  A muth that has been entered remembers in `last' the      *)
(* context that entered it, so the muths with a non-NULL `last' form a     *)
(* chain of nested resumes from `current' down to the main context.        *)
(* yield() and the end of the entry function go back down that chain.      *)
(*                                                                         *)
(* The operators below are the control part of an action: a module that    *)
(* models code running in muths conjoins exactly one of them to what the   *)
(* code does up to its next call into mt.c.                                *)
(***************************************************************************)

CONSTANTS Muth,      \* the identities of struct muth
          NULL,      \* the null pointer
          MainCtxt   \* the static `mainctxt'

ASSUME MtAssumption == /\ NULL \notin Muth
                       /\ MainCtxt \notin Muth
                       /\ MainCtxt # NULL

VARIABLES current,   \* the muth that runs, NULL while the main context runs
          last,      \* muth->last
          running,   \* muth->running; FALSE before mustart() and once freed
          aborted    \* abort() was called, or a freed muth was resumed

mtvars == <<current, last, running, aborted>>

MtTypeOK == /\ current \in Muth \cup {NULL}
            /\ last \in [Muth -> Muth \cup {NULL, MainCtxt}]
            /\ running \in [Muth -> BOOLEAN]
            /\ aborted \in BOOLEAN

MtInit == /\ current = NULL
          /\ last = [m \in Muth |-> NULL]
          /\ running = [m \in Muth |-> FALSE]
          /\ aborted = FALSE

\* The context that resume() and mustart() store in muth->last.
Here == IF current = NULL THEN MainCtxt ELSE current

\* Mutant: the context itself.
MuthOf_Context(c) == c

\* The value `current' gets back once context c runs again.
MuthOf(c) == IF c = MainCtxt THEN NULL ELSE c

\* The current context makes no call into mt.c in this step.
GoOn == ~aborted /\ UNCHANGED mtvars

\* mustart(): run a new muth now, nested in the current context.
MuStart(m) == /\ ~aborted
              /\ ~running[m]
              /\ last' = [last EXCEPT ![m] = Here]
              /\ current' = m
              /\ running' = [running EXCEPT ![m] = TRUE]
              /\ UNCHANGED aborted

\* yield(): back to the context that entered the current muth.
Yield == /\ ~aborted
         /\ IF current = NULL \/ last[current] = NULL
            THEN /\ aborted' = TRUE
                 /\ UNCHANGED <<current, last>>
            ELSE /\ current' = MuthOf(last[current])
                 /\ last' = [last EXCEPT ![current] = NULL]
                 /\ UNCHANGED aborted
         /\ UNCHANGED running

\* resume(): enter a muth that has yielded, nested in the current context.
Resume(m) == /\ ~aborted
             /\ IF last[m] # NULL \/ ~running[m]
                THEN /\ aborted' = TRUE
                     /\ UNCHANGED <<current, last>>
                ELSE /\ last' = [last EXCEPT ![m] = Here]
                     /\ current' = m
                     /\ UNCHANGED aborted
             /\ UNCHANGED running

\* muboot() after the entry function has returned; whoever entered the muth
\* then frees it.
Return == /\ ~aborted
          /\ current # NULL
          /\ current' = MuthOf(last[current])
          /\ last' = [last EXCEPT ![current] = NULL]
          /\ running' = [running EXCEPT ![current] = FALSE]
          /\ UNCHANGED aborted
=============================================================================
