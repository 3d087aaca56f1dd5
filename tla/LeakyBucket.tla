---------------------------- MODULE LeakyBucket ----------------------------
(***************************************************************************)
(* What ratequeue promises for each source of requests: a bucket that      *)
(* leaks at a steady rate, whether or not the program keeps a record of    *)
(* that source, lets a request through while it is below its size, makes   *)
(* a few more wait in order, and turns the others away.                    *)
(***************************************************************************)
EXTENDS Integers, Sequences

CONSTANTS Source, Unit, Confs, Request

VARIABLES clock,
          cf,       \* [size, rate, brimsize]
          lev,      \* source -> the level of its bucket now
          queue,    \* source -> the requests that wait
          fwd,      \* the requests let through so far, in order
          refused   \* the set of requests turned away

svars == <<clock, cf, lev, queue, fwd, refused>>

Init == /\ clock = 0
        /\ cf \in Confs
        /\ lev = [s \in Source |-> 0]
        /\ queue = [s \in Source |-> <<>>]
        /\ fwd = <<>>
        /\ refused = {}

Tick == /\ clock' = clock + 1
        /\ lev' = [s \in Source |-> IF lev[s] > cf.rate THEN lev[s] - cf.rate ELSE 0]
        /\ UNCHANGED <<cf, queue, fwd, refused>>

\* The first k of those that wait pass, each of them below the size.
Passes(s, k) == /\ k \in 0 .. Len(queue[s])
                /\ k > 0 => lev[s] + (k - 1) * Unit < cf.size

Pass(s) == /\ \E k \in 1 .. Len(queue[s]) :
                /\ Passes(s, k)
                /\ fwd' = fwd \o SubSeq(queue[s], 1, k)
                /\ queue' = [queue EXCEPT ![s] = SubSeq(@, k + 1, Len(@))]
                /\ lev' = [lev EXCEPT ![s] = @ + k * Unit]
           /\ UNCHANGED <<clock, cf, refused>>

\* A request r of s comes in: after those before it, or into the queue, or away.
Arrive(s, r) ==
  /\ \E k \in 0 .. Len(queue[s]) :
       LET rest == SubSeq(queue[s], k + 1, Len(queue[s]))
           past == fwd \o SubSeq(queue[s], 1, k)
           level == lev[s] + k * Unit
       IN  /\ Passes(s, k)
           /\ \/ /\ rest = <<>>
                 /\ level < cf.size
                 /\ fwd' = Append(past, r)
                 /\ lev' = [lev EXCEPT ![s] = level + Unit]
                 /\ queue' = [queue EXCEPT ![s] = <<>>]
                 /\ UNCHANGED refused
              \/ /\ level >= cf.size
                 /\ Len(rest) < cf.brimsize
                 /\ fwd' = past
                 /\ lev' = [lev EXCEPT ![s] = level]
                 /\ queue' = [queue EXCEPT ![s] = Append(rest, r)]
                 /\ UNCHANGED refused
              \/ /\ level >= cf.size
                 /\ Len(rest) >= cf.brimsize
                 /\ fwd' = past
                 /\ lev' = [lev EXCEPT ![s] = level]
                 /\ queue' = [queue EXCEPT ![s] = rest]
                 /\ refused' = refused \cup {r}
  /\ UNCHANGED <<clock, cf>>

\* Another configuration.  The time since the last request of a source is then counted at the
\* new rate: faster, and its level can only fall, or slower, and it can only rise.
Reload == /\ cf' \in Confs \ {cf}
          /\ \A s \in Source : /\ lev'[s] \in Nat
                               /\ cf'.rate >= cf.rate => lev'[s] <= lev[s]
                               /\ cf'.rate <= cf.rate => lev'[s] >= lev[s]
          /\ UNCHANGED <<clock, queue, fwd, refused>>

Next == Tick \/ Reload \/ \E s \in Source : Pass(s) \/ \E r \in Request : Arrive(s, r)

Spec == Init /\ [][Next]_svars
=============================================================================
