------------------------------ MODULE TimeHeap ------------------------------
(***************************************************************************)
(* The binary heap of times that lib/mtio-epoll.c (timeheap, of blockers)  *)
(* and src/ratequeue.c (timeheap, of buckets) each implement, with the     *)
(* position of every element stored back into the element.                 *)
(*                                                                         *)
(* A heap is a record: b is the array (a function on 0 .. d - 1) of pairs  *)
(* [el, tm], and pos gives every element its `thpos'.                      *)
(***************************************************************************)
EXTENDS Integers, FiniteSets

EmptyHeap(Elements) == [b |-> [n \in {} |-> 0], pos |-> [e \in Elements |-> -1]]

Size(H) == Cardinality(DOMAIN H.b)
Top(H) == H.b[0]
ThParent(n) == (n - 1) \div 2

\* timeheap.b[n] = x, with x's thpos.
Put(H, n, x) == [b |-> [H.b EXCEPT ![n] = x], pos |-> [H.pos EXCEPT ![x.el] = n]]

\* thraise(): put x at n or, while its parent is later, where the parent was.
ThRaise(H, x, n) ==
  LET Up[k \in 0 .. n] ==
        IF k = 0 \/ H.b[ThParent(k)].tm <= x.tm
        THEN Put(H, k, x)
        ELSE Put(Up[ThParent(k)], k, H.b[ThParent(k)])
  IN  Up[n]

\* thlower(): put x at n or, while its first child is no later, where that was.
ThLower(H, x, n) ==
  LET d == Size(H)
      First(k) == LET c == 2 * k + 1 IN
                    IF c + 1 < d /\ H.b[c + 1].tm < H.b[c].tm THEN c + 1 ELSE c
      Down[k \in 0 .. d - 1] ==
        IF 2 * k + 1 >= d \/ H.b[First(k)].tm > x.tm
        THEN Put(H, k, x)
        ELSE Put(Down[First(k)], k, H.b[First(k)])
  IN  Down[n]

\* thadjust(), and the same lines at the end of deltimeout().
ThAdjust(H, x, n) == IF n > 0 /\ H.b[ThParent(n)].tm > x.tm
                     THEN ThRaise(H, x, n)
                     ELSE ThLower(H, x, n)

\* A new element: the array grows by one and the element rises from the end.
ThAdd(H, x) == LET d == Size(H)
                   grown == [b |-> [n \in 0 .. d |-> IF n < d THEN H.b[n] ELSE x], pos |-> H.pos]
               IN  ThRaise(grown, x, d)

\* Mutant: the last element may only rise.
ThDel_RaiseOnly(H, el) ==
  LET d == Size(H)
      n == H.pos[el]
      shrunk == [b |-> [k \in 0 .. d - 2 |-> H.b[k]], pos |-> [H.pos EXCEPT ![el] = -1]]
  IN  IF n = d - 1 THEN shrunk ELSE ThRaise(shrunk, H.b[d - 1], n)

\* The last element takes the place of el.
ThDel(H, el) ==
  LET d == Size(H)
      n == H.pos[el]
      shrunk == [b |-> [k \in 0 .. d - 2 |-> H.b[k]], pos |-> [H.pos EXCEPT ![el] = -1]]
  IN  IF n = d - 1 THEN shrunk ELSE ThAdjust(shrunk, H.b[d - 1], n)

\* Times never decrease away from the root, and every thpos is right.
HeapOrdered(H) ==
  /\ \A n \in DOMAIN H.b \ {0} : H.b[ThParent(n)].tm <= H.b[n].tm
  /\ \A n \in DOMAIN H.b : H.pos[H.b[n].el] = n
  /\ \A e \in DOMAIN H.pos : H.pos[e] >= 0 => H.pos[e] \in DOMAIN H.b /\ H.b[H.pos[e]].el = e
=============================================================================
