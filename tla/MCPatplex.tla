----------------------------- MODULE MCPatplex -----------------------------
(* A child and an fchild, two stanzas that take strings, and one reparse   *)
(* in the first file and in the global one; the second file has another    *)
(* child and declares the first twice, and a global stanza has a handler   *)
(* that nobody declares.                                                   *)
EXTENDS Patplex

CONSTANTS p1, p2, p3

Point(e, s) == [type |-> "point", on |-> {e}, mss |-> s]
All == [type |-> "all", mss |-> FALSE]
Has(h) == [type |-> "header", hdr |-> h, on |-> {"a", "b"}, mss |-> FALSE]
To(handler, prio, rules) == [rules |-> rules, prio |-> prio, handler |-> handler, reparse |-> FALSE,
                             restpat |-> <<>>, set |-> <<>>]
Again(prio, rules, restpat, set) == [rules |-> rules, prio |-> prio, handler |-> "", reparse |-> TRUE,
                                     restpat |-> restpat, set |-> set]

MCFile1 == [children |-> <<[name |-> "x", type |-> "child"], [name |-> "f", type |-> "fchild"]>>,
            patterns |-> <<To("x", 0, <<Point("a", TRUE), Has("h")>>),
                           To("f", 0, <<Point("b", FALSE)>>),
                           Again(1, <<Point("a", TRUE)>>, <<<<"$0">>, <<"$_">>>>, [h |-> "a"])>>]
MCFile2 == [children |-> <<[name |-> "y", type |-> "child"], [name |-> "x", type |-> "child"],
                           [name |-> "x", type |-> "child"]>>,
            patterns |-> <<To("y", 0, <<Point("a", TRUE)>>),
                           To("x", 1, <<[type |-> "url", on |-> {"a"}, mss |-> TRUE], Point("a", FALSE)>>)>>]
MCConfs == {MCFile1, MCFile2}
MCGlobal == [children |-> <<[name |-> "x", type |-> "child"], [name |-> "z", type |-> "child"]>>,
             patterns |-> <<Again(1, <<Point("b", FALSE)>>, <<<<"$_">>, <<"${}", "h">>>>, <<>>),
                            To("z", 0, <<Has("h"), All>>),
                            To("none", -10, <<Point("b", FALSE)>>)>>]
MCRequests == {[url |-> <<"b">>, rest |-> <<"a">>, hdrs |-> [h |-> "b"]],
               [url |-> <<"a">>, rest |-> <<"a", "b">>, hdrs |-> <<>>],
               [url |-> <<"b">>, rest |-> <<"b">>, hdrs |-> <<>>],
               [url |-> <<"b">>, rest |-> <<>>, hdrs |-> [h |-> "b"]],
               [url |-> <<"b">>, rest |-> <<>>, hdrs |-> <<>>]}
MCLiteral == [h |-> "{h}"]
MCFd == 3 .. 6
MCProc == {p1, p2, p3}
MCBig == {2}
=============================================================================
