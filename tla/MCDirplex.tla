----------------------------- MODULE MCDirplex -----------------------------
(* Two directories whose .htrc may hold one of four versions: patterns     *)
(* with rules of every type, a combined reparse to a third directory, and  *)
(* a capture whose child the next directory may declare.                   *)
EXTENDS Dirplex

CONSTANTS p1, p2

Child(name) == <<"child", name>>
Rule(type, on) == [type |-> type, on |-> on]
To(handler, type, rules) ==
  <<"match", [type |-> type, rules |-> rules, handler |-> handler, fork |-> FALSE]>>
Forks(type, rules) == <<"match", [type |-> type, rules |-> rules, handler |-> "", fork |-> TRUE]>>

MCNode == (<<>> :> "dir") @@ (<<"f.t">> :> "file") @@ (<<"a">> :> "dir")
          @@ (<<"a", "f.t">> :> "file") @@ (<<"a", ".h">> :> "file") @@ (<<"a", "s">> :> "other")
          @@ (<<"b">> :> "dir") @@ (<<"b", "f.t">> :> "file") @@ (<<"a", "b">> :> "dir")
MCStem == [n \in {"a", "b", "f", "s", "", "%", "%2f"} |-> n] @@ ("f.t" :> "f") @@ (".h" :> "")
MCHtDir == {<<>>, <<"a">>}
MCHtrc ==
  [v1 |-> <<Child("x"), To("x", "file", <<Rule("filename", {"f.t"}), Rule("local", {})>>),
            <<"index-file", <<"s", "f">>>>>>,
   v2 |-> <<Child(".notfound"), Child("x"), Child("x"), <<"dot-allow", <<".h">>>>,
            To("z", "directory", <<Rule("all", {})>>), To("x", "directory", <<>>),
            Forks("file", <<Rule("pathname", {<<"f.t">>})>>), To("x", "file", <<Rule("default", {})>>)>>,
   v3 |-> <<<<"reparse", <<"b">>, TRUE>>, To("x", "notfound", <<Rule("all", {})>>)>>,
   v4 |-> <<<<"capture", "x", FALSE>>, <<"reparse", <<"/", "c">>, FALSE>>>>,
   g  |-> <<To("y", "file", <<Rule("pathname", {<<".", "f.t">>, <<"b", "f.t">>})>>)>>]
MCFixed == [c \in {<<"-c">>} |-> "g"]
MCRequests == {<<"f">>, <<"a", "f.t">>, <<"a", "">>, <<"a">>, <<"a", ".h">>, <<"a", "s">>,
               <<"%">>, <<"a", "%2f">>}
MCFd == 3 .. 5
MCProc == {p1, p2}
=============================================================================
