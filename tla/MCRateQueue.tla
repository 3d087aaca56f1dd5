---------------------------- MODULE MCRateQueue ----------------------------
(* Three sources, two of which hash to the same slot of any table, in a    *)
(* table that starts with two slots; and two configurations.               *)
EXTENDS RateQueue

MCSource == {"a", "b", "c"}
MCHash == [s \in MCSource |-> IF s = "c" THEN 0 ELSE 3]
MCConfs == {[size |-> 3, rate |-> 3, brimsize |-> 1],
            [size |-> 4, rate |-> 2, brimsize |-> 2]}
=============================================================================
