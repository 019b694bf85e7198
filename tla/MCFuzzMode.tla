----------------------------- MODULE MCFuzzMode -----------------------------
(***************************************************************************)
(* Small fuzz-mode campaigns for TLC.  Branches "a", "b" and "c" carry     *)
(* energy; leaders.json has testcases for "a" and "b" only, so "c" is      *)
(* skipped until a save reaches it.                                        *)
(*   t1 hits a and c once; t2 hits a twice and b once; t3 hits b and c.          *)
(* Oracle "k" flags one call of t1 and two calls of t3.                    *)
(***************************************************************************)
EXTENDS FuzzMode, TLC

CONSTANTS t1, t2, t3

MCTests == {t1, t2, t3}

MCReach ==
    (t1 :> (("a" :> 1) @@ ("c" :> 1))) @@
    (t2 :> (("a" :> 2) @@ ("b" :> 1))) @@
    (t3 :> (("b" :> 1) @@ ("c" :> 2)))

MCFound == (t1 :> ("k" :> 1)) @@ (t2 :> ("k" :> 0)) @@ (t3 :> ("k" :> 2))

MCWeightTable ==
    << [id |-> "a", w |-> 3], [id |-> "b", w |-> 2], [id |-> "c", w |-> 1] >>

MCLeaderTable == ("a" :> t1) @@ ("b" :> t2)

\* A leaders.json that does not match weight.json: "a" has no leader.
MCLeaderTableStale == ("b" :> t2) @@ ("c" :> t3)

====
