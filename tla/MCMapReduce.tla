----------------------------- MODULE MCMapReduce -----------------------------
(***************************************************************************)
(* A job with two input files and two reduce tasks.  Key "a" is in both    *)
(* files and twice in one.  The first worker quits after two RPCs or       *)
(* crashes, the second stays.                                              *)
(***************************************************************************)
EXTENDS MapReduce, TLC

CONSTANTS w1, w2

MCContents == (0 :> <<<<"a", 1>>, <<"b", 2>>, <<"a", 3>>>>) @@ (1 :> <<<<"a", 4>>>>)
MCIHash == ("a" :> 5) @@ ("b" :> 2)
MCLimit == (w1 :> 2) @@ (w2 :> -1)

=============================================================================
