---------------------------- MODULE ReplicatedLog ----------------------------
(***************************************************************************)
(* What a service may expect of Raft (the outline at the head of raft.go): *)
(* commands are started, one log is agreed on, and every server is given   *)
(* that log from its beginning, in order and without gaps.  A server that  *)
(* is restarted is given it again.                                         *)
(***************************************************************************)
EXTENDS Integers, FiniteSets

CONSTANTS
    Server,
    First        \* the entry every log begins with

VARIABLES
    proposed,    \* the entries some server still knows of
    chosen,      \* the entries agreed on
    delivered    \* delivered[p]: how many of them p was given

vars == <<proposed, chosen, delivered>>

(* A server may know entries from before. *)
Init ==
    /\ First \in proposed
    /\ chosen = {}
    /\ delivered = [p \in Server |-> 0]

OneEach(entries, indexes) ==
    /\ {e.Index : e \in entries} = indexes
    /\ \A e, f \in entries : e.Index = f.Index => e = f

(* A server takes one new entry, with no promise that it is ever chosen,   *)
(* or entries are forgotten, or both: servers that exchange or drop        *)
(* entries are not told apart from clients that hand in new ones.          *)
Start ==
    /\ UNCHANGED <<chosen, delivered>>
    /\ Cardinality(proposed' \ proposed) <= 1

(* Server p is given the log up to its n-th entry.  What was not chosen    *)
(* before is now.                                                          *)
Deliver(p, n) ==
    /\ delivered[p] < n
    /\ delivered' = [delivered EXCEPT ![p] = n]
    /\ \E new \in SUBSET proposed :
          /\ OneEach(new, Cardinality(chosen) .. n - 1)
          /\ chosen' = chosen \cup new
    /\ UNCHANGED proposed

Restart(p) ==
    /\ delivered' = [delivered EXCEPT ![p] = 0]
    /\ proposed' \subseteq proposed
    /\ UNCHANGED chosen

Next ==
    \/ Start
    \/ \E p \in Server : Deliver(p, delivered'[p])
    \/ \E p \in Server : Restart(p)

Spec == Init /\ [][Next]_vars
=============================================================================
