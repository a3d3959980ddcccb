-------------------------- MODULE CheckSingleLinked --------------------------
(* checkSingle with the doubly linked list it walks: node 0 is headEntry, node *)
(* x the entry at position x, End is nil.  lift takes a call and its return   *)
(* out of the list and leaves the pointers of the two nodes alone, and unlift  *)
(* puts them back where those stale pointers say.                             *)
EXTENDS CheckSingle

VARIABLES next, prev

linkedVars == <<vars, next, prev>>

LinkedInit ==
    /\ Init
    /\ next = [x \in 0..(2 * N) |-> x + 1]
    /\ prev = [x \in Position |-> x - 1]

Match(x) ==
    CHOOSE y \in Position : hist[y] = [kind |-> "return", id |-> hist[x].id]

(* Pointers: the pair of the two fields.  Unlink takes node x out, Relink     *)
(* puts it back.                                                              *)
Unlink(list, x) ==
    LET n == list.next[x]
        p == list.prev[x]
    IN [next |-> [list.next EXCEPT ![p] = n],
        prev |-> IF n = End THEN list.prev ELSE [list.prev EXCEPT ![n] = p]]

Relink(list, x) ==
    LET n == list.next[x]
        p == list.prev[x]
    IN [next |-> [list.next EXCEPT ![p] = x],
        prev |-> IF n = End THEN list.prev ELSE [list.prev EXCEPT ![n] = x]]

List == [next |-> next, prev |-> prev]

Become(list) == next' = list.next /\ prev' = list.prev

BugLift(x) == Become(Unlink(List, x))

Lift(x) == Become(Unlink(Unlink(List, x), Match(x)))

BugUnlift(x) == Become(Relink(List, x))

Unlift(x) == Become(Relink(Relink(List, Match(x)), x))

LinkedLinearize ==
    /\ Searching(next[0], "call")
    /\ Lift(entry)
    /\ Linearize(next[0], next'[0])

BugLinkedSkip ==
    /\ Skip(next[0], next[0])
    /\ UNCHANGED <<next, prev>>

LinkedSkip ==
    /\ Skip(next[0], next[entry])
    /\ UNCHANGED <<next, prev>>

LinkedBacktrack ==
    /\ calls # <<>>
    /\ LET top == calls[Len(calls)].entry
       IN Unlift(top) /\ Backtrack(next[0], next'[top])

LinkedReturn ==
    /\ ReturnFalse(next[0]) \/ ReturnTrue(next[0])
    /\ UNCHANGED <<next, prev>>

LinkedNext == LinkedLinearize \/ LinkedSkip \/ LinkedBacktrack \/ LinkedReturn

(* The loop runs until it returns (no kill).                                  *)
LinkedSpec ==
    LinkedInit /\ [][LinkedNext]_linkedVars /\ WF_linkedVars(LinkedNext)

-----------------------------------------------------------------------------

(* The list from headEntry is the entries of the operations not linearized,   *)
(* in time order, with prev its inverse: what lift removed in one order       *)
(* unlift restores in the opposite one.                                       *)
ListInOrder ==
    \A x \in {0} \cup {y \in Position : hist[y].id \notin linearized} :
        /\ next[x] = EntryAfter(x, linearized)
        /\ next[x] # End => prev[next[x]] = x

(* checkSingle with pointers does what the search over the set of remaining   *)
(* operations does.                                                           *)
ImplementsSearch == Spec

(* The search ends: checkSingle goes on behind the operation it gave up, so   *)
(* it never makes the same choices twice, and it never runs off the list.     *)
Terminates == <>(result # "searching")
=============================================================================
