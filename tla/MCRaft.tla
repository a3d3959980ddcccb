------------------------------- MODULE MCRaft -------------------------------
(***************************************************************************)
(* Model checking instances of Raft: the peers, the commands, the call     *)
(* slots and the heartbeat goroutines are interchangeable.                 *)
(***************************************************************************)
EXTENDS RaftLog, TLC

Symmetry ==
    Permutations(Peer) \cup Permutations(Command)
        \cup Permutations(Slot) \cup Permutations(Routine)

(* Without late timers and busy routines nothing reads the vote counter of *)
(* a finished canvass, the votes of the past, the indexes of a peer that   *)
(* does not lead or, when no restart is left, what a peer saved beside its *)
(* log: states that differ only there have the same future.                *)
CalmView ==
    <<[p \in Peer |-> IF IsLeader(p) THEN rf[p]
                      ELSE [rf[p] EXCEPT !.nextIndex = <<>>, !.matchIndex = <<>>]],
      [p \in Peer |-> IF rf[p].state = "Candidate" THEN votes[p] ELSE {}],
      [p \in Peer |-> IF restarts < MaxRestarts THEN persister[p]
                                               ELSE persister[p].logs],
      routine, blocked, call, applied, outOfRange, restarts, Canvasses>>

Sends(p) == IsLeader(p) \/ \E i \in Routine : routine[p][i] # NotRunning

(* For elections alone, with any schedule: no step and no election property *)
(* reads whom a peer takes for the leader, whether it would still deliver   *)
(* entries (there are none), the votes of a finished canvass,               *)
(* the indexes of a peer that neither leads nor sends heartbeats or, after  *)
(* the last canvass, the timers.                                            *)
ElectionView ==
    <<[p \in Peer |->
        [rf[p] EXCEPT
            !.leader = Nil, !.applying = TRUE,
            !.timer = @ /\ Canvasses < MaxCanvass,
            !.fired = @ /\ Canvasses < MaxCanvass,
            !.nextIndex = IF Sends(p) THEN @ ELSE <<>>,
            !.matchIndex = IF Sends(p) THEN @ ELSE <<>>]],
      [p \in Peer |-> IF rf[p].state = "Candidate" THEN votes[p] ELSE {}],
      routine, blocked, persister, call, applied, cast, outOfRange, restarts>>

(* The whole cluster restarts after two elections: p1 led in term 1 and    *)
(* took two commands that reached nobody, p3 was elected in term 2 by p2   *)
(* and took one.  Everybody starts from what it had saved.                 *)
CONSTANTS p1, p2, p3, x

Entry(term, index) == [Term |-> term, Index |-> index, Command |-> x]

Diverged ==
    [p \in Peer |->
        CASE p = p1 -> [state |-> "Leader", currentTerm |-> 1, votedFor |-> p1,
                        logs |-> <<Dummy, Entry(1, 1), Entry(1, 2)>>]
          [] p = p3 -> [state |-> "Leader", currentTerm |-> 2, votedFor |-> p3,
                        logs |-> <<Dummy, Entry(2, 1)>>]
          [] OTHER -> [Blank EXCEPT !.currentTerm = 2, !.votedFor = p3]]

(* One election later: p2 elected p1 again, in term 3, and a late heartbeat *)
(* of p3 made p1 save that it leads.                                       *)
LedTwice ==
    [Diverged EXCEPT
        ![p1] = [@ EXCEPT !.currentTerm = 3],
        ![p2] = [@ EXCEPT !.currentTerm = 3, !.votedFor = p1]]

Elections == {<<p1, 1, p1>>, <<p2, 1, p1>>, <<p3, 2, p3>>, <<p2, 2, p3>>}

StartFrom(saved, elections) ==
    /\ persister = saved
    /\ rf = [p \in Peer |-> Make(p, saved[p])]
    /\ routine = [p \in Peer |->
                    [i \in Routine |-> IF saved[p].state = "Leader"
                                       THEN Asleep ELSE NotRunning]]
    /\ cast = elections
    /\ votes = [p \in Peer |-> {}]
    /\ blocked = {}
    /\ call = [c \in Conn |-> NoCall]
    /\ applied = {}
    /\ outOfRange = FALSE
    /\ restarts = 0

RestartedSpec ==
    StartFrom(LedTwice, Elections \cup {<<p1, 3, p1>>, <<p2, 3, p1>>}) /\ [][Next]_vars

CatchUpSpec == StartFrom(Diverged, Elections) /\ [][Next]_vars /\ Fairness

=============================================================================
