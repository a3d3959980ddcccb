------------------------------- MODULE RaftLog -------------------------------
(***************************************************************************)
(* The Raft peers as an implementation of the replicated log.              *)
(***************************************************************************)
EXTENDS Raft

Entries(log) == {log[i] : i \in 1 .. Len(log)}

(* The entries in some log, in some saved log or on their way. *)
Known ==
    UNION ({Entries(rf[p].logs) : p \in Peer}
           \cup {Entries(persister[p].logs) : p \in Peer}
           \cup {Entries(call[c].Entries) :
                    c \in {d \in Conn : call[d].kind = "AppendEntry"}})

Log == INSTANCE ReplicatedLog WITH
    Server <- Peer,
    First <- Dummy,
    proposed <- Known,
    chosen <- applied,
    delivered <- [p \in Peer |-> rf[p].lastApplied + 1]

(* What the peers send on their applyCh is one log: only entries that some *)
(* log, saved log or call holds, of which no step makes more than one new  *)
(* (whose command it is, is not looked at), one at each index, given to    *)
(* every peer from the first one on, in order and without gaps, whatever   *)
(* is lost or restarted (applyEntryRoutine, the commit rules, persist).    *)
ImplementsLog == Log!Spec
=============================================================================
