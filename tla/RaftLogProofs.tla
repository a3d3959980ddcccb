--------------------------- MODULE RaftLogProofs ---------------------------
(***************************************************************************)
(* Proofs about the logs of the peers of Raft, whatever is lost, delayed,  *)
(* reordered or restarted, and however the goroutines interleave: the      *)
(* persister holds the log of its peer, and applyCh skips no index.        *)
(***************************************************************************)
EXTENDS RaftTypeProofs

(* A step that delivers nothing and restarts nobody changes one peer, not  *)
(* its lastApplied, and saves the log if it changes it.                    *)
Keeps ==
    /\ UNCHANGED applied
    /\ \E p \in Peer :
          /\ \A q \in Others(p) : rf'[q] = rf[q] /\ persister'[q] = persister[q]
          /\ rf'[p].lastApplied = rf[p].lastApplied
          /\ \/ rf'[p].logs = rf[p].logs /\ persister'[p] = persister[p]
             \/ persister'[p] = Saved(rf'[p])

(* Every step of Next is such a step, or a delivery, or a restart.         *)
LEMMA LogMoves ==
    TypeOK /\ Next =>
        Keeps \/ (\E p \in Peer : ApplyEntry(p)) \/ (\E p \in Peer : Restart(p))

<1>Holds.
    ASSUME TypeOK, UNCHANGED <<applied, persister>>, NEW p \in Peer, NEW r,
           rf' = [rf EXCEPT ![p] = r],
           r.lastApplied = rf[p].lastApplied, r.logs = rf[p].logs
    PROVE  Keeps
  BY Zenon, <1>Holds DEF Keeps, Others, TypeOK

<1>Saves.
    ASSUME TypeOK, UNCHANGED applied, NEW p \in Peer, NEW r,
           rf' = [rf EXCEPT ![p] = r], persister' = [persister EXCEPT ![p] = Saved(r)],
           r.lastApplied = rf[p].lastApplied
    PROVE  Keeps
  BY Zenon, <1>Saves DEF Keeps, Others, TypeOK

<1>Same.
    ASSUME UNCHANGED <<rf, applied, persister>>, NEW p \in Peer
    PROVE  Keeps
  BY Zenon, <1>Same DEF Keeps, Others

<1>TimerHolds.
    ASSUME TypeOK, NEW p \in Peer, TimerFires(p)
    PROVE  Keeps
  <2>. USE <1>TimerHolds
  <2>. DEFINE old == rf[p]
              r == [old EXCEPT !.timer = FALSE, !.fired = TRUE]
  <2>1. rf' = [rf EXCEPT ![p] = r] /\ UNCHANGED <<applied, persister>>
    BY Zenon DEF TimerFires, TypeOK
  <2>2. old \in RaftStruct
    BY Zenon DEF TypeOK
  <2>. HIDE DEF old
  <2>3. r.lastApplied = old.lastApplied /\ r.logs = old.logs
    BY Zenon, <2>2 DEF RaftStruct
  <2>. HIDE DEF r
  <2>. QED BY Zenon, <2>1, <2>3, <1>Holds DEF old

<1>CanvassHolds.
    ASSUME TypeOK, NEW p \in Peer, NEW s \in Slot, NEW to \in SUBSET Others(p),
           Canvass(p, to, s)
    PROVE  Keeps
  <2>. USE <1>CanvassHolds
  <2>. DEFINE old == rf[p]
              term == rf[p].currentTerm + 1
              r == [old EXCEPT !.timer = TRUE, !.fired = FALSE, !.state = "Candidate",
                               !.currentTerm = term, !.votedFor = p]
  <2>1. rf' = [rf EXCEPT ![p] = r] /\ UNCHANGED <<applied, persister>>
    BY Zenon DEF Canvass
  <2>2. old \in RaftStruct
    BY Zenon DEF TypeOK
  <2>. HIDE DEF old, term
  <2>3. r.lastApplied = old.lastApplied /\ r.logs = old.logs
    BY Zenon, <2>2 DEF RaftStruct
  <2>. HIDE DEF r
  <2>. QED BY Zenon, <2>1, <2>3, <1>Holds DEF old

<1>Helpers.
    ASSUME NEW r \in RaftStruct, NEW t, NEW p \in Peer
    PROVE  /\ TurnToFollower(r, t).lastApplied = r.lastApplied
           /\ TurnToFollower(r, t).logs = r.logs
           /\ NewTermFromCandidate(r, t).lastApplied = r.lastApplied
           /\ ElectionSuccessReset(r, p).lastApplied = r.lastApplied
           /\ Advance(r, p, t).lastApplied = r.lastApplied
           /\ BackOff(r, p, t).lastApplied = r.lastApplied
           /\ BackOff(r, p, t).logs = r.logs
  <2>. USE <1>Helpers
  <2>1. TurnToFollower(r, t).lastApplied = r.lastApplied /\ TurnToFollower(r, t).logs = r.logs
    BY Zenon DEF TurnToFollower, RaftStruct
  <2>2. NewTermFromCandidate(r, t).lastApplied = r.lastApplied
    BY Zenon DEF NewTermFromCandidate, RaftStruct
  <2>3. ElectionSuccessReset(r, p).lastApplied = r.lastApplied
    BY Zenon DEF ElectionSuccessReset, RaftStruct
  <2>4. Advance(r, p, t).lastApplied = r.lastApplied
    BY Zenon DEF Advance, RaftStruct
  <2>5. BackOff(r, p, t).lastApplied = r.lastApplied /\ BackOff(r, p, t).logs = r.logs
    BY Zenon DEF BackOff, RaftStruct
  <2>. QED BY Zenon, <2>1, <2>2, <2>3, <2>4, <2>5

<1>RequestVoteSaves.
    ASSUME TypeOK, NEW c \in Conn, RequestVote(c)
    PROVE  Keeps
  <2>. USE <1>RequestVoteSaves
  <2>. DEFINE p == c[2]
              candidate == c[1]
              m == call[c]
              newer == Newer(c)
              old == rf[p]
              r == IF newer THEN NewTermFromCandidate(old, m.CandidateTerm) ELSE old
              late == r.currentTerm > m.CandidateTerm
              open == ~late /\ MayVoteFor(r, candidate)
              grant == open /\ UpToDate(m, r.logs)
              r2 == IF grant
                    THEN [r EXCEPT !.state = "Follower", !.votedFor = candidate,
                                   !.leader = candidate, !.timer = TRUE]
                    ELSE r
  <2>1. /\ m.kind = "RequestVote" /\ rf' = [rf EXCEPT ![p] = r2] /\ UNCHANGED applied
        /\ persister' = [persister EXCEPT ![p] = Saved(r2)]
    BY Zenon DEF RequestVote
  <2>2. p \in Peer /\ candidate \in Peer /\ old \in RaftStruct /\ m.CandidateTerm \in Nat
    BY Zenon, <2>1, CallFields DEF TypeOK, Conn
  <2>. HIDE DEF old, newer, m
  <2>3. r \in RaftStruct /\ r.lastApplied = old.lastApplied
    BY Zenon, <2>2, NewTermType, <1>Helpers
  <2>. HIDE DEF r, grant
  <2>4. r2.lastApplied = old.lastApplied
    BY Zenon, <2>3 DEF RaftStruct
  <2>. HIDE DEF r2, p
  <2>. QED BY Zenon, <2>1, <2>2, <2>4, <1>Saves DEF old

<1>RequestVoteReplyHolds.
    ASSUME TypeOK, NEW c \in Conn, RequestVoteReply(c)
    PROVE  Keeps
  <2>. USE <1>RequestVoteReplyHolds
  <2>. DEFINE p == c[1]
              m == call[c]
              newer == Newer(c)
              old == rf[p]
              counts == ~Delayed(old, m) /\ old.state = "Candidate" /\ m.VoteGranted
              granted == votes[p] \cup {c[2]}
              wins == counts /\ IsMajority(granted)
              reset == ElectionSuccessReset(old, p)
              r == CASE newer -> TurnToFollower(old, m.CurrentTerm)
                     [] wins -> [reset EXCEPT !.timer = FALSE]
                     [] OTHER -> old
  <2>1. rf' = [rf EXCEPT ![p] = r] /\ UNCHANGED <<applied, persister>>
    BY Zenon DEF RequestVoteReply
  <2>2. p \in Peer /\ old \in RaftStruct
    BY Zenon DEF TypeOK, Conn
  <2>3. reset \in RaftStruct /\ reset.lastApplied = old.lastApplied /\ reset.logs = old.logs
    BY Zenon, <2>2, ElectionSuccessResetType, <1>Helpers
  <2>. HIDE DEF old, newer, m, wins, reset
  <2>4. /\ [reset EXCEPT !.timer = FALSE].lastApplied = old.lastApplied
        /\ [reset EXCEPT !.timer = FALSE].logs = old.logs
    BY Zenon, <2>3 DEF RaftStruct
  <2>5. /\ TurnToFollower(old, m.CurrentTerm).lastApplied = old.lastApplied
        /\ TurnToFollower(old, m.CurrentTerm).logs = old.logs
    BY Zenon, <2>2, <1>Helpers
  <2>6. r = TurnToFollower(old, m.CurrentTerm) \/ r = [reset EXCEPT !.timer = FALSE] \/ r = old
    OBVIOUS
  <2>. HIDE DEF r, p
  <2>7. r.lastApplied = old.lastApplied /\ r.logs = old.logs
    BY Zenon, <2>4, <2>5, <2>6
  <2>. QED BY Zenon, <2>1, <2>2, <2>7, <1>Holds DEF old

<1>AppendEntrySaves.
    ASSUME TypeOK, NEW c \in Conn, AppendEntry(c)
    PROVE  Keeps
  <2>. USE <1>AppendEntrySaves
  <2>. DEFINE p == c[2]
              sent == call[c]
              m == Received(sent)
              newer == Newer(c)
              old == rf[p]
              r == IF newer THEN TurnToFollower(old, m.Term) ELSE old
              late == m.Term < r.currentTerm
              heard == [r EXCEPT !.timer = TRUE,
                                 !.state = IF @ = "Candidate" THEN "Follower" ELSE @]
              ok == ~late /\ Matches(m, r.logs)
              longer == [heard EXCEPT !.logs = Merge(m, @), !.commitIndex = NewCommitIndex(r, m)]
              r2 == CASE late -> r
                      [] ok -> longer
                      [] OTHER -> heard
  <2>1. /\ sent.kind = "AppendEntry" /\ rf' = [rf EXCEPT ![p] = r2]
        /\ UNCHANGED applied
        /\ persister' = [persister EXCEPT ![p] = Saved(r2)]
    BY Zenon DEF AppendEntry
  <2>2. p \in Peer /\ old \in RaftStruct /\ m.Term \in Nat
    BY Zenon, <2>1, ReceivedType DEF TypeOK, Conn
  <2>. HIDE DEF old, newer, m
  <2>3. r \in RaftStruct /\ r.lastApplied = old.lastApplied
    BY Zenon, <2>2, TurnToFollowerType, <1>Helpers
  <2>. HIDE DEF r
  <2>4. heard.lastApplied = old.lastApplied /\ longer.lastApplied = old.lastApplied
    BY <2>3 DEF RaftStruct
  <2>. HIDE DEF late, heard, ok, longer
  <2>5. r2.lastApplied = old.lastApplied
    BY Zenon, <2>3, <2>4
  <2>. HIDE DEF r2, p
  <2>. QED BY Zenon, <2>1, <2>2, <2>5, <1>Saves DEF old

<1>AppendLogReplyHolds.
    ASSUME TypeOK, NEW c \in Conn, AppendLogReply(c)
    PROVE  Keeps
  <2>. USE <1>AppendLogReplyHolds
  <2>. DEFINE p == c[1]
              q == c[2]
              m == call[c]
              newer == Newer(c)
              old == rf[p]
              leads == ~newer /\ old.state = "Leader"
              advanced == Advance(old, q, m.CurIndex)
              panics == leads /\ m.Success /\ ~CanTryCommit(advanced)
              follower == TurnToFollower(old, m.Term)
              back == BackOff(old, q, m.FirstIndex)
              on == TryUpdateCommitIndex(advanced)
              r == CASE newer -> follower
                     [] leads /\ m.Term = -1 -> back
                     [] leads /\ m.Success /\ ~panics -> on
                     [] OTHER -> old
  <2>1. /\ m.kind = "AppendEntryReply" /\ rf' = [rf EXCEPT ![p] = r]
        /\ UNCHANGED <<applied, persister>>
    BY Zenon DEF AppendLogReply
  <2>2. p \in Peer /\ q \in Peer /\ old \in RaftStruct /\ m.CurIndex \in Nat
    BY Zenon, <2>1, CallFields DEF TypeOK, Conn
  <2>3. /\ advanced \in RaftStruct /\ advanced.lastApplied = old.lastApplied
        /\ follower.lastApplied = old.lastApplied /\ back.lastApplied = old.lastApplied
        /\ advanced.logs = old.logs /\ follower.logs = old.logs /\ back.logs = old.logs
    BY Zenon, <2>2, AdvanceType, <1>Helpers
  <2>. HIDE DEF old, newer, m, leads, advanced, panics, follower, back
  <2>4. on.lastApplied = old.lastApplied /\ on.logs = old.logs
    <3>1. PICK n \in Nat \cup {-1} : on = [advanced EXCEPT !.commitIndex = n]
      BY Zenon, <2>3, TryUpdateCommitIndexType
    <3>. HIDE DEF on
    <3>. QED BY Zenon, <2>3, <3>1 DEF RaftStruct
  <2>. HIDE DEF on
  <2>5. r = follower \/ r = back \/ r = on \/ r = old
    OBVIOUS
  <2>. HIDE DEF r, p
  <2>6. r.lastApplied = old.lastApplied /\ r.logs = old.logs
    BY Zenon, <2>3, <2>4, <2>5
  <2>. QED BY Zenon, <2>1, <2>2, <2>6, <1>Holds DEF old

<1>StartSaves.
    ASSUME TypeOK, NEW p \in Peer, NEW x \in Command, Start(p, x)
    PROVE  Keeps
  <2>. USE <1>StartSaves
  <2>. DEFINE old == rf[p]
              index == Len(old.logs)
              r == [old EXCEPT !.logs = Append(@, [Term |-> old.currentTerm,
                                                   Index |-> index, Command |-> x]),
                               !.nextIndex[p] = index + 1, !.matchIndex[p] = index]
  <2>1. /\ rf' = [rf EXCEPT ![p] = r] /\ UNCHANGED applied
        /\ persister' = [persister EXCEPT ![p] = Saved(r)]
    BY Zenon DEF Start
  <2>2. old \in RaftStruct
    BY Zenon DEF TypeOK
  <2>. HIDE DEF old, index
  <2>3. r.lastApplied = old.lastApplied
    BY <2>2 DEF RaftStruct
  <2>. HIDE DEF r
  <2>. QED BY Zenon, <2>1, <2>3, <1>Saves DEF old

<1>KillHolds.
    ASSUME TypeOK, NEW p \in Peer, NEW waiting \in BOOLEAN, Kill(p, waiting)
    PROVE  Keeps
  <2>. USE <1>KillHolds
  <2>. DEFINE old == rf[p]
              r == [old EXCEPT !.shutDown = TRUE, !.applying = waiting]
  <2>1. rf' = [rf EXCEPT ![p] = r] /\ UNCHANGED <<applied, persister>>
    BY Zenon DEF Kill, TypeOK
  <2>2. old \in RaftStruct
    BY Zenon DEF TypeOK
  <2>. HIDE DEF old
  <2>3. r.lastApplied = old.lastApplied /\ r.logs = old.logs
    BY Zenon, <2>2 DEF RaftStruct
  <2>. HIDE DEF r
  <2>. QED BY Zenon, <2>1, <2>3, <1>Holds DEF old

<1>. SUFFICES ASSUME TypeOK, Next
              PROVE  Keeps \/ (\E p \in Peer : ApplyEntry(p)) \/ (\E p \in Peer : Restart(p))
  OBVIOUS
<1>1. ASSUME NEW p \in Peer, NEW i \in Routine,
             BeginRound(p, i) \/ RoutineEnds(p, i) \/ \E q \in Peer, s \in Slot : SendEntry(p, i, q, s)
      PROVE  Keeps
  BY Zenon, <1>1, <1>Same DEF BeginRound, RoutineEnds, SendEntry
<1>2. ASSUME NEW c \in Conn, Lose(c) \/ BlockOnNotLeader(c)
      PROVE  Keeps
  <2>1. c[1] \in Peer /\ UNCHANGED <<rf, applied, persister>>
    BY Zenon, <1>2 DEF Lose, BlockOnNotLeader, Conn
  <2>. QED BY Zenon, <2>1, <1>Same
<1>. QED
  BY Zenon, <1>1, <1>2, <1>TimerHolds, <1>CanvassHolds, <1>RequestVoteSaves, <1>RequestVoteReplyHolds,
     <1>AppendEntrySaves, <1>AppendLogReplyHolds, <1>StartSaves, <1>KillHolds DEF Next

-----------------------------------------------------------------------------
(* Saved logs. *)

(* What persist saves of a log is a log it would save again as it is.      *)
LEMMA SavedTwice ==
    ASSUME NEW r \in RaftStruct
    PROVE  Encodes(Saved(r).logs)
<1>1. Encodes(<<Dummy>>)
  BY DEF Encodes, Dummy
<1>2. Saved(r).logs = IF Encodes(r.logs) THEN r.logs ELSE <<Dummy>>
  BY Zenon DEF Saved
<1>. QED BY Zenon, <1>1, <1>2

LEMMA SavedInit == Init => LogSaved
<1>. SUFFICES ASSUME Init, NEW p \in Peer
              PROVE  persister[p].logs = Saved(rf[p]).logs
  BY Zenon DEF LogSaved
<1>1. rf[p] = Make(p, Blank) /\ persister[p] = Blank
  BY Zenon DEF Init
<1>2. Make(p, Blank).logs = <<Dummy>> /\ Blank.logs = <<Dummy>>
  BY DEF Make, Blank, Restored
<1>3. Saved(rf[p]).logs = <<Dummy>>
  BY Zenon, <1>1, <1>2 DEF Saved
<1>. QED BY Zenon, <1>1, <1>2, <1>3

LEMMA SavedNext == TypeInv /\ LogSaved /\ [Next]_vars => LogSaved'
<1>Keep.
    ASSUME LogSaved, NEW p \in Peer, NEW p2 \in Peer,
           \/ p2 # p /\ rf'[p2] = rf[p2] /\ persister'[p2] = persister[p2]
           \/ rf'[p2].logs = rf[p2].logs /\ persister'[p2] = persister[p2]
           \/ persister'[p2] = Saved(rf'[p2])
    PROVE  persister'[p2].logs = Saved(rf'[p2]).logs
  <2>1. persister[p2].logs = IF Encodes(rf[p2].logs) THEN rf[p2].logs ELSE <<Dummy>>
    BY Zenon, <1>Keep DEF LogSaved, Saved
  <2>2. Saved(rf'[p2]).logs = IF Encodes(rf'[p2].logs) THEN rf'[p2].logs ELSE <<Dummy>>
    BY Zenon DEF Saved
  <2>. QED BY Zenon, <1>Keep, <2>1, <2>2
<1>. SUFFICES ASSUME TypeInv, LogSaved, [Next]_vars
              PROVE  LogSaved'
  OBVIOUS
<1>1. CASE Keeps
  <2>1. PICK p \in Peer :
          /\ \A q \in Others(p) : rf'[q] = rf[q] /\ persister'[q] = persister[q]
          /\ \/ rf'[p].logs = rf[p].logs /\ persister'[p] = persister[p]
             \/ persister'[p] = Saved(rf'[p])
    BY Zenon, <1>1 DEF Keeps
  <2>. QED BY Zenon, <2>1, <1>Keep DEF LogSaved, Others
<1>2. CASE \E p \in Peer : ApplyEntry(p)
  <2>1. PICK p \in Peer : ApplyEntry(p)
    BY Zenon, <1>2
  <2>. DEFINE old == rf[p]
              r == [old EXCEPT !.lastApplied = old.commitIndex, !.applying = ~old.shutDown]
  <2>2. UNCHANGED persister /\ (UNCHANGED rf \/ rf' = [rf EXCEPT ![p] = r])
    BY Zenon, <2>1 DEF ApplyEntry, TypeInv, TypeOK
  <2>3. old \in RaftStruct
    BY Zenon DEF TypeInv, TypeOK
  <2>. HIDE DEF old
  <2>4. r.logs = old.logs
    BY Zenon, <2>3 DEF RaftStruct
  <2>. HIDE DEF r
  <2>5. \A q \in Peer : rf'[q].logs = rf[q].logs
    BY Zenon, <2>2, <2>4 DEF old, TypeInv, TypeOK
  <2>. QED BY Zenon, <2>2, <2>5, <1>Keep DEF LogSaved
<1>3. CASE \E p \in Peer : Restart(p)
  <2>1. PICK p \in Peer : Restart(p)
    BY Zenon, <1>3
  <2>. DEFINE made == Make(p, persister[p])
  <2>2. UNCHANGED persister /\ rf' = [rf EXCEPT ![p] = made]
    BY Zenon, <2>1 DEF Restart
  <2>3. made.logs = persister[p].logs
    BY Zenon, MakeType DEF TypeInv, TypeOK
  <2>. HIDE DEF made
  <2>4. rf'[p].logs = persister[p].logs /\ \A q \in Others(p) : rf'[q] = rf[q]
    BY Zenon, <2>2, <2>3 DEF Others, TypeInv, TypeOK
  <2>5. Encodes(persister[p].logs)
    BY Zenon, SavedTwice DEF LogSaved, TypeInv, TypeOK
  <2>6. persister'[p].logs = Saved(rf'[p]).logs
    BY Zenon, <2>2, <2>4, <2>5 DEF Saved
  <2>. QED BY Zenon, <2>2, <2>4, <2>6, <1>Keep DEF LogSaved, Others
<1>4. CASE UNCHANGED vars
  BY Zenon, <1>4 DEF vars, LogSaved
<1>. QED BY Zenon, <1>1, <1>2, <1>3, <1>4, LogMoves DEF TypeInv

(* At every moment the persister of a peer holds its log as persist writes *)
(* it: no handler that changes the log (AppendEntry, Start) leaves the     *)
(* lock without having saved it, and a peer that restarts goes on with     *)
(* what its persister holds.                                               *)
THEOREM LogsAreSaved == Spec => []LogSaved
<1>. QED BY TypeInit, TypeNext, SavedInit, SavedNext, PTL DEF Spec

-----------------------------------------------------------------------------
(* Deliveries. *)

(* What a turn of applyEntryRoutine delivers, unless it panics: the        *)
(* entries with the indexes from lastApplied + 1 to commitIndex.           *)
LEMMA DeliveredIndexes ==
    ASSUME TypeInv, NEW p \in Peer, ApplyEntry(p), ~UNCHANGED <<applied, rf>>
    PROVE  /\ Given' = Given \cup (rf[p].lastApplied + 1 .. rf[p].commitIndex)
           /\ rf'[p].lastApplied = rf[p].commitIndex
           /\ \A q \in Others(p) : rf'[q] = rf[q]
<1>. DEFINE old == rf[p]
            r == [old EXCEPT !.lastApplied = old.commitIndex, !.applying = ~old.shutDown]
<1>1. /\ rf' = [rf EXCEPT ![p] = r] /\ applied' = applied \cup Delivered(old)
      /\ old.commitIndex < Len(old.logs)
  BY Zenon DEF ApplyEntry, TypeInv, TypeOK
<1>2. /\ old \in RaftStruct /\ Indexed(old.logs)
      /\ old.lastApplied \in Nat \cup {-1} /\ old.commitIndex \in Nat \cup {-1}
  BY Zenon DEF TypeInv, TypeOK, IndexIsPosition, RaftStruct
<1>3. Len(old.logs) \in Nat
  BY <1>2 DEF RaftStruct
<1>4. rf'[p] = r /\ \A q \in Others(p) : rf'[q] = rf[q]
  <2>. HIDE DEF r
  <2>. QED BY Zenon, <1>1 DEF TypeInv, TypeOK, Others
<1>. HIDE DEF old
<1>5. r.lastApplied = old.commitIndex
  BY Zenon, <1>2 DEF RaftStruct
<1>. HIDE DEF r
<1>6. ASSUME NEW i \in old.lastApplied + 1 .. old.commitIndex
      PROVE  At(old.logs, i).Index = i
  <2>1. i \in Nat /\ i + 1 \in 1 .. Len(old.logs) /\ i + 1 - 1 = i
    BY <1>1, <1>2, <1>3, <1>6
  <2>2. At(old.logs, i) = old.logs[i + 1]
    BY Zenon DEF At
  <2>. QED BY <2>1, <2>2, <1>2 DEF Indexed
<1>7. {e.Index : e \in Delivered(old)} = old.lastApplied + 1 .. old.commitIndex
  BY Zenon, <1>6 DEF Delivered
<1>8. Given' = Given \cup {e.Index : e \in Delivered(old)}
  BY Zenon, <1>1 DEF Given
<1>. QED BY Zenon, <1>4, <1>5, <1>7, <1>8 DEF old

LEMMA NoGapInit == Init => NothingSkipped
<1>. SUFFICES ASSUME Init
              PROVE  NothingSkipped
  OBVIOUS
<1>1. Restored(Blank).lastApplied = -1 /\ \A p \in Peer : Make(p, Blank) = Restored(Blank)
  BY DEF Make, Blank, Restored
<1>2. \A p \in Peer : rf[p].lastApplied = -1
  BY Zenon, <1>1 DEF Init
<1>3. Given = {}
  BY Zenon DEF Init, Given
<1>4. 0 .. -1 = {}
  OBVIOUS
<1>. QED BY Zenon, <1>2, <1>3, <1>4 DEF NothingSkipped

(* Make starts at lastApplied = -1, also a peer that was the leader.       *)
LEMMA MadeUnapplied ==
    ASSUME NEW p \in Peer, NEW s \in SavedState
    PROVE  Make(p, s).lastApplied = -1
<1>1. Restored(s).lastApplied = -1
  BY Zenon DEF Restored
<1>2. Restored(s) \in RaftStruct
  BY Zenon DEF Restored, RaftStruct, SavedState, ServerState
<1>3. ElectionSuccessReset(Restored(s), p).lastApplied = Restored(s).lastApplied
  <2>. DEFINE r == Restored(s)
  <2>. HIDE DEF r
  <2>. QED BY Zenon, <1>2 DEF ElectionSuccessReset, RaftStruct, r
<1>. QED BY Zenon, <1>1, <1>3 DEF Make

LEMMA NoGapNext == TypeInv /\ NothingSkipped /\ [Next]_vars => NothingSkipped'
<1>. SUFFICES ASSUME TypeInv, NothingSkipped, [Next]_vars
              PROVE  NothingSkipped'
  OBVIOUS
<1>Same.
    ASSUME UNCHANGED applied,
           \A p \in Peer : rf'[p].lastApplied \in {-1, rf[p].lastApplied}
    PROVE  NothingSkipped'
  <2>1. 0 .. -1 = {}
    OBVIOUS
  <2>2. Given' = Given
    BY Zenon, <1>Same DEF Given
  <2>. QED BY Zenon, <2>1, <2>2, <1>Same DEF NothingSkipped
<1>1. CASE Keeps
  <2>1. \A p \in Peer : rf'[p].lastApplied = rf[p].lastApplied
    BY Zenon, <1>1 DEF Keeps, Others
  <2>. QED BY Zenon, <1>1, <2>1, <1>Same DEF Keeps
<1>2. ASSUME NEW p \in Peer, ApplyEntry(p), ~UNCHANGED <<applied, rf>>
      PROVE  NothingSkipped'
  <2>. DEFINE last == rf[p].lastApplied
              commit == rf[p].commitIndex
              new == last + 1 .. commit
  <2>1. /\ Given' = Given \cup new /\ rf'[p].lastApplied = commit
        /\ \A q \in Others(p) : rf'[q] = rf[q]
    BY Zenon, <1>2, DeliveredIndexes
  <2>2. last \in Nat \cup {-1} /\ commit \in Nat \cup {-1}
    BY Zenon DEF TypeInv, TypeOK, RaftStruct
  <2>3. 0 .. last \subseteq Given
    BY Zenon DEF NothingSkipped
  <2>. HIDE DEF last, commit
  <2>4. \A n \in 0 .. commit : n \in 0 .. last \/ n \in new
    BY <2>2
  <2>5. 0 .. commit \subseteq Given \cup new
    BY Zenon, <2>3, <2>4
  <2>6. \A n \in new : 0 .. n \subseteq 0 .. commit
    BY <2>2
  <2>. HIDE DEF new
  <2>7. \A n \in Given \cup new : 0 .. n \subseteq Given \cup new
    BY Zenon, <2>5, <2>6 DEF NothingSkipped
  <2>8. \A q \in Peer : 0 .. rf'[q].lastApplied \subseteq Given \cup new
    BY Zenon, <2>1, <2>5 DEF NothingSkipped, Others
  <2>. QED BY Zenon, <2>1, <2>7, <2>8 DEF NothingSkipped
<1>3. CASE \E p \in Peer : Restart(p)
  <2>1. PICK p \in Peer : Restart(p)
    BY Zenon, <1>3
  <2>. DEFINE made == Make(p, persister[p])
  <2>2. UNCHANGED applied /\ rf' = [rf EXCEPT ![p] = made]
    BY Zenon, <2>1 DEF Restart
  <2>3. made.lastApplied = -1
    BY Zenon, MadeUnapplied DEF TypeInv, TypeOK
  <2>. HIDE DEF made
  <2>4. \A q \in Peer : rf'[q].lastApplied \in {-1, rf[q].lastApplied}
    BY Zenon, <2>2, <2>3 DEF TypeInv, TypeOK
  <2>. QED BY Zenon, <2>2, <2>4, <1>Same
<1>4. CASE UNCHANGED <<applied, rf>>
  BY Zenon, <1>4, <1>Same
<1>5. UNCHANGED vars => UNCHANGED <<applied, rf>>
  BY Zenon DEF vars
<1>. QED BY Zenon, <1>1, <1>2, <1>3, <1>4, <1>5, LogMoves DEF TypeInv

(* applyCh skips no index, whatever happens to commitIndex and lastApplied *)
(* meanwhile: when a peer has been handed an entry, entries with all lower *)
(* indexes have been handed out too, and lastApplied is never ahead of     *)
(* what applyEntryRoutine delivered, restarts and truncated logs included. *)
THEOREM NoEntrySkipped == Spec => []NothingSkipped
<1>. QED BY TypeInit, TypeNext, NoGapInit, NoGapNext, PTL DEF Spec

=============================================================================
