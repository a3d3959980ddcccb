--------------------------- MODULE RaftTypeProofs ---------------------------
(***************************************************************************)
(* Every behaviour of Raft, for every set of peers, every bound and every  *)
(* schedule, keeps the types, and the Index of an entry is its position.   *)
(***************************************************************************)
EXTENDS Raft, TLAPS

(* A log has its dummy entry at least.                                     *)
NLog == Seq(LogEntry) \ {<<>>}

(* The types, and the Index of every entry is its position.                *)
TypeInv == TypeOK /\ IndexIsPosition

-----------------------------------------------------------------------------
(* Sequences. *)

(* An element of a sequence.                                               *)
LEMMA SeqElement ==
    ASSUME NEW S, NEW s \in Seq(S), NEW i \in 1 .. Len(s)
    PROVE  s[i] \in S
OBVIOUS

(* A concatenation: what append(a, b...) of Go yields.                     *)
LEMMA SeqConcat ==
    ASSUME NEW S, NEW s \in Seq(S), NEW t \in Seq(S)
    PROVE  /\ s \o t \in Seq(S)
           /\ Len(s \o t) = Len(s) + Len(t)
           /\ \A i \in 1 .. Len(s) + Len(t) :
                 (s \o t)[i] = IF i <= Len(s) THEN s[i] ELSE t[i - Len(s)]
OBVIOUS

(* A slice that goes to the end: what a[m:] of Go yields.                  *)
LEMMA SeqRest ==
    ASSUME NEW S, NEW s \in Seq(S), NEW m \in Nat \ {0}
    PROVE  LET t == SubSeq(s, m, Len(s))
           IN  /\ t \in Seq(S)
               /\ Len(t) = IF m <= Len(s) THEN Len(s) - m + 1 ELSE 0
               /\ \A i \in 1 .. Len(s) - m + 1 : t[i] = s[m + i - 1]
OBVIOUS

-----------------------------------------------------------------------------
(* The methods of the struct. *)

(* The last entry of a log is an entry, and its Index is len(logs)-1.      *)
LEMMA LastEntryType ==
    ASSUME NEW logs \in NLog
    PROVE  /\ Len(logs) \in Nat \ {0}
           /\ LastEntry(logs) \in LogEntry
           /\ Indexed(logs) => LastEntry(logs).Index = Len(logs) - 1
BY DEF NLog, LastEntry, Indexed

(* turnToFollower keeps the type of the struct, the logs and the indexes.  *)
LEMMA TurnToFollowerType ==
    ASSUME NEW r \in RaftStruct, NEW t \in Nat
    PROVE  /\ TurnToFollower(r, t) \in RaftStruct
           /\ TurnToFollower(r, t).logs = r.logs
           /\ TurnToFollower(r, t).state = "Follower"
           /\ TurnToFollower(r, t).currentTerm = t
BY Zenon DEF TurnToFollower, RaftStruct, ServerState

(* RequestVote keeps the type and the logs when it learns of a newer term, *)
(* and when it grants its vote.                                            *)
LEMMA NewTermType ==
    ASSUME NEW r \in RaftStruct, NEW t \in Nat
    PROVE  /\ NewTermFromCandidate(r, t) \in RaftStruct
           /\ NewTermFromCandidate(r, t).logs = r.logs
           /\ NewTermFromCandidate(r, t).state = "Follower"
           /\ NewTermFromCandidate(r, t).currentTerm = t
<1>. DEFINE on == r.timer \/ r.state = "Leader"
<1>1. on \in BOOLEAN
  BY Zenon DEF RaftStruct
<1>2. NewTermFromCandidate(r, t) =
        [r EXCEPT !.state = "Follower", !.currentTerm = t, !.votedFor = Nil,
                  !.leader = Nil, !.timer = on]
  BY Zenon DEF NewTermFromCandidate
<1>. HIDE DEF on
<1>3. NewTermFromCandidate(r, t) \in RaftStruct
  BY Zenon, <1>1, <1>2 DEF RaftStruct, ServerState
<1>4. /\ NewTermFromCandidate(r, t).logs = r.logs
      /\ NewTermFromCandidate(r, t).state = "Follower"
      /\ NewTermFromCandidate(r, t).currentTerm = t
  BY Zenon, <1>2 DEF RaftStruct
<1>. QED
  BY Zenon, <1>3, <1>4

(* electionSuccessReset keeps the type of the struct and the logs.         *)
LEMMA ElectionSuccessResetType ==
    ASSUME NEW r \in RaftStruct, NEW p \in Peer
    PROVE  /\ ElectionSuccessReset(r, p) \in RaftStruct
           /\ ElectionSuccessReset(r, p).logs = r.logs
<1>1. LastEntry(r.logs).Index \in Nat
  BY Zenon, LastEntryType DEF RaftStruct, NLog, LogEntry
<1>. DEFINE last == LastEntry(r.logs).Index
            next == [q \in Peer |-> last + 1]
            match == [q \in Peer |-> IF q = p THEN last ELSE 0]
<1>2. next \in [Peer -> Nat] /\ match \in [Peer -> Nat]
  BY <1>1
<1>3. ElectionSuccessReset(r, p) =
         [r EXCEPT !.state = "Leader", !.leader = p,
                   !.nextIndex = next, !.matchIndex = match]
  BY Zenon DEF ElectionSuccessReset
<1>. HIDE DEF next, match
<1>4. ElectionSuccessReset(r, p) \in RaftStruct
  BY <1>2, <1>3 DEF RaftStruct, ServerState
<1>5. ElectionSuccessReset(r, p).logs = r.logs
  BY Zenon, <1>3 DEF RaftStruct
<1>. QED
  BY Zenon, <1>4, <1>5

(* Make builds a struct with the saved logs.                               *)
LEMMA MakeType ==
    ASSUME NEW p \in Peer, NEW s \in SavedState
    PROVE  /\ Make(p, s) \in RaftStruct
           /\ Make(p, s).logs = s.logs
<1>1. /\ Restored(s) \in RaftStruct
      /\ Restored(s).logs = s.logs
  BY Zenon DEF Restored, RaftStruct, SavedState, ServerState
<1>. QED
  BY Zenon, <1>1, ElectionSuccessResetType DEF Make

(* The log that Make starts from.                                          *)
LEMMA DummyLog == <<Dummy>> \in NLog /\ Indexed(<<Dummy>>)
<1>1. Dummy \in LogEntry
  BY Zenon DEF Dummy, LogEntry
<1>2. <<Dummy>> \in Seq(LogEntry) /\ <<Dummy>> # <<>> /\ Len(<<Dummy>>) = 1
  BY <1>1
<1>. QED
  BY <1>2 DEF Indexed, Dummy, NLog

(* The index a majority has reached is one of the values of matchIndex.    *)
LEMMA MajorityIndexType ==
    ASSUME NEW r \in RaftStruct
    PROVE  MajorityIndex(r) \subseteq Nat
BY DEF MajorityIndex, KthLargest, RaftStruct

(* What AppendLogReplyHandler makes of the struct keeps its type and logs. *)
LEMMA TryUpdateCommitIndexType ==
    ASSUME NEW r \in RaftStruct
    PROVE  LET r2 == TryUpdateCommitIndex(r)
           IN  r2 \in RaftStruct /\ \E n \in Nat \cup {-1} : r2 = [r EXCEPT !.commitIndex = n]
<1>. DEFINE new == {v \in MajorityIndex(r) : /\ r.commitIndex < v
                                             /\ At(r.logs, v).Term = r.currentTerm}
<1>1. new \subseteq Nat
  BY Zenon, MajorityIndexType
<1>2. CASE new = {}
  <2>1. TryUpdateCommitIndex(r) = r
    BY Zenon, <1>2 DEF TryUpdateCommitIndex
  <2>2. r = [r EXCEPT !.commitIndex = r.commitIndex] /\ r.commitIndex \in Nat \cup {-1}
    BY Zenon DEF RaftStruct
  <2>. QED BY Zenon, <2>1, <2>2
<1>3. CASE new # {}
  <2>. DEFINE n == CHOOSE v \in new : TRUE
  <2>1. n \in Nat
    BY Zenon, <1>1, <1>3
  <2>2. TryUpdateCommitIndex(r) = [r EXCEPT !.commitIndex = n]
    BY Zenon, <1>3 DEF TryUpdateCommitIndex
  <2>. HIDE DEF n
  <2>. QED BY Zenon, <2>1, <2>2 DEF RaftStruct
<1>. QED BY Zenon, <1>2, <1>3

(* AppendLogReplyHandler on success: nextIndex and matchIndex stay natural *)
(* numbers.                                                                *)
LEMMA AdvanceType ==
    ASSUME NEW r \in RaftStruct, NEW q \in Peer, NEW cur \in Nat
    PROVE  /\ Advance(r, q, cur) \in RaftStruct
           /\ Advance(r, q, cur).logs = r.logs
<1>. DEFINE n == Max(cur + 1, r.nextIndex[q])
            k == Max(cur, r.matchIndex[q])
            next == [r.nextIndex EXCEPT ![q] = n]
            match == [r.matchIndex EXCEPT ![q] = k]
<1>1. n \in Nat /\ k \in Nat
  BY DEF Max, RaftStruct
<1>. HIDE DEF n, k
<1>2. next \in [Peer -> Nat] /\ match \in [Peer -> Nat]
  BY Zenon, <1>1 DEF RaftStruct
<1>3. Advance(r, q, cur) = [r EXCEPT !.nextIndex = next, !.matchIndex = match]
  BY Zenon DEF Advance, n, k, RaftStruct
<1>. HIDE DEF next, match
<1>. QED
  BY Zenon, <1>2, <1>3 DEF RaftStruct

-----------------------------------------------------------------------------
(* Types are kept, and entries keep their positions. *)

(* The fields of a call, by its kind.                                      *)
LEMMA CallFields ==
    ASSUME NEW m \in CallState
    PROVE  /\ m.kind = "RequestVote" =>
                /\ m.orphan \in BOOLEAN /\ m.CandidateTerm \in Nat
                /\ m.LastLogIndex \in Nat /\ m.LastLogTerm \in Nat
                /\ [m EXCEPT !.orphan = TRUE] \in CallState
           /\ m.kind = "RequestVoteReply" =>
                /\ m.Canvass \in Nat /\ m.VoteGranted \in BOOLEAN
                /\ m.CurrentTerm \in Nat \cup {-1}
           /\ m.kind = "AppendEntry" =>
                /\ m.orphan \in BOOLEAN /\ m.Term \in Nat
                /\ m.PrevLogIndex \in Nat /\ m.Entries \in Seq(LogEntry)
                /\ m.LeaderCommitIndex \in Nat \cup {-1}
                /\ [m EXCEPT !.orphan = TRUE] \in CallState
           /\ m.kind = "AppendEntryReply" =>
                /\ m.CurIndex \in Nat /\ m.Success \in BOOLEAN
                /\ m.Term \in Nat \cup {-1} /\ m.FirstIndex \in Nat
BY Zenon DEF CallState

(* The decoded arguments of an AppendEntry call: as sent, or all zero.     *)
LEMMA ReceivedType ==
    ASSUME NEW m \in CallState, m.kind = "AppendEntry"
    PROVE  LET d == Received(m)
           IN  /\ d.kind = "AppendEntry" /\ d.Term \in Nat
               /\ d.PrevLogIndex \in Nat /\ d.Entries \in Seq(LogEntry)
               /\ d.LeaderCommitIndex \in Nat \cup {-1}
               /\ \/ d.Entries = m.Entries /\ d.PrevLogIndex = m.PrevLogIndex
                  \/ d.Entries = <<>>
<1>1. CASE Received(m) = m
  BY Zenon, <1>1, CallFields
<1>2. CASE Received(m) # m
  <2>1. Received(m) = [m EXCEPT !.Term = 0, !.PrevLogIndex = 0, !.PrevLogTerm = 0,
                                !.Entries = <<>>, !.LeaderCommitIndex = 0]
    BY Zenon, <1>2 DEF Received
  <2>2. m \in [kind : {"AppendEntry"}, orphan : BOOLEAN, Term : Nat,
                PrevLogIndex : Nat, PrevLogTerm : Nat, Entries : Seq(LogEntry),
                LeaderCommitIndex : Nat \cup {-1}]
    BY Zenon DEF CallState
  <2>. QED BY <2>1, <2>2
<1>. QED BY Zenon, <1>1, <1>2

(* What a newer term in a call means, by its kind.                         *)
LEMMA NewerTerm ==
    ASSUME TypeOK, NEW c \in Conn
    PROVE  LET m == call[c]
           IN /\ m.kind = "RequestVote" =>
                    (Newer(c) <=> m.CandidateTerm > rf[c[2]].currentTerm)
              /\ m.kind = "AppendEntry" =>
                    (Newer(c) <=> Received(m).Term > rf[c[2]].currentTerm)
              /\ m.kind = "RequestVoteReply" =>
                    (Newer(c) <=> /\ rf[c[1]].currentTerm <= m.Canvass
                                  /\ ~m.VoteGranted
                                  /\ m.CurrentTerm > rf[c[1]].currentTerm)
              /\ m.kind = "AppendEntryReply" =>
                    (Newer(c) <=> ~m.Success /\ m.Term > rf[c[1]].currentTerm)
<1>. DEFINE m == call[c]
<1>1. m \in CallState
  BY Zenon DEF TypeOK
<1>2. m.kind # "AppendEntry" => Received(m) = m
  BY Zenon DEF Received
<1>3. m.kind = "AppendEntry" => Received(m).kind = m.kind
  BY Zenon, <1>1, ReceivedType
<1>. QED
  BY Zenon, <1>2, <1>3 DEF Newer, HandlerPeer

(* Make starts every peer with the dummy entry alone.                      *)
LEMMA TypeInit == Init => TypeInv
<1>1. Blank \in SavedState /\ Indexed(Blank.logs)
  BY Zenon, DummyLog DEF NLog, Blank, SavedState, ServerState
<1>2. \A p \in Peer : Make(p, Blank) \in RaftStruct /\ Make(p, Blank).logs = Blank.logs
  BY Zenon, <1>1, MakeType
<1>3. NoCall \in CallState /\ NoCall.kind # "AppendEntry"
  BY Zenon DEF NoCall, CallState
<1>4. ASSUME Init
      PROVE  TypeOK
  <2>1. 0 \in 0 .. MaxRestarts
    BY BoundAssumption
  <2>2. rf \in [Peer -> RaftStruct] /\ persister \in [Peer -> SavedState]
    BY Zenon, <1>1, <1>2, <1>4 DEF Init
  <2>3. call \in [Conn -> CallState]
    BY Zenon, <1>3, <1>4 DEF Init
  <2>. QED BY Zenon, <1>4, <2>1, <2>2, <2>3 DEF Init, TypeOK
<1>5. ASSUME Init
      PROVE  IndexIsPosition
  BY Zenon, <1>1, <1>2, <1>3, <1>5 DEF Init, IndexIsPosition
<1>. QED
  BY Zenon, <1>4, <1>5 DEF TypeInv

(* Every action keeps the types and the positions; the steps before the    *)
(* cases are about the helpers of the handlers.                            *)
LEMMA TypeNext == TypeInv /\ [Next]_vars => TypeInv'

(* The entry at a Go index that is in the log.                             *)
<1>AtType.
    ASSUME NEW logs \in NLog, NEW i \in 0 .. Len(logs) - 1
    PROVE  At(logs, i) \in LogEntry /\ At(logs, i).Term \in Nat
  <2>. USE <1>AtType
  <2>1. logs \in Seq(LogEntry) /\ i + 1 \in 1 .. Len(logs)
    BY DEF NLog
  <2>2. logs[i + 1] \in LogEntry
    BY <2>1, SeqElement, Zenon
  <2>. QED
    BY Zenon, <2>2 DEF At, LogEntry

<1>GrantType.
    ASSUME NEW r \in RaftStruct, NEW q \in Peer
    PROVE  LET g == [r EXCEPT !.state = "Follower", !.votedFor = q,
                              !.leader = q, !.timer = TRUE]
           IN  g \in RaftStruct /\ g.logs = r.logs
  BY <1>GrantType, Zenon DEF RaftStruct, ServerState

(* What persist saves of a struct: its log, or none.                       *)
<1>SavedType.
    ASSUME NEW r \in RaftStruct, Indexed(r.logs)
    PROVE  Saved(r) \in SavedState /\ Indexed(Saved(r).logs)
  <2>. USE <1>SavedType
  <2>. DEFINE logs == IF Encodes(r.logs) THEN r.logs ELSE <<Dummy>>
  <2>1. logs \in NLog /\ Indexed(logs)
    BY Zenon, DummyLog DEF RaftStruct, NLog
  <2>2. Saved(r) = [state |-> r.state, currentTerm |-> r.currentTerm,
                    votedFor |-> r.votedFor, logs |-> logs]
    BY Zenon DEF Saved
  <2>. HIDE DEF logs
  <2>3. Saved(r) \in SavedState
    BY <2>1, <2>2 DEF SavedState, RaftStruct, NLog
  <2>. QED
    BY <2>1, <2>2, <2>3

(* The first k entries of a log, extended by entries that continue their   *)
(* numbering, are a log again.                                             *)
<1>CutAndExtend.
    ASSUME NEW logs \in NLog, Indexed(logs),
           NEW k \in 1 .. Len(logs), NEW es \in Seq(LogEntry),
           \A i \in 1 .. Len(es) : es[i].Index = k - 1 + i
    PROVE  /\ SubSeq(logs, 1, k) \o es \in NLog
           /\ Indexed(SubSeq(logs, 1, k) \o es)
  <2>. USE <1>CutAndExtend
  <2>. DEFINE cut == SubSeq(logs, 1, k)
              new == cut \o es
  <2>1. /\ cut \in Seq(LogEntry) /\ Len(cut) = k
        /\ \A i \in 1 .. k : cut[i] = logs[i]
    BY DEF NLog
  <2>. HIDE DEF cut
  <2>2. /\ new \in Seq(LogEntry)
        /\ Len(new) = Len(cut) + Len(es)
        /\ \A i \in 1 .. Len(cut) + Len(es) :
              new[i] = IF i <= Len(cut) THEN cut[i] ELSE es[i - Len(cut)]
    BY <2>1, SeqConcat, Zenon
  <2>. HIDE DEF new
  <2>3. Len(es) \in Nat /\ k \in Nat /\ k >= 1
    BY DEF NLog
  <2>4. new # <<>>
    BY <2>1, <2>2, <2>3
  <2>5. ASSUME NEW i \in 1 .. Len(new)
        PROVE  new[i].Index = i - 1
    <3>1. CASE i <= k
      <4>1. i \in 1 .. Len(logs) /\ i \in 1 .. k
        BY <3>1, <2>2, <2>3 DEF NLog
      <4>2. new[i] = logs[i]
        BY <4>1, <2>1, <2>2, <2>3
      <4>. QED BY Zenon, <4>1, <4>2 DEF Indexed
    <3>2. CASE i > k
      <4>1. i - k \in 1 .. Len(es) /\ new[i] = es[i - k]
        BY <3>2, <2>1, <2>2, <2>3
      <4>. QED BY <4>1, <2>3
    <3>. QED BY <3>1, <3>2, <2>1, <2>2, <2>3
  <2>. QED
    BY Zenon, <2>2, <2>4, <2>5 DEF NLog, Indexed, new, cut

(* A log that AppendEntry cuts and extends is again a log, and the entries *)
(* keep their positions.                                                   *)
<1>MergeType.
    ASSUME NEW logs \in NLog, Indexed(logs),
           NEW m, m.PrevLogIndex \in Nat, m.Entries \in Seq(LogEntry),
           \A i \in 1 .. Len(m.Entries) :
              m.Entries[i].Index = m.PrevLogIndex + i,
           Matches(m, logs)
    PROVE  Merge(m, logs) \in NLog /\ Indexed(Merge(m, logs))
  <2>. USE <1>MergeType
  <2>. DEFINE k == m.PrevLogIndex + 1
  <2>1. k \in 1 .. Len(logs)
    BY LastEntryType DEF Matches
  <2>2. \A i \in 1 .. Len(m.Entries) : m.Entries[i].Index = k - 1 + i
    OBVIOUS
  <2>3. Merge(m, logs) = SubSeq(logs, 1, k) \o m.Entries
    BY Zenon DEF Merge
  <2>. HIDE DEF k
  <2>. QED
    BY Zenon, <2>1, <2>2, <2>3, <1>CutAndExtend

(* The entries of a log from Go position n + 1 on.                         *)
<1>SuffixType.
    ASSUME NEW logs \in NLog, Indexed(logs), NEW n \in 0 .. Len(logs) - 1
    PROVE  LET es == SubSeq(logs, n + 2, Len(logs))
           IN  /\ es \in Seq(LogEntry)
               /\ \A i \in 1 .. Len(es) : es[i].Index = n + i
  <2>. USE <1>SuffixType
  <2>. DEFINE es == SubSeq(logs, n + 2, Len(logs))
  <2>1. logs \in Seq(LogEntry) /\ Len(logs) \in Nat /\ n \in Nat
    BY DEF NLog
  <2>2. n + 2 \in Nat \ {0}
    BY <2>1
  <2>3. /\ es \in Seq(LogEntry)
        /\ Len(es) = IF n + 2 <= Len(logs) THEN Len(logs) - (n + 2) + 1 ELSE 0
        /\ \A i \in 1 .. Len(logs) - (n + 2) + 1 : es[i] = logs[n + 2 + i - 1]
    BY Zenon, <2>1, <2>2, SeqRest
  <2>. HIDE DEF es
  <2>4. ASSUME NEW i \in 1 .. Len(es)
        PROVE  es[i].Index = n + i
    <3>1. i \in Int /\ n + 2 + i - 1 \in 1 .. Len(logs) /\ es[i] = logs[n + 2 + i - 1]
      BY <2>1, <2>3
    <3>2. logs[n + 2 + i - 1].Index = n + 2 + i - 1 - 1
      BY <3>1 DEF Indexed
    <3>. QED BY <3>1, <3>2, <2>1
  <2>. QED
    BY Zenon, <2>3, <2>4 DEF es

(* sendEntry builds a call whose entries continue at PrevLogIndex + 1.     *)
<1>AppendEntryArgType.
    ASSUME NEW r \in RaftStruct, Indexed(r.logs), NEW q \in Peer,
           NEW term \in Nat, CanSend(r, q)
    PROVE  LET m == AppendEntryArg(r, q, term)
           IN  /\ m \in CallState
               /\ m.kind = "AppendEntry"
               /\ \A i \in 1 .. Len(m.Entries) :
                     m.Entries[i].Index = m.PrevLogIndex + i
  <2>. USE <1>AppendEntryArgType
  <2>. DEFINE logs == r.logs
              prev == r.nextIndex[q] - 1
              es == SubSeq(logs, prev + 2, Len(logs))
              t == At(logs, prev).Term
  <2>1. logs \in NLog /\ prev \in 0 .. Len(logs) - 1
    BY DEF RaftStruct, CanSend, NLog
  <2>2. AppendEntryArg(r, q, term) =
          [kind |-> "AppendEntry", orphan |-> FALSE, Term |-> term,
           PrevLogIndex |-> prev, PrevLogTerm |-> t,
           Entries |-> es, LeaderCommitIndex |-> r.commitIndex]
    BY Zenon DEF AppendEntryArg
  <2>3. r.commitIndex \in Nat \cup {-1}
    BY Zenon DEF RaftStruct
  <2>. HIDE DEF logs, prev
  <2>4. /\ es \in Seq(LogEntry)
        /\ \A i \in 1 .. Len(es) : es[i].Index = prev + i
    BY Zenon, <2>1, <1>SuffixType DEF logs
  <2>5. t \in Nat
    BY Zenon, <2>1, <1>AtType
  <2>. HIDE DEF es, t
  <2>. QED
    BY <2>1, <2>2, <2>3, <2>4, <2>5 DEF CallState

(* The first index of the colliding term is a natural number.              *)
<1>FirstIndexType.
    ASSUME NEW m, NEW logs \in NLog
    PROVE  FirstIndex(m, logs) \in Nat
  <2>. USE <1>FirstIndexType
  <2>. DEFINE first == {i \in 1 .. Len(logs) :
                          /\ logs[i].Term = m.PrevLogTerm
                          /\ \A j \in 1 .. i - 1 : logs[j].Term # m.PrevLogTerm}
  <2>1. CASE first = {}
    BY Zenon, <2>1 DEF FirstIndex
  <2>2. CASE first # {}
    <3>. DEFINE k == CHOOSE i \in first : TRUE
    <3>1. k \in first
      BY Zenon, <2>2
    <3>2. k \in 1 .. Len(logs) /\ logs \in Seq(LogEntry)
      BY Zenon, <3>1 DEF NLog
    <3>. HIDE DEF k
    <3>3. logs[k] \in LogEntry
      BY <3>2, SeqElement, Zenon
    <3>4. FirstIndex(m, logs) = logs[k].Index
      BY Zenon, <2>2 DEF FirstIndex, k
    <3>. QED BY Zenon, <3>3, <3>4 DEF LogEntry
  <2>. QED BY Zenon, <2>1, <2>2

<1>BackOffType.
    ASSUME NEW r \in RaftStruct, NEW q \in Peer, NEW first \in Nat
    PROVE  /\ BackOff(r, q, first) \in RaftStruct
           /\ BackOff(r, q, first).logs = r.logs
  <2>. USE <1>BackOffType
  <2>. DEFINE n == Max(Min(r.nextIndex[q] - 1, first - 1), r.matchIndex[q] + 1)
              next == [r.nextIndex EXCEPT ![q] = n]
  <2>a. r.nextIndex[q] \in Nat /\ r.matchIndex[q] \in Nat
    BY Zenon DEF RaftStruct
  <2>1. n \in Nat
    BY <2>a DEF Max, Min
  <2>. HIDE DEF n
  <2>2. next \in [Peer -> Nat]
    BY Zenon, <2>1 DEF RaftStruct
  <2>3. BackOff(r, q, first) = [r EXCEPT !.nextIndex = next]
    BY Zenon DEF BackOff, n, RaftStruct
  <2>. HIDE DEF next
  <2>. QED
    BY Zenon, <2>2, <2>3 DEF RaftStruct

(* One goroutine moves.                                                    *)
<1>SetRoutineType.
    ASSUME TypeOK, NEW p \in Peer, NEW i \in Routine,
           NEW v \in Nat \cup {Asleep, NotRunning},
           routine' = [routine EXCEPT ![p][i] = v]
    PROVE  routine' \in [Peer -> [Routine -> Nat \cup {Asleep, NotRunning}]]
  <2>. USE <1>SetRoutineType
  <2>. DEFINE Place == Nat \cup {Asleep, NotRunning}
  <2>1. routine \in [Peer -> [Routine -> Place]]
    BY Zenon DEF TypeOK
  <2>. HIDE DEF Place
  <2>2. routine' \in [Peer -> [Routine -> Place]]
    BY Zenon, <2>1 DEF Place
  <2>. QED BY Zenon, <2>2 DEF Place

(* A send on notLeaderCh, or none, leaves the goroutines where goroutines  *)
(* can be.                                                                 *)
<1>NotifyType.
    ASSUME TypeOK, NEW p \in Peer, NEW b, Notify(p, b)
    PROVE  routine' \in [Peer -> [Routine -> Nat \cup {Asleep, NotRunning}]]
  <2>. USE <1>NotifyType
  <2>1. CASE UNCHANGED routine
    BY Zenon, <2>1 DEF TypeOK
  <2>2. CASE \E i \in Routine, v \in {Asleep, NotRunning} :
                routine' = [routine EXCEPT ![p][i] = v]
    BY Zenon, <2>2, <1>SetRoutineType
  <2>. QED
    BY Zenon, <2>1, <2>2 DEF Notify

(* Issued calls.                                                           *)
<1>IssueType.
    ASSUME TypeOK, NEW p, NEW to, NEW s, NEW m \in CallState, Issue(p, to, s, m)
    PROVE  /\ call' \in [Conn -> CallState]
           /\ \A c \in Conn : call'[c] \in {m, call[c]}
  BY <1>IssueType, Zenon DEF Issue, TypeOK

(* A struct is replaced.                                                   *)
<1>ReplaceType.
    ASSUME TypeInv, NEW p \in Peer, NEW r \in RaftStruct, Indexed(r.logs),
           rf' = [rf EXCEPT ![p] = r]
    PROVE  /\ rf' \in [Peer -> RaftStruct]
           /\ \A q \in Peer : Indexed(rf'[q].logs)
  BY <1>ReplaceType, Zenon DEF TypeInv, TypeOK, IndexIsPosition

(* A struct is replaced and saved.                                         *)
<1>ReplaceSaveType.
    ASSUME TypeInv, NEW p \in Peer, NEW r \in RaftStruct, Indexed(r.logs),
           rf' = [rf EXCEPT ![p] = r],
           persister' = [persister EXCEPT ![p] = Saved(r)]
    PROVE  /\ rf' \in [Peer -> RaftStruct]
           /\ persister' \in [Peer -> SavedState]
           /\ \A q \in Peer : Indexed(rf'[q].logs) /\ Indexed(persister'[q].logs)
  BY <1>ReplaceSaveType, Zenon, <1>SavedType DEF TypeInv, TypeOK, IndexIsPosition

(* A call is replaced by something that is not a request to append.        *)
<1>ReplaceCallType.
    ASSUME TypeInv, NEW c \in Conn, NEW m \in CallState, m.kind # "AppendEntry",
           call' = [call EXCEPT ![c] = m]
    PROVE  /\ call' \in [Conn -> CallState]
           /\ \A d \in Conn : call'[d].kind = "AppendEntry" => call'[d] = call[d]
  BY <1>ReplaceCallType, Zenon DEF TypeInv, TypeOK

<1>. SUFFICES ASSUME TypeInv, [Next]_vars
              PROVE  TypeInv'
  BY Zenon
<1>. USE DEF TypeInv
<1>0. NoCall \in CallState /\ NoCall.kind # "AppendEntry"
  BY Zenon DEF NoCall, CallState
<1>a. \A p \in Peer : /\ rf[p] \in RaftStruct
                      /\ rf[p].logs \in NLog /\ Indexed(rf[p].logs)
                      /\ rf[p].currentTerm \in Nat
  BY Zenon DEF TypeOK, IndexIsPosition, RaftStruct, NLog
<1>b. \A c \in Conn : c[1] \in Peer /\ c[2] \in Peer /\ call[c] \in CallState
  BY Zenon DEF TypeOK, Conn
<1>1. ASSUME NEW p \in Peer, TimerFires(p)
      PROVE  TypeInv'
  <2>. DEFINE old == rf[p]
              r == [old EXCEPT !.timer = FALSE, !.fired = TRUE]
  <2>1. old \in RaftStruct /\ Indexed(old.logs)
    BY Zenon, <1>a
  <2>2. rf' = [rf EXCEPT ![p] = r]
    BY Zenon, <1>1 DEF TimerFires, TypeOK
  <2>. HIDE DEF old
  <2>3. r \in RaftStruct /\ r.logs = old.logs
    BY Zenon, <2>1 DEF RaftStruct
  <2>. HIDE DEF r
  <2>4. rf' \in [Peer -> RaftStruct] /\ \A q \in Peer : Indexed(rf'[q].logs)
    BY Zenon, <2>1, <2>2, <2>3, <1>ReplaceType
  <2>. QED
    BY Zenon, <1>1, <2>4 DEF TimerFires, TypeOK, IndexIsPosition
<1>2. ASSUME NEW p \in Peer, NEW s \in Slot, NEW to \in SUBSET Others(p),
             Canvass(p, to, s)
      PROVE  TypeInv'
  <2>. DEFINE old == rf[p]
              term == old.currentTerm + 1
              last == LastEntry(old.logs)
              r == [old EXCEPT !.timer = TRUE, !.fired = FALSE,
                               !.state = "Candidate",
                               !.currentTerm = term, !.votedFor = p]
              m == [kind |-> "RequestVote", orphan |-> FALSE,
                    CandidateTerm |-> term, LastLogIndex |-> last.Index,
                    LastLogTerm |-> last.Term]
  <2>1. /\ rf' = [rf EXCEPT ![p] = r]
        /\ Issue(p, to, s, m)
        /\ votes' = [votes EXCEPT ![p] = {p}]
        /\ cast' = cast \cup {<<p, term, p>>}
        /\ UNCHANGED <<routine, blocked, persister, applied, outOfRange, restarts>>
    BY Zenon, <1>2 DEF Canvass
  <2>2. old \in RaftStruct /\ old.logs \in NLog /\ Indexed(old.logs)
    BY Zenon, <1>a
  <2>. HIDE DEF old
  <2>3. term \in Nat /\ last.Index \in Nat /\ last.Term \in Nat
    <3>1. old.currentTerm \in Nat
      BY Zenon, <2>2 DEF RaftStruct
    <3>2. last \in LogEntry
      BY Zenon, <2>2, LastEntryType
    <3>. QED BY <3>1, <3>2 DEF LogEntry
  <2>. HIDE DEF term, last
  <2>4. m \in CallState /\ m.kind # "AppendEntry"
    BY Zenon, <2>3 DEF CallState
  <2>5. r \in RaftStruct /\ r.logs = old.logs
    BY Zenon, <2>2, <2>3 DEF RaftStruct, ServerState
  <2>. HIDE DEF r, m
  <2>6. rf' \in [Peer -> RaftStruct] /\ \A q \in Peer : Indexed(rf'[q].logs)
    BY Zenon, <2>1, <2>2, <2>5, <1>ReplaceType
  <2>7. /\ call' \in [Conn -> CallState]
        /\ \A c \in Conn : call'[c].kind = "AppendEntry" => call'[c] = call[c]
    BY Zenon, <2>1, <2>4, <1>IssueType
  <2>8. votes' \in [Peer -> SUBSET Peer] /\ cast' \subseteq Peer \X Nat \X Peer
    BY <2>1, <2>3 DEF TypeOK
  <2>9. TypeOK'
    BY Zenon, <2>1, <2>6, <2>7, <2>8 DEF TypeOK
  <2>10. IndexIsPosition'
    BY Zenon, <2>1, <2>6, <2>7 DEF IndexIsPosition
  <2>. QED BY Zenon, <2>9, <2>10
<1>3. ASSUME NEW c \in Conn, RequestVote(c)
      PROVE  TypeInv'
  <2>. DEFINE p == c[2]
              candidate == c[1]
              m == call[c]
              newer == Newer(c)
              old == rf[p]
              r == IF newer THEN NewTermFromCandidate(old, m.CandidateTerm)
                            ELSE old
              late == r.currentTerm > m.CandidateTerm
              open == ~late /\ MayVoteFor(r, candidate)
              grant == open /\ UpToDate(m, r.logs)
              r2 == IF grant
                    THEN [r EXCEPT !.state = "Follower", !.votedFor = candidate,
                                   !.leader = candidate, !.timer = TRUE]
                    ELSE r
              reply == [kind |-> "RequestVoteReply", Canvass |-> m.CandidateTerm,
                        VoteGranted |-> grant,
                        CurrentTerm |-> CASE late -> r.currentTerm
                                          [] open /\ ~grant -> -1
                                          [] OTHER -> 0]
              answer == IF m.orphan THEN NoCall ELSE reply
  <2>1. /\ m.kind = "RequestVote"
        /\ Notify(p, newer)
        /\ rf' = [rf EXCEPT ![p] = r2]
        /\ persister' = [persister EXCEPT ![p] = Saved(r2)]
        /\ cast' = IF grant THEN cast \cup {<<p, m.CandidateTerm, candidate>>}
                            ELSE cast
        /\ call' = [call EXCEPT ![c] = answer]
        /\ UNCHANGED <<votes, blocked, applied, outOfRange, restarts>>
    BY Zenon, <1>3 DEF RequestVote, Answer
  <2>2. /\ p \in Peer /\ candidate \in Peer
        /\ m \in CallState /\ m.CandidateTerm \in Nat
        /\ old \in RaftStruct /\ Indexed(old.logs)
    BY Zenon, <1>a, <1>b, <2>1, CallFields
  <2>. HIDE DEF old, newer, p, candidate, m
  <2>3. r \in RaftStruct /\ r.logs = old.logs
    BY Zenon, <2>2, NewTermType
  <2>. HIDE DEF r
  <2>4. r2 \in RaftStruct /\ r2.logs = old.logs
    <3>. HIDE DEF grant
    <3>. QED BY Zenon, <2>2, <2>3, <1>GrantType
  <2>5. answer \in CallState /\ answer.kind # "AppendEntry"
    <3>1. r.currentTerm \in Nat
      BY Zenon, <2>3 DEF RaftStruct
    <3>2. grant \in BOOLEAN
      BY Zenon DEF UpToDate
    <3>. HIDE DEF grant, open, late
    <3>3. reply \in CallState /\ reply.kind # "AppendEntry"
      BY Zenon, <2>2, <3>1, <3>2 DEF CallState
    <3>. QED BY Zenon, <3>3, <1>0
  <2>. HIDE DEF r2, answer, grant, reply, open, late
  <2>6. /\ rf' \in [Peer -> RaftStruct]
        /\ persister' \in [Peer -> SavedState]
        /\ \A q \in Peer : Indexed(rf'[q].logs) /\ Indexed(persister'[q].logs)
    BY Zenon, <2>1, <2>2, <2>4, <1>ReplaceSaveType
  <2>7. /\ call' \in [Conn -> CallState]
        /\ \A d \in Conn : call'[d].kind = "AppendEntry" => call'[d] = call[d]
    BY Zenon, <2>1, <2>5, <1>ReplaceCallType
  <2>8. /\ cast' \subseteq Peer \X Nat \X Peer
        /\ routine' \in [Peer -> [Routine -> Nat \cup {Asleep, NotRunning}]]
    BY <2>1, <2>2, <1>NotifyType DEF TypeOK
  <2>9. TypeOK'
    BY Zenon, <2>1, <2>6, <2>7, <2>8 DEF TypeOK
  <2>10. IndexIsPosition'
    BY Zenon, <2>6, <2>7 DEF IndexIsPosition
  <2>. QED BY Zenon, <2>9, <2>10
<1>4. ASSUME NEW c \in Conn, RequestVoteReply(c)
      PROVE  TypeInv'
  <2>. DEFINE p == c[1]
              m == call[c]
              newer == Newer(c)
              old == rf[p]
              counts == ~Delayed(old, m) /\ old.state = "Candidate" /\ m.VoteGranted
              granted == votes[p] \cup {c[2]}
              wins == counts /\ IsMajority(granted)
              r == CASE newer -> TurnToFollower(old, m.CurrentTerm)
                     [] wins -> [ElectionSuccessReset(old, p) EXCEPT !.timer = FALSE]
                     [] OTHER -> old
  <2>1. /\ m.kind = "RequestVoteReply"
        /\ votes' = IF counts THEN [votes EXCEPT ![p] = granted] ELSE votes
        /\ rf' = [rf EXCEPT ![p] = r]
        /\ IF wins
           THEN \E i \in Routine :
                    /\ routine[p][i] = NotRunning
                    /\ routine' = [routine EXCEPT ![p][i] = Asleep]
           ELSE Notify(p, newer)
        /\ call' = [call EXCEPT ![c] = NoCall]
        /\ UNCHANGED <<blocked, persister, applied, cast, outOfRange, restarts>>
    BY Zenon, <1>4 DEF RequestVoteReply
  <2>2. /\ p \in Peer /\ c[2] \in Peer
        /\ old \in RaftStruct /\ old.currentTerm \in Nat /\ Indexed(old.logs)
        /\ m.CurrentTerm \in Nat \cup {-1}
    BY Zenon, <1>a, <1>b, <2>1, CallFields
  <2>3. newer => m.CurrentTerm \in Nat /\ ~wins
    BY <2>1, <2>2, NewerTerm
  <2>4. votes' \in [Peer -> SUBSET Peer]
    BY Zenon, <2>1, <2>2 DEF TypeOK
  <2>5. routine' \in [Peer -> [Routine -> Nat \cup {Asleep, NotRunning}]]
    BY Zenon, <2>1, <2>2, <1>NotifyType, <1>SetRoutineType
  <2>. HIDE DEF old, newer, p, m, wins
  <2>6. r \in RaftStruct /\ r.logs = old.logs
    <3>1. CASE newer
      <4>1. r = TurnToFollower(old, m.CurrentTerm)
        BY Zenon, <3>1, <2>3
      <4>. QED BY Zenon, <3>1, <4>1, <2>2, <2>3, TurnToFollowerType
    <3>2. CASE ~newer /\ wins
      <4>. DEFINE e == ElectionSuccessReset(old, p)
      <4>1. e \in RaftStruct /\ e.logs = old.logs
        BY Zenon, <2>2, ElectionSuccessResetType
      <4>2. r = [e EXCEPT !.timer = FALSE]
        BY Zenon, <3>2
      <4>. HIDE DEF e, r
      <4>. QED BY Zenon, <4>1, <4>2 DEF RaftStruct
    <3>3. CASE ~newer /\ ~wins
      BY Zenon, <3>3, <2>2
    <3>. QED BY Zenon, <3>1, <3>2, <3>3
  <2>. HIDE DEF r
  <2>7. rf' \in [Peer -> RaftStruct] /\ \A q \in Peer : Indexed(rf'[q].logs)
    BY Zenon, <2>1, <2>2, <2>6, <1>ReplaceType
  <2>8. /\ call' \in [Conn -> CallState]
        /\ \A d \in Conn : call'[d].kind = "AppendEntry" => call'[d] = call[d]
    BY Zenon, <2>1, <1>0, <1>ReplaceCallType
  <2>. HIDE DEF counts, granted
  <2>9. TypeOK'
    BY Zenon, <2>1, <2>4, <2>5, <2>7, <2>8 DEF TypeOK
  <2>10. IndexIsPosition'
    BY Zenon, <2>1, <2>7, <2>8 DEF IndexIsPosition
  <2>. QED BY Zenon, <2>9, <2>10
<1>5. ASSUME NEW p \in Peer, NEW i \in Routine, BeginRound(p, i)
      PROVE  TypeInv'
  <2>1. routine' \in [Peer -> [Routine -> Nat \cup {Asleep, NotRunning}]]
    BY Zenon, <1>5, <1>a, <1>SetRoutineType DEF BeginRound
  <2>. QED BY Zenon, <1>5, <2>1 DEF BeginRound, TypeOK, IndexIsPosition
<1>6. ASSUME NEW p \in Peer, NEW i \in Routine, NEW q \in Peer, NEW s \in Slot,
             SendEntry(p, i, q, s)
      PROVE  TypeInv'
  <2>1. /\ routine[p][i] \in Nat
        /\ UNCHANGED <<rf, votes, blocked, persister, applied, cast, restarts>>
    BY Zenon, <1>6 DEF SendEntry
  <2>r. routine' \in [Peer -> [Routine -> Nat \cup {Asleep, NotRunning}]]
    <3>1. routine' = routine \/ routine' = [routine EXCEPT ![p][i] = NotRunning]
      BY Zenon, <1>6 DEF SendEntry
    <3>. QED BY Zenon, <3>1, <1>SetRoutineType DEF TypeOK
  <2>2. CASE ~CanSend(rf[p], q)
    <3>1. outOfRange' = TRUE /\ UNCHANGED call
      BY Zenon, <1>6, <2>2 DEF SendEntry
    <3>. QED BY Zenon, <2>1, <2>r, <3>1 DEF TypeOK, IndexIsPosition
  <2>3. CASE CanSend(rf[p], q)
    <3>. DEFINE m == AppendEntryArg(rf[p], q, routine[p][i])
    <3>1. Issue(p, {q}, s, m) /\ UNCHANGED outOfRange
      BY Zenon, <1>6, <2>3 DEF SendEntry
    <3>2. /\ m \in CallState
          /\ \A j \in 1 .. Len(m.Entries) : m.Entries[j].Index = m.PrevLogIndex + j
      BY Zenon, <2>1, <2>3, <1>a, <1>AppendEntryArgType
    <3>. HIDE DEF m
    <3>3. /\ call' \in [Conn -> CallState]
          /\ \A c \in Conn : call'[c] = m \/ call'[c] = call[c]
      BY Zenon, <3>1, <3>2, <1>IssueType
    <3>4. ASSUME NEW c \in Conn, call'[c].kind = "AppendEntry",
                 NEW j \in 1 .. Len(call'[c].Entries)
          PROVE  call'[c].Entries[j].Index = call'[c].PrevLogIndex + j
      BY Zenon, <3>2, <3>3, <3>4 DEF IndexIsPosition
    <3>. QED BY Zenon, <2>1, <2>r, <3>1, <3>3, <3>4 DEF TypeOK, IndexIsPosition
  <2>. QED BY Zenon, <2>2, <2>3
<1>7. ASSUME NEW c \in Conn, AppendEntry(c)
      PROVE  TypeInv'
  <2>. DEFINE p == c[2]
              sent == call[c]
              m == Received(sent)
              newer == Newer(c)
              old == rf[p]
              r == IF newer THEN TurnToFollower(old, m.Term) ELSE old
              late == m.Term < r.currentTerm
              heard == [r EXCEPT !.timer = TRUE,
                                 !.state = IF @ = "Candidate" THEN "Follower" ELSE @]
              ok == ~late /\ Matches(m, r.logs)
              r2 == CASE late -> r
                      [] ok -> [heard EXCEPT !.logs = Merge(m, @),
                                             !.commitIndex = NewCommitIndex(r, m)]
                      [] OTHER -> heard
              reply == CASE late -> AppendEntryReply(sent, FALSE, r.currentTerm, 0)
                         [] ok -> AppendEntryReply(sent, TRUE, 0, 0)
                         [] OTHER -> AppendEntryReply(sent, FALSE, -1, FirstIndex(m, r.logs))
              answer == IF sent.orphan THEN NoCall ELSE reply
  <2>1. /\ sent.kind = "AppendEntry"
        /\ Notify(p, newer)
        /\ rf' = [rf EXCEPT ![p] = r2]
        /\ persister' = [persister EXCEPT ![p] = Saved(r2)]
        /\ call' = [call EXCEPT ![c] = answer]
        /\ UNCHANGED <<votes, blocked, applied, cast, outOfRange, restarts>>
    BY Zenon, <1>7 DEF AppendEntry, Answer
  <2>2. /\ p \in Peer
        /\ old \in RaftStruct /\ Indexed(old.logs)
        /\ m.Term \in Nat /\ m.PrevLogIndex \in Nat /\ m.Entries \in Seq(LogEntry)
        /\ m.LeaderCommitIndex \in Nat \cup {-1}
        /\ sent.PrevLogIndex \in Nat /\ sent.Entries \in Seq(LogEntry)
    <3>1. p \in Peer /\ old \in RaftStruct /\ Indexed(old.logs) /\ sent \in CallState
      BY Zenon, <1>a, <1>b
    <3>. HIDE DEF sent, p, old
    <3>. QED BY Zenon, <2>1, <3>1, CallFields, ReceivedType
  <2>3. \A i \in 1 .. Len(m.Entries) : m.Entries[i].Index = m.PrevLogIndex + i
    <3>1. \A i \in 1 .. Len(sent.Entries) : sent.Entries[i].Index = sent.PrevLogIndex + i
      BY Zenon, <2>1 DEF IndexIsPosition
    <3>2. sent \in CallState
      BY Zenon, <1>b
    <3>. HIDE DEF sent
    <3>3. \/ m.Entries = sent.Entries /\ m.PrevLogIndex = sent.PrevLogIndex
          \/ m.Entries = <<>>
      BY Zenon, <2>1, <3>2, ReceivedType
    <3>. QED BY <3>1, <3>3
  <2>. HIDE DEF old, newer, p, m, sent
  <2>4. r \in RaftStruct /\ Indexed(r.logs)
    BY Zenon, <2>2, TurnToFollowerType
  <2>. HIDE DEF r
  <2>5. heard \in RaftStruct /\ heard.logs = r.logs
    BY Zenon, <2>4 DEF RaftStruct, ServerState
  <2>6. r.logs \in NLog /\ r.currentTerm \in Nat /\ r.commitIndex \in Nat \cup {-1}
    BY Zenon, <2>4 DEF RaftStruct, NLog
  <2>. HIDE DEF heard, late
  <2>7. r2 \in RaftStruct /\ Indexed(r2.logs)
    <3>1. CASE late
      BY Zenon, <3>1, <2>4
    <3>2. CASE ok
      <4>. DEFINE logs == Merge(m, heard.logs)
                  n == NewCommitIndex(r, m)
      <4>1. logs \in NLog /\ Indexed(logs)
        BY Zenon, <3>2, <2>2, <2>3, <2>4, <2>5, <2>6, <1>MergeType
      <4>2. n \in Nat \cup {-1}
        BY Zenon, <2>2, <2>6 DEF NewCommitIndex, Max
      <4>3. r2 = [heard EXCEPT !.logs = logs, !.commitIndex = n]
        BY Zenon, <3>2, <2>5
      <4>. HIDE DEF logs, n, r2
      <4>4. r2 \in RaftStruct
        BY Zenon, <4>1, <4>2, <4>3, <2>5 DEF RaftStruct, NLog
      <4>5. r2.logs = logs
        BY Zenon, <4>3, <2>5 DEF RaftStruct
      <4>. QED BY Zenon, <4>1, <4>4, <4>5
    <3>3. CASE ~late /\ ~ok
      <4>1. r2 = heard
        BY Zenon, <3>3
      <4>. QED BY Zenon, <4>1, <2>4, <2>5
    <3>. QED BY Zenon, <3>1, <3>2, <3>3
  <2>8. answer \in CallState /\ answer.kind # "AppendEntry"
    <3>. DEFINE cur == sent.PrevLogIndex + Len(sent.Entries)
    <3>1. cur \in Nat /\ FirstIndex(m, r.logs) \in Nat
      BY <2>2, <2>6, <1>FirstIndexType
    <3>2. \A ok2 \in BOOLEAN, t \in Nat \cup {-1}, f \in Nat :
             LET a == AppendEntryReply(sent, ok2, t, f)
             IN  a \in CallState /\ a.kind # "AppendEntry"
      BY Zenon, <3>1 DEF AppendEntryReply, CallState
    <3>3. reply \in CallState /\ reply.kind # "AppendEntry"
      <4>1. CASE late
        <5>1. reply = AppendEntryReply(sent, FALSE, r.currentTerm, 0)
          BY Zenon, <4>1
        <5>. QED BY Zenon, <5>1, <3>2, <2>6
      <4>2. CASE ok
        <5>1. reply = AppendEntryReply(sent, TRUE, 0, 0)
          BY Zenon, <4>2
        <5>. QED BY Zenon, <5>1, <3>2
      <4>3. CASE ~late /\ ~ok
        <5>1. reply = AppendEntryReply(sent, FALSE, -1, FirstIndex(m, r.logs))
          BY Zenon, <4>3
        <5>. QED BY Zenon, <5>1, <3>1, <3>2
      <4>. QED BY Zenon, <4>1, <4>2, <4>3
    <3>. QED BY Zenon, <3>3, <1>0
  <2>. HIDE DEF r2, answer, reply, ok
  <2>9. /\ rf' \in [Peer -> RaftStruct]
        /\ persister' \in [Peer -> SavedState]
        /\ \A q \in Peer : Indexed(rf'[q].logs) /\ Indexed(persister'[q].logs)
    BY Zenon, <2>1, <2>2, <2>7, <1>ReplaceSaveType
  <2>10. /\ call' \in [Conn -> CallState]
         /\ \A d \in Conn : call'[d].kind = "AppendEntry" => call'[d] = call[d]
    BY Zenon, <2>1, <2>8, <1>ReplaceCallType
  <2>11. routine' \in [Peer -> [Routine -> Nat \cup {Asleep, NotRunning}]]
    BY Zenon, <2>1, <2>2, <1>NotifyType
  <2>12. TypeOK'
    BY Zenon, <2>1, <2>9, <2>10, <2>11 DEF TypeOK
  <2>13. IndexIsPosition'
    BY Zenon, <2>9, <2>10 DEF IndexIsPosition
  <2>. QED BY Zenon, <2>12, <2>13
<1>8. ASSUME NEW c \in Conn, AppendLogReply(c)
      PROVE  TypeInv'
  <2>. DEFINE p == c[1]
              q == c[2]
              m == call[c]
              newer == Newer(c)
              old == rf[p]
              leads == ~newer /\ old.state = "Leader"
              advanced == Advance(old, q, m.CurIndex)
              panics == leads /\ m.Success /\ ~CanTryCommit(advanced)
              r == CASE newer -> TurnToFollower(old, m.Term)
                     [] leads /\ m.Term = -1 -> BackOff(old, q, m.FirstIndex)
                     [] leads /\ m.Success /\ ~panics -> TryUpdateCommitIndex(advanced)
                     [] OTHER -> old
  <2>1. /\ m.kind = "AppendEntryReply"
        /\ Notify(p, newer)
        /\ outOfRange' = panics
        /\ rf' = [rf EXCEPT ![p] = r]
        /\ call' = [call EXCEPT ![c] = NoCall]
        /\ UNCHANGED <<votes, blocked, persister, applied, cast, restarts>>
    BY Zenon, <1>8 DEF AppendLogReply
  <2>2. /\ p \in Peer /\ q \in Peer
        /\ old \in RaftStruct /\ old.currentTerm \in Nat /\ Indexed(old.logs)
        /\ m.Term \in Nat \cup {-1} /\ m.FirstIndex \in Nat /\ m.CurIndex \in Nat
    BY Zenon, <1>a, <1>b, <2>1, CallFields
  <2>3. newer => m.Term \in Nat
    BY <2>1, <2>2, NewerTerm
  <2>4. panics \in BOOLEAN
    BY Zenon DEF CanTryCommit
  <2>. HIDE DEF old, newer, p, q, m
  <2>5. r \in RaftStruct /\ r.logs = old.logs
    <3>1. newer => /\ TurnToFollower(old, m.Term) \in RaftStruct
                   /\ TurnToFollower(old, m.Term).logs = old.logs
      BY Zenon, <2>2, <2>3, TurnToFollowerType
    <3>2. /\ BackOff(old, q, m.FirstIndex) \in RaftStruct
          /\ BackOff(old, q, m.FirstIndex).logs = old.logs
      BY Zenon, <2>2, <1>BackOffType
    <3>3. advanced \in RaftStruct /\ advanced.logs = old.logs
      BY Zenon, <2>2, AdvanceType
    <3>. HIDE DEF advanced
    <3>4. /\ TryUpdateCommitIndex(advanced) \in RaftStruct
          /\ TryUpdateCommitIndex(advanced).logs = advanced.logs
      <4>1. PICK n : TryUpdateCommitIndex(advanced) = [advanced EXCEPT !.commitIndex = n]
        BY Zenon, <3>3, TryUpdateCommitIndexType
      <4>. QED BY Zenon, <3>3, <4>1, TryUpdateCommitIndexType DEF RaftStruct
    <3>. HIDE DEF panics
    <3>. QED BY Zenon, <2>2, <3>1, <3>2, <3>3, <3>4
  <2>. HIDE DEF r, panics
  <2>6. rf' \in [Peer -> RaftStruct] /\ \A x \in Peer : Indexed(rf'[x].logs)
    BY Zenon, <2>1, <2>2, <2>5, <1>ReplaceType
  <2>7. /\ call' \in [Conn -> CallState]
        /\ \A d \in Conn : call'[d].kind = "AppendEntry" => call'[d] = call[d]
    BY Zenon, <2>1, <1>0, <1>ReplaceCallType
  <2>8. routine' \in [Peer -> [Routine -> Nat \cup {Asleep, NotRunning}]]
    BY Zenon, <2>1, <2>2, <1>NotifyType
  <2>. HIDE DEF leads, advanced
  <2>9. TypeOK'
    BY Zenon, <2>1, <2>4, <2>6, <2>7, <2>8 DEF TypeOK
  <2>10. IndexIsPosition'
    BY Zenon, <2>1, <2>6, <2>7 DEF IndexIsPosition
  <2>. QED BY Zenon, <2>9, <2>10
<1>9. ASSUME NEW p \in Peer, NEW x \in Command, Start(p, x)
      PROVE  TypeInv'
  <2>. DEFINE old == rf[p]
              logs == old.logs
              index == Len(logs)
              e == [Term |-> old.currentTerm, Index |-> index, Command |-> x]
              next == [old.nextIndex EXCEPT ![p] = index + 1]
              match == [old.matchIndex EXCEPT ![p] = index]
              r == [old EXCEPT !.logs = Append(@, e),
                               !.nextIndex[p] = index + 1, !.matchIndex[p] = index]
  <2>1. /\ rf' = [rf EXCEPT ![p] = r]
        /\ persister' = [persister EXCEPT ![p] = Saved(r)]
        /\ UNCHANGED <<votes, routine, blocked, call, applied, cast, outOfRange, restarts>>
    BY Zenon, <1>9 DEF Start
  <2>2. old \in RaftStruct /\ old.currentTerm \in Nat /\ logs \in NLog /\ Indexed(logs)
    BY Zenon, <1>a
  <2>. HIDE DEF old
  <2>3. index \in Nat
    BY Zenon, <2>2, LastEntryType
  <2>4. e \in LogEntry /\ e.Index = index
    BY Zenon, <2>2, <2>3 DEF LogEntry
  <2>5. r = [old EXCEPT !.logs = Append(logs, e), !.nextIndex = next, !.matchIndex = match]
    BY Zenon, <2>2 DEF RaftStruct
  <2>6. next \in [Peer -> Nat] /\ match \in [Peer -> Nat]
    BY <2>2, <2>3 DEF RaftStruct
  <2>. HIDE DEF r, next, match, e, logs
  <2>7. /\ Append(logs, e) \in NLog
        /\ Indexed(Append(logs, e))
    BY <2>2, <2>4 DEF NLog, Indexed
  <2>8. r \in RaftStruct /\ r.logs = Append(logs, e)
    BY Zenon, <2>2, <2>5, <2>6, <2>7 DEF RaftStruct, NLog
  <2>9. /\ rf' \in [Peer -> RaftStruct]
        /\ persister' \in [Peer -> SavedState]
        /\ \A q \in Peer : Indexed(rf'[q].logs) /\ Indexed(persister'[q].logs)
    BY Zenon, <2>1, <2>7, <2>8, <1>ReplaceSaveType
  <2>. QED BY Zenon, <2>1, <2>9 DEF TypeOK, IndexIsPosition
<1>10. ASSUME NEW p \in Peer, ApplyEntry(p)
       PROVE  TypeInv'
  <2>. DEFINE old == rf[p]
              logs == old.logs
              new == {At(logs, i) : i \in old.lastApplied + 1 .. old.commitIndex}
              r == [old EXCEPT !.lastApplied = old.commitIndex,
                               !.applying = ~old.shutDown]
  <2>1. UNCHANGED <<votes, routine, blocked, persister, call, cast, restarts>>
    BY Zenon, <1>10 DEF ApplyEntry
  <2>2. CASE ~(old.commitIndex < Len(logs))
    <3>1. outOfRange' = TRUE /\ UNCHANGED <<applied, rf>>
      BY Zenon, <1>10, <2>2 DEF ApplyEntry
    <3>. QED BY Zenon, <2>1, <3>1 DEF TypeOK, IndexIsPosition
  <2>3. CASE old.commitIndex < Len(logs)
    <3>1. /\ applied' = applied \cup new
          /\ rf' = [rf EXCEPT ![p] = r]
          /\ UNCHANGED outOfRange
      BY Zenon, <1>10, <2>3 DEF ApplyEntry, Delivered, TypeOK
    <3>2. old \in RaftStruct /\ Indexed(old.logs) /\ logs \in NLog
      BY Zenon, <1>a
    <3>. HIDE DEF old
    <3>3. r \in RaftStruct /\ r.logs = old.logs
      BY Zenon, <3>2 DEF RaftStruct
    <3>4. /\ old.lastApplied \in Nat \cup {-1} /\ old.commitIndex \in Nat \cup {-1}
      BY Zenon, <3>2 DEF RaftStruct
    <3>. HIDE DEF r, logs
    <3>5. new \subseteq LogEntry
      <4>1. Len(logs) \in Nat
        BY Zenon, <3>2, LastEntryType
      <4>2. \A i \in old.lastApplied + 1 .. old.commitIndex : i \in 0 .. Len(logs) - 1
        BY <2>3, <3>4, <4>1
      <4>. QED BY Zenon, <3>2, <4>2, <1>AtType
    <3>6. rf' \in [Peer -> RaftStruct] /\ \A q \in Peer : Indexed(rf'[q].logs)
      BY Zenon, <3>1, <3>2, <3>3, <1>ReplaceType
    <3>. QED BY Zenon, <2>1, <3>1, <3>5, <3>6 DEF TypeOK, IndexIsPosition
  <2>. QED BY Zenon, <2>2, <2>3
<1>11. ASSUME NEW c \in Conn, Lose(c)
       PROVE  TypeInv'
  <2>1. /\ call' \in [Conn -> CallState]
        /\ \A d \in Conn : call'[d].kind = "AppendEntry" => call'[d] = call[d]
    BY Zenon, <1>0, <1>11, <1>ReplaceCallType DEF Lose
  <2>2. UNCHANGED <<rf, votes, routine, blocked, persister, applied, cast,
                    outOfRange, restarts>>
    BY Zenon, <1>11 DEF Lose
  <2>3. TypeOK'
    BY Zenon, <2>1, <2>2 DEF TypeOK
  <2>4. IndexIsPosition'
    BY Zenon, <2>1, <2>2 DEF IndexIsPosition
  <2>. QED BY Zenon, <2>3, <2>4
<1>12. ASSUME NEW c \in Conn, BlockOnNotLeader(c)
       PROVE  TypeInv'
  <2>1. HandlerPeer(c) \in Peer
    BY Zenon, <1>b DEF HandlerPeer
  <2>. QED BY Zenon, <1>12, <2>1 DEF BlockOnNotLeader, TypeOK, IndexIsPosition
<1>13. ASSUME NEW p \in Peer, Restart(p)
       PROVE  TypeInv'
  <2>. DEFINE r == Make(p, persister[p])
  <2>1. r \in RaftStruct /\ Indexed(r.logs)
    BY Zenon, MakeType DEF TypeOK, IndexIsPosition
  <2>2. rf' \in [Peer -> RaftStruct] /\ \A q \in Peer : Indexed(rf'[q].logs)
    BY Zenon, <1>13, <2>1, <1>ReplaceType DEF Restart
  <2>3. routine' \in [Peer -> [Routine -> Nat \cup {Asleep, NotRunning}]]
    BY <1>13 DEF Restart, TypeOK
  <2>4. restarts' \in 0 .. MaxRestarts
    BY <1>13, BoundAssumption DEF Restart, TypeOK
  <2>5. ASSUME NEW c \in Conn
        PROVE  /\ call'[c] \in CallState
               /\ call'[c].kind = "AppendEntry" =>
                     /\ call[c].kind = "AppendEntry"
                     /\ call'[c].Entries = call[c].Entries
                     /\ call'[c].PrevLogIndex = call[c].PrevLogIndex
    <3>. DEFINE m == call[c]
    <3>1. call'[c] \in {m, [m EXCEPT !.orphan = TRUE], NoCall}
      BY Zenon, <1>13 DEF Restart
    <3>2. call'[c] = [m EXCEPT !.orphan = TRUE] =>
            call'[c] \in {m, NoCall} \/ m.kind \in {"RequestVote", "AppendEntry"}
      BY Zenon, <1>13 DEF Restart
    <3>3. m \in CallState
      BY Zenon, <1>b
    <3>. HIDE DEF m
    <3>4. CASE call'[c] \in {m, NoCall}
      BY Zenon, <1>0, <3>3, <3>4 DEF m
    <3>5. CASE /\ call'[c] = [m EXCEPT !.orphan = TRUE]
               /\ m.kind \in {"RequestVote", "AppendEntry"}
      <4>1. /\ [m EXCEPT !.orphan = TRUE] \in CallState
            /\ [m EXCEPT !.orphan = TRUE].kind = m.kind
        BY Zenon, <3>3, <3>5, CallFields DEF CallState
      <4>2. m.kind = "AppendEntry" =>
              /\ [m EXCEPT !.orphan = TRUE].Entries = m.Entries
              /\ [m EXCEPT !.orphan = TRUE].PrevLogIndex = m.PrevLogIndex
        BY Zenon, <3>3 DEF CallState
      <4>. QED BY Zenon, <3>5, <4>1, <4>2 DEF m
    <3>. QED BY Zenon, <3>1, <3>2, <3>4, <3>5
  <2>6. call' \in [Conn -> CallState]
    <3>1. call' = [c \in Conn |-> call'[c]]
      BY Zenon, <1>13 DEF Restart
    <3>. QED BY Zenon, <2>5, <3>1
  <2>7. /\ votes' \in [Peer -> SUBSET Peer] /\ blocked' \subseteq Peer
        /\ UNCHANGED <<persister, applied, cast, outOfRange>>
    BY Zenon, <1>13 DEF Restart, TypeOK
  <2>8. TypeOK'
    BY Zenon, <2>2, <2>3, <2>4, <2>6, <2>7 DEF TypeOK
  <2>9. IndexIsPosition'
    BY Zenon, <2>2, <2>5, <2>7 DEF IndexIsPosition
  <2>. QED BY Zenon, <2>8, <2>9
<1>14. ASSUME NEW p \in Peer, NEW waiting \in BOOLEAN, Kill(p, waiting)
       PROVE  TypeInv'
  <2>. DEFINE old == rf[p]
              r == [old EXCEPT !.shutDown = TRUE, !.applying = waiting]
  <2>1. old \in RaftStruct /\ Indexed(old.logs)
    BY Zenon, <1>a
  <2>2. rf' = [rf EXCEPT ![p] = r]
    BY Zenon, <1>14 DEF Kill, TypeOK
  <2>. HIDE DEF old
  <2>3. r \in RaftStruct /\ r.logs = old.logs
    BY Zenon, <2>1 DEF RaftStruct
  <2>. HIDE DEF r
  <2>4. rf' \in [Peer -> RaftStruct] /\ \A q \in Peer : Indexed(rf'[q].logs)
    BY Zenon, <2>1, <2>2, <2>3, <1>ReplaceType
  <2>. QED
    BY Zenon, <1>14, <2>4 DEF Kill, TypeOK, IndexIsPosition
<1>15. ASSUME NEW p \in Peer, NEW i \in Routine, RoutineEnds(p, i)
       PROVE  TypeInv'
  <2>1. routine' \in [Peer -> [Routine -> Nat \cup {Asleep, NotRunning}]]
    BY Zenon, <1>15, <1>SetRoutineType DEF RoutineEnds
  <2>. QED BY Zenon, <1>15, <2>1 DEF RoutineEnds, TypeOK, IndexIsPosition
<1>16. CASE UNCHANGED vars
  BY Zenon, <1>16 DEF vars, TypeOK, IndexIsPosition
<1>. QED
  BY Zenon, <1>1, <1>2, <1>3, <1>4, <1>5, <1>6, <1>7, <1>8, <1>9, <1>10, <1>11, <1>12,
     <1>13, <1>14, <1>15, <1>16 DEF Next

(* The types and the positions hold in every reachable state.              *)
LEMMA TypeAlways == Spec => []TypeInv
BY TypeInit, TypeNext, PTL DEF Spec

(* Every variable keeps its type in every behaviour: terms and indexes are *)
(* never negative and no log loses its dummy entry (AppendEntry, the       *)
(* back-off of AppendLogReplyHandler, readPersist).                        *)
THEOREM TypeCorrect == Spec => []TypeOK
<1>1. TypeInv => TypeOK
  BY Zenon DEF TypeInv
<1>. QED
  BY <1>1, TypeAlways, PTL

(* The Index of an entry is its position, in every behaviour, in memory,   *)
(* saved and on its way (AppendEntry, Start, readPersist).                 *)
THEOREM IndexesArePositions == Spec => []IndexIsPosition
<1>1. TypeInv => IndexIsPosition
  BY Zenon DEF TypeInv
<1>. QED
  BY <1>1, TypeAlways, PTL
=============================================================================
