-------------------------------- MODULE Raft --------------------------------
(***************************************************************************)
(* The Raft peers of raft/raft.go: elections, log replication, commitment, *)
(* delivery on applyCh, persistence and restart, over the lossy network of *)
(* labrpc.                                                                 *)
(*                                                                         *)
(* Every step is one critical section of rf.mu (or one step of the network *)
(* or of the timer), so the interleavings are those of the goroutines.     *)
(* rf[p] is the Raft struct of peer p.  A log is a sequence whose element  *)
(* i+1 is the Go element logs[i]; element 1 is the dummy entry.            *)
(***************************************************************************)
EXTENDS Integers, Sequences, FiniteSets

CONSTANTS
    Peer,        \* the servers
    Command,     \* the commands clients hand to Start
    Encodable,   \* those of a type that labgob can encode in an interface{}
    Nil,         \* -1 as a peer (votedFor, leader), and the dummy's command
    Slot,        \* the calls one peer may have in flight to another
    Routine,     \* the heartbeatRoutine goroutines one peer may run
    MaxCalls,    \* bound: calls in flight between all peers
    MaxTerm,     \* bound: no canvass beyond this term
    MaxCanvass,  \* bound: canvasses, of all peers and terms
    MaxStarts,   \* bound: commands a leader takes in one term
    MaxRestarts, \* bound: crashes and restarts
    MaxKilled    \* bound: peers that are killed and still run

(***************************************************************************)
(* What the schedule and the network may do beyond loss and delay.         *)
(***************************************************************************)
CONSTANTS
    LateTimer,   \* the timer function may have to wait for rf.mu
    BusyRoutine, \* a leader may be deposed while it sends its heartbeats
    Orphans      \* requests may outlive the crash of the peer that sent them

ASSUME PeerAssumption == IsFiniteSet(Peer) /\ Nil \notin Peer

ASSUME CommandAssumption == Encodable \subseteq Command

ASSUME BoundAssumption ==
    {MaxCalls, MaxTerm, MaxCanvass, MaxStarts, MaxRestarts, MaxKilled}
        \subseteq Nat

ASSUME ScheduleAssumption ==
    {LateTimer, BusyRoutine, Orphans} \subseteq BOOLEAN

VARIABLES
    rf,         \* rf[p]: the Raft struct, its election timer included
    votes,      \* votes[p]: who granted p's current canvass (`vote`)
    routine,    \* routine[p][i]: where heartbeat goroutine i of p is
    blocked,    \* the peers whose rf.mu is held by a send on notLeaderCh
    persister,  \* persister[p]: what persist() saved last
    call,       \* call[<<p, q, s>>]: call s from p to q
    applied,    \* the entries delivered on some applyCh (cfg.logs)
    cast,       \* history: <<voter, term, candidate>> for every vote
    outOfRange, \* the program panicked: an index beyond len(logs) was used
    restarts    \* how many restarts there were

vars == <<rf, votes, routine, blocked, persister, call, applied, cast,
          outOfRange, restarts>>

Conn == Peer \X Peer \X Slot

-----------------------------------------------------------------------------
(* Data. *)

Dummy == [Term |-> 0, Index |-> 0, Command |-> Nil]

LogEntry == [Term : Nat, Index : Nat, Command : Command \cup {Nil}]

ServerState == {"Follower", "Candidate", "Leader"}

LastEntry(logs) == logs[Len(logs)]

At(logs, i) == logs[i + 1]

Max(a, b) == IF a > b THEN a ELSE b

Min(a, b) == IF a < b THEN a ELSE b

Others(p) == Peer \ {p}

(* vote*2 > len(peers), the candidate's own vote counted. *)
IsMajority(S) == Cardinality(S) * 2 > Cardinality(Peer)

(* The k-th largest of the values of f: what findKthLargest returns, as a  *)
(* set of one element.                                                     *)
KthLargest(f, k) ==
    {v \in {f[q] : q \in Peer} :
        /\ Cardinality({q \in Peer : f[q] > v}) < k
        /\ Cardinality({q \in Peer : f[q] >= v}) >= k}

NoCall == [kind |-> "none"]

(* Where a heartbeat goroutine is: not running; between two rounds; or, a  *)
(* term, in leaderAppendLog (or just out of it) with the term it read.     *)
NotRunning == -2
Asleep == -1

-----------------------------------------------------------------------------
(* The methods that rewrite the struct under the lock. *)

(* turnToFollower, but for the send on notLeaderCh (Notify below). *)
TurnToFollower(r, term) ==
    [r EXCEPT !.state = "Follower", !.currentTerm = term, !.votedFor = Nil,
              !.leader = Nil, !.timer = TRUE]

BugElectionSuccessReset(r, p) ==
    LET last == LastEntry(r.logs).Index
    IN  [r EXCEPT !.state = "Leader", !.leader = p,
                  !.nextIndex = [q \in Peer |-> last + 2],
                  !.matchIndex = [q \in Peer |-> IF q = p THEN last ELSE 0]]

ElectionSuccessReset(r, p) ==
    LET last == LastEntry(r.logs).Index
    IN  [r EXCEPT !.state = "Leader", !.leader = p,
                  !.nextIndex = [q \in Peer |-> last + 1],
                  !.matchIndex = [q \in Peer |-> IF q = p THEN last ELSE 0]]

(* labgob encodes the entries: every command but the dummy's, an int, has  *)
(* to be of a registered type.  Where one is not, Encode writes nothing,   *)
(* and the error is ignored.                                               *)
Encodes(entries) ==
    \A i \in 1 .. Len(entries) : entries[i].Command \in Encodable \cup {Nil}

BugSavedVote(r) == [state |-> r.state, currentTerm |-> r.currentTerm,
                    votedFor |-> Nil, logs |-> r.logs]

BugSavedLogs(r) == [state |-> r.state, currentTerm |-> r.currentTerm,
                    votedFor |-> r.votedFor, logs |-> <<Dummy>>]

(* persist and readPersist: the fields that survive a crash.  A log that   *)
(* was not written leaves Make's log as it is, a dummy entry.              *)
Saved(r) == [state |-> r.state, currentTerm |-> r.currentTerm,
             votedFor |-> r.votedFor,
             logs |-> IF Encodes(r.logs) THEN r.logs ELSE <<Dummy>>]

(* Make, before the test of the restored state. *)
Restored(saved) ==
    [state |-> saved.state, currentTerm |-> saved.currentTerm,
     votedFor |-> saved.votedFor, logs |-> saved.logs,
     leader |-> Nil, timer |-> saved.state # "Leader", fired |-> FALSE,
     shutDown |-> FALSE, applying |-> TRUE,
     commitIndex |-> -1, lastApplied |-> -1,
     nextIndex |-> [q \in Peer |-> 0], matchIndex |-> [q \in Peer |-> 0]]

BugMake(p, saved) ==
    IF saved.state # "Follower" THEN ElectionSuccessReset(Restored(saved), p)
                                ELSE Restored(saved)

(* Make: a peer that starts from what its persister holds. *)
Make(p, saved) ==
    IF saved.state = "Leader" THEN ElectionSuccessReset(Restored(saved), p)
                              ELSE Restored(saved)

(* What an empty persister amounts to. *)
Blank == [state |-> "Follower", currentTerm |-> 0, votedFor |-> Nil,
          logs |-> <<Dummy>>]

Init ==
    /\ rf = [p \in Peer |-> Make(p, Blank)]
    /\ votes = [p \in Peer |-> {}]
    /\ routine = [p \in Peer |-> [i \in Routine |-> NotRunning]]
    /\ blocked = {}
    /\ persister = [p \in Peer |-> Blank]
    /\ call = [c \in Conn |-> NoCall]
    /\ applied = {}
    /\ cast = {}
    /\ outOfRange = FALSE
    /\ restarts = 0

-----------------------------------------------------------------------------
(* notLeaderCh and rf.mu. *)

(* rf.mu can be taken: the program runs and nobody holds the lock forever. *)
Free(p) == ~outOfRange /\ p \notin blocked

(* The peer that handles call c as it is now. *)
HandlerPeer(c) ==
    IF call[c].kind \in {"RequestVote", "AppendEntry"} THEN c[2] ELSE c[1]

(* The arguments of call m as they are decoded: the zero value, if nothing *)
(* was written.                                                            *)
Received(m) ==
    IF m.kind = "AppendEntry" /\ ~Encodes(m.Entries)
    THEN [m EXCEPT !.Term = 0, !.PrevLogIndex = 0, !.PrevLogTerm = 0,
                   !.Entries = <<>>, !.LeaderCommitIndex = 0]
    ELSE m

(* Whether call c brings its handler a term newer than its own. *)
Newer(c) ==
    LET m == Received(call[c])
        term == rf[HandlerPeer(c)].currentTerm
    IN  CASE m.kind = "RequestVote" -> m.CandidateTerm > term
          [] m.kind = "AppendEntry" -> m.Term > term
          [] m.kind = "RequestVoteReply" ->
                term <= m.Canvass /\ ~m.VoteGranted /\ m.CurrentTerm > term
          [] m.kind = "AppendEntryReply" -> ~m.Success /\ m.Term > term
          [] OTHER -> FALSE

(* The send on the unbuffered notLeaderCh by a leader that steps down: one *)
(* of its heartbeat goroutines receives.  At the select of heartbeatRoutine*)
(* the goroutine returns; at the select inside leaderAppendLog only the    *)
(* round ends, and the goroutine goes on.                                  *)
Notify(p, stepsDown) ==
    IF stepsDown /\ rf[p].state = "Leader"
    THEN \E i \in Routine :
            \/ /\ routine[p][i] # NotRunning
               /\ routine' = [routine EXCEPT ![p][i] = NotRunning]
            \/ /\ BusyRoutine /\ routine[p][i] \in Nat
               /\ routine' = [routine EXCEPT ![p][i] = Asleep]
    ELSE UNCHANGED routine

(* A handler is done with a request: its reply, unless nobody waits. *)
Answer(c, reply) ==
    call' = [call EXCEPT ![c] = IF call[c].orphan THEN NoCall ELSE reply]

InFlight == {c \in Conn : call[c] # NoCall}

(* Peer p issues calls with message m to the peers of `to`, on slot s. *)
Issue(p, to, s, m) ==
    LET new == {<<p, q, s>> : q \in to}
    IN  /\ new \cap InFlight = {}
        /\ Cardinality(InFlight \cup new) <= MaxCalls
        /\ call' = [c \in Conn |-> IF c \in new THEN m ELSE call[c]]

(* The network loses a request, or a reply. *)
Lose(c) ==
    /\ c \in InFlight
    /\ call' = [call EXCEPT ![c] = NoCall]
    /\ UNCHANGED <<rf, votes, routine, blocked, persister, applied, cast,
                   outOfRange, restarts>>

-----------------------------------------------------------------------------
(* Elections. *)

(* The election timer expires while someone else holds rf.mu: from now on  *)
(* candidateRequestVote waits for the lock, and Stop no longer cancels it. *)
(* One that waits is enough: it sets the timer anew when it runs, which    *)
(* may expire at once, so a second one that waits with it can as well have *)
(* expired after it.                                                       *)
TimerFires(p) ==
    /\ LateTimer /\ ~outOfRange
    /\ rf[p].timer /\ ~rf[p].fired
    /\ rf' = [rf EXCEPT ![p].timer = FALSE, ![p].fired = TRUE]
    /\ UNCHANGED <<votes, routine, blocked, persister, call, applied, cast,
                   outOfRange, restarts>>

Expired(p) == IF LateTimer THEN rf[p].fired ELSE rf[p].timer

(* How many canvasses there were. *)
Canvasses == Cardinality({v \in cast : v[1] = v[3]})

(* candidateRequestVote: a new canvass.  It checks nothing and saves       *)
(* nothing.  The requests to the peers outside `to` are lost.              *)
Canvass(p, to, s) ==
    LET term == rf[p].currentTerm + 1
        last == LastEntry(rf[p].logs)
    IN  /\ Free(p) /\ Expired(p)
        /\ rf[p].currentTerm < MaxTerm
        /\ Canvasses < MaxCanvass
        /\ rf' = [rf EXCEPT ![p] = [@ EXCEPT !.timer = TRUE, !.fired = FALSE,
                                        !.state = "Candidate",
                                        !.currentTerm = term, !.votedFor = p]]
        /\ votes' = [votes EXCEPT ![p] = {p}]
        /\ cast' = cast \cup {<<p, term, p>>}
        /\ Issue(p, to, s, [kind |-> "RequestVote", orphan |-> FALSE,
                            CandidateTerm |-> term,
                            LastLogIndex |-> last.Index,
                            LastLogTerm |-> last.Term])
        /\ UNCHANGED <<routine, blocked, persister, applied, outOfRange,
                       restarts>>

BugUpToDate(m, logs) == TRUE

(* The log safety test of RequestVote. *)
UpToDate(m, logs) ==
    LET last == LastEntry(logs)
    IN  \/ m.LastLogTerm > last.Term
        \/ m.LastLogTerm = last.Term /\ m.LastLogIndex >= last.Index

(* RequestVote learns of a newer term: the timer is reset only if the peer *)
(* was the leader.                                                         *)
NewTermFromCandidate(r, term) ==
    [r EXCEPT !.state = "Follower", !.currentTerm = term, !.votedFor = Nil,
              !.leader = Nil, !.timer = @ \/ r.state = "Leader"]

BugMayVoteFor(r, candidate) == TRUE

MayVoteFor(r, candidate) == r.votedFor \in {Nil, candidate}

(* The RequestVote RPC handler. *)
RequestVote(c) ==
    LET p == c[2]
        candidate == c[1]
        m == call[c]
        newer == Newer(c)
        r == IF newer THEN NewTermFromCandidate(rf[p], m.CandidateTerm)
                      ELSE rf[p]
        late == r.currentTerm > m.CandidateTerm
        open == ~late /\ MayVoteFor(r, candidate)
        grant == open /\ UpToDate(m, r.logs)
        r2 == IF grant
              THEN [r EXCEPT !.state = "Follower", !.votedFor = candidate,
                             !.leader = candidate, !.timer = TRUE]
              ELSE r
    IN  /\ m.kind = "RequestVote" /\ Free(p)
        /\ Notify(p, newer)
        /\ rf' = [rf EXCEPT ![p] = r2]
        /\ persister' = [persister EXCEPT ![p] = Saved(r2)]
        /\ cast' = IF grant THEN cast \cup {<<p, m.CandidateTerm, candidate>>}
                            ELSE cast
        /\ Answer(c, [kind |-> "RequestVoteReply", Canvass |-> m.CandidateTerm,
                      VoteGranted |-> grant,
                      CurrentTerm |-> CASE late -> r.currentTerm
                                        [] open /\ ~grant -> -1
                                        [] OTHER -> 0])
        /\ UNCHANGED <<votes, blocked, applied, outOfRange, restarts>>

(* The reply belongs to an earlier canvass. *)
Delayed(r, m) == r.currentTerm > m.Canvass

(* The replyHandler closure of candidateRequestVote.  A call that failed   *)
(* runs it with a zero reply, which changes nothing.                       *)
RequestVoteReply(c) ==
    LET p == c[1]
        m == call[c]
        delayed == Delayed(rf[p], m)
        newer == Newer(c)
        counts == ~delayed /\ rf[p].state = "Candidate" /\ m.VoteGranted
        granted == votes[p] \cup {c[2]}
        wins == counts /\ IsMajority(granted)
    IN  /\ m.kind = "RequestVoteReply" /\ Free(p)
        /\ votes' = IF counts THEN [votes EXCEPT ![p] = granted] ELSE votes
        /\ rf' = [rf EXCEPT ![p] =
                    CASE newer -> TurnToFollower(@, m.CurrentTerm)
                      [] wins -> [ElectionSuccessReset(@, p)
                                    EXCEPT !.timer = FALSE]
                      [] OTHER -> @]
        /\ IF wins
           THEN \E i \in Routine :
                    /\ routine[p][i] = NotRunning
                    /\ routine' = [routine EXCEPT ![p][i] = Asleep]
           ELSE Notify(p, newer)
        /\ call' = [call EXCEPT ![c] = NoCall]
        /\ UNCHANGED <<blocked, persister, applied, cast, outOfRange, restarts>>

-----------------------------------------------------------------------------
(* Log replication. *)

(* A heartbeat goroutine wakes up (or starts), finds nothing at its select *)
(* and reads currentTerm in leaderAppendLog.                               *)
BeginRound(p, i) ==
    /\ Free(p) /\ ~rf[p].shutDown
    /\ routine[p][i] \notin {NotRunning, rf[p].currentTerm}
    /\ routine' = [routine EXCEPT ![p][i] = rf[p].currentTerm]
    /\ UNCHANGED <<rf, votes, blocked, persister, call, applied, cast,
                   outOfRange, restarts>>

(* nextIndex is one that sendEntry can build its arguments from. *)
CanSend(r, q) == r.nextIndex[q] \in 1 .. Len(r.logs)

BugAppendEntryArg(r, q, term) ==
    LET prev == r.nextIndex[q] - 1
    IN  [kind |-> "AppendEntry", orphan |-> FALSE, Term |-> term,
         PrevLogIndex |-> prev, PrevLogTerm |-> At(r.logs, prev).Term,
         Entries |-> SubSeq(r.logs, prev + 1, Len(r.logs)),
         LeaderCommitIndex |-> r.commitIndex]

(* sendEntry: the arguments are those of this moment, but for the term,    *)
(* which is the one the round began with.                                  *)
AppendEntryArg(r, q, term) ==
    LET prev == r.nextIndex[q] - 1
    IN  [kind |-> "AppendEntry", orphan |-> FALSE, Term |-> term,
         PrevLogIndex |-> prev, PrevLogTerm |-> At(r.logs, prev).Term,
         Entries |-> SubSeq(r.logs, prev + 2, Len(r.logs)),
         LeaderCommitIndex |-> r.commitIndex]

(* A turn of leaderAppendLog's loop, for peer q; the order of the turns    *)
(* and of the rounds is left open.  Kill may come after the select of the  *)
(* turn, and the goroutine sends once more before it finds out.            *)
SendEntry(p, i, q, s) ==
    /\ Free(p)
    /\ routine[p][i] \in Nat /\ q # p
    /\ IF CanSend(rf[p], q)
       THEN /\ Issue(p, {q}, s, AppendEntryArg(rf[p], q, routine[p][i]))
            /\ UNCHANGED outOfRange
       ELSE outOfRange' = TRUE /\ UNCHANGED call
    /\ routine' = IF rf[p].shutDown
                  THEN [routine EXCEPT ![p][i] = NotRunning] ELSE routine
    /\ UNCHANGED <<rf, votes, blocked, persister, applied, cast, restarts>>

BugMatches(m, logs) == m.PrevLogIndex <= LastEntry(logs).Index

(* The consistency check of AppendEntry. *)
Matches(m, logs) ==
    /\ m.PrevLogIndex <= LastEntry(logs).Index
    /\ m.PrevLogTerm = At(logs, m.PrevLogIndex).Term

BugMerge(m, logs) == SubSeq(logs, 1, m.PrevLogIndex) \o m.Entries

(* Everything after PrevLogIndex is replaced by the entries of the call. *)
Merge(m, logs) == SubSeq(logs, 1, m.PrevLogIndex + 1) \o m.Entries

(* The commitIndex of a follower that accepted m. *)
NewCommitIndex(r, m) == Max(r.commitIndex, m.LeaderCommitIndex)

(* Index of the first entry of the term that collides, or 1. *)
FirstIndex(m, logs) ==
    LET first == {i \in 1 .. Len(logs) :
                    /\ logs[i].Term = m.PrevLogTerm
                    /\ \A j \in 1 .. i - 1 : logs[j].Term # m.PrevLogTerm}
    IN  IF first = {} THEN 1 ELSE logs[CHOOSE i \in first : TRUE].Index

(* The reply to the call `sent`, with the index its sender takes it for. *)
AppendEntryReply(sent, ok, term, first) ==
    [kind |-> "AppendEntryReply",
     CurIndex |-> sent.PrevLogIndex + Len(sent.Entries),
     Success |-> ok, Term |-> term, FirstIndex |-> first]

(* The AppendEntry RPC handler. *)
AppendEntry(c) ==
    LET p == c[2]
        sent == call[c]
        m == Received(sent)
        newer == Newer(c)
        r == IF newer THEN TurnToFollower(rf[p], m.Term) ELSE rf[p]
        late == m.Term < r.currentTerm
        heard == [r EXCEPT !.timer = TRUE,
                           !.state = IF @ = "Candidate" THEN "Follower" ELSE @]
        ok == ~late /\ Matches(m, r.logs)
        r2 == CASE late -> r
                [] ok -> [heard EXCEPT
                            !.logs = Merge(m, @),
                            !.commitIndex = NewCommitIndex(r, m)]
                [] OTHER -> heard
    IN  /\ sent.kind = "AppendEntry" /\ Free(p)
        /\ Notify(p, newer)
        /\ rf' = [rf EXCEPT ![p] = r2]
        /\ persister' = [persister EXCEPT ![p] = Saved(r2)]
        /\ Answer(c, CASE late -> AppendEntryReply(sent, FALSE, r.currentTerm, 0)
                       [] ok -> AppendEntryReply(sent, TRUE, 0, 0)
                       [] OTHER -> AppendEntryReply(sent, FALSE, -1,
                                                    FirstIndex(m, r.logs)))
        /\ UNCHANGED <<votes, blocked, applied, cast, outOfRange, restarts>>

BugMajorityIndex(r) == KthLargest(r.matchIndex, Cardinality(Peer) \div 2)

(* leaderTryUpdateCommitIndex: the index a majority has reached. *)
MajorityIndex(r) == KthLargest(r.matchIndex, (Cardinality(Peer) \div 2) + 1)

(* The entry whose term it looks at is in the log. *)
CanTryCommit(r) ==
    \A v \in MajorityIndex(r) : r.commitIndex < v => v < Len(r.logs)

BugTryUpdateCommitIndex(r) ==
    LET new == {v \in MajorityIndex(r) : r.commitIndex < v}
    IN  IF new = {} THEN r
        ELSE [r EXCEPT !.commitIndex = CHOOSE v \in new : TRUE]

(* An entry of an earlier term is not committed by counting (Figure 8). *)
TryUpdateCommitIndex(r) ==
    LET new == {v \in MajorityIndex(r) : /\ r.commitIndex < v
                                         /\ At(r.logs, v).Term = r.currentTerm}
    IN  IF new = {} THEN r
        ELSE [r EXCEPT !.commitIndex = CHOOSE v \in new : TRUE]

BugBackOff(r, q, first) == [r EXCEPT !.nextIndex[q] = Max(@ - 1, first + 1)]

(* A mismatch moves nextIndex back, but not before what is known to match. *)
BackOff(r, q, first) ==
    [r EXCEPT !.nextIndex[q] = Max(Min(@ - 1, first - 1), r.matchIndex[q] + 1)]

Advance(r, q, cur) ==
    [r EXCEPT !.nextIndex[q] = Max(cur + 1, @),
              !.matchIndex[q] = Max(cur, @)]

(* AppendLogReplyHandler. *)
AppendLogReply(c) ==
    LET p == c[1]
        q == c[2]
        m == call[c]
        newer == Newer(c)
        leads == ~newer /\ rf[p].state = "Leader"
        advanced == Advance(rf[p], q, m.CurIndex)
        panics == leads /\ m.Success /\ ~CanTryCommit(advanced)
    IN  /\ m.kind = "AppendEntryReply" /\ Free(p)
        /\ Notify(p, newer)
        /\ outOfRange' = panics
        /\ rf' = [rf EXCEPT ![p] =
                    CASE newer -> TurnToFollower(@, m.Term)
                      [] leads /\ m.Term = -1 -> BackOff(@, q, m.FirstIndex)
                      [] leads /\ m.Success /\ ~panics ->
                            TryUpdateCommitIndex(advanced)
                      [] OTHER -> @]
        /\ call' = [call EXCEPT ![c] = NoCall]
        /\ UNCHANGED <<votes, blocked, persister, applied, cast, restarts>>

BugStart(p, x) ==
    LET r == rf[p]
        index == Len(r.logs)
        r2 == [r EXCEPT !.logs = Append(@, [Term |-> r.currentTerm,
                                            Index |-> index, Command |-> x]),
                        !.nextIndex[p] = index + 1, !.matchIndex[p] = index]
        taken == {i \in 1 .. index : r.logs[i].Term = r.currentTerm}
    IN  /\ Free(p) /\ r.state = "Leader" /\ Cardinality(taken) < MaxStarts
        /\ rf' = [rf EXCEPT ![p] = r2]
        /\ UNCHANGED <<votes, routine, blocked, persister, call, applied, cast,
                       outOfRange, restarts>>

(* Start: a client hands command x to a peer that leads. *)
Start(p, x) ==
    LET r == rf[p]
        index == Len(r.logs)
        r2 == [r EXCEPT !.logs = Append(@, [Term |-> r.currentTerm,
                                            Index |-> index, Command |-> x]),
                        !.nextIndex[p] = index + 1, !.matchIndex[p] = index]
        taken == {i \in 1 .. index : r.logs[i].Term = r.currentTerm}
    IN  /\ Free(p) /\ r.state = "Leader" /\ Cardinality(taken) < MaxStarts
        /\ rf' = [rf EXCEPT ![p] = r2]
        /\ persister' = [persister EXCEPT ![p] = Saved(r2)]
        /\ UNCHANGED <<votes, routine, blocked, call, applied, cast, outOfRange,
                       restarts>>

BugDelivered(r) == {At(r.logs, i) : i \in r.lastApplied + 2 .. r.commitIndex}

(* What applyEntryRoutine copies under the lock. *)
Delivered(r) == {At(r.logs, i) : i \in r.lastApplied + 1 .. r.commitIndex}

(* One turn of applyEntryRoutine: everything committed and not yet applied *)
(* is copied under the lock and delivered.  Once shut down, the goroutine  *)
(* finds that out after the turn it is in.                                 *)
ApplyEntry(p) ==
    LET r == rf[p]
    IN  /\ Free(p) /\ r.applying /\ r.lastApplied < r.commitIndex
        /\ IF r.commitIndex < Len(r.logs)
           THEN /\ applied' = applied \cup Delivered(r)
                /\ rf' = [rf EXCEPT ![p].lastApplied = r.commitIndex,
                                    ![p].applying = ~r.shutDown]
                /\ UNCHANGED outOfRange
           ELSE outOfRange' = TRUE /\ UNCHANGED <<applied, rf>>
        /\ UNCHANGED <<votes, routine, blocked, persister, call, cast, restarts>>

-----------------------------------------------------------------------------
(* Kill closes shutDownCh.  applyEntryRoutine waits for a commit (the      *)
(* signal finds its condition unchanged), or is delivering and will end.   *)
(* Timer and handlers go on.                                               *)
Kill(p, waiting) ==
    /\ ~outOfRange /\ ~rf[p].shutDown
    /\ Cardinality({q \in Peer : rf[q].shutDown}) < MaxKilled
    /\ rf' = [rf EXCEPT ![p].shutDown = TRUE, ![p].applying = waiting]
    /\ UNCHANGED <<votes, routine, blocked, persister, call, applied, cast,
                   outOfRange, restarts>>

(* A heartbeat goroutine finds shutDownCh closed at its select. *)
RoutineEnds(p, i) ==
    /\ ~outOfRange /\ rf[p].shutDown /\ routine[p][i] # NotRunning
    /\ routine' = [routine EXCEPT ![p][i] = NotRunning]
    /\ UNCHANGED <<rf, votes, blocked, persister, call, applied, cast,
                   outOfRange, restarts>>

(* What a handler that must depose the leader it runs on may run into: all *)
(* heartbeat goroutines are past their select and wait for rf.mu, which    *)
(* the handler holds while it waits for one of them to receive; or all     *)
(* have ended.                                                             *)
BlockOnNotLeader(c) ==
    /\ Free(HandlerPeer(c))
    /\ Newer(c) /\ rf[HandlerPeer(c)].state = "Leader"
    /\ BusyRoutine \/ \A i \in Routine : routine[HandlerPeer(c)][i] = NotRunning
    /\ blocked' = blocked \cup {HandlerPeer(c)}
    /\ UNCHANGED <<rf, votes, routine, persister, call, applied, cast,
                   outOfRange, restarts>>

(* Kill and Make again with the saved state (crash1, start1).  Replies to  *)
(* the peer are of no use any more; its requests may still arrive.         *)
Restart(p) ==
    /\ ~outOfRange /\ restarts < MaxRestarts
    /\ restarts' = restarts + 1
    /\ rf' = [rf EXCEPT ![p] = Make(p, persister[p])]
    /\ votes' = [votes EXCEPT ![p] = {}]
    /\ IF persister[p].state = "Leader"
       THEN \E i \in Routine :
                routine' = [routine EXCEPT
                    ![p] = [j \in Routine |-> IF j = i THEN Asleep
                                                       ELSE NotRunning]]
       ELSE routine' = [routine EXCEPT ![p] = [j \in Routine |-> NotRunning]]
    /\ blocked' = blocked \ {p}
    /\ call' = [c \in Conn |->
                  IF c[1] # p THEN call[c]
                  ELSE IF Orphans /\ call[c].kind \in {"RequestVote", "AppendEntry"}
                       THEN [call[c] EXCEPT !.orphan = TRUE] ELSE NoCall]
    /\ UNCHANGED <<persister, applied, cast, outOfRange>>

Next ==
    \/ \E p \in Peer : TimerFires(p)
    \/ \E p \in Peer, s \in Slot : \E to \in SUBSET Others(p) : Canvass(p, to, s)
    \/ \E c \in Conn : RequestVote(c)
    \/ \E c \in Conn : RequestVoteReply(c)
    \/ \E p \in Peer, i \in Routine : BeginRound(p, i)
    \/ \E p \in Peer, i \in Routine, q \in Peer, s \in Slot :
          SendEntry(p, i, q, s)
    \/ \E c \in Conn : AppendEntry(c)
    \/ \E c \in Conn : AppendLogReply(c)
    \/ \E p \in Peer, x \in Command : Start(p, x)
    \/ \E p \in Peer : ApplyEntry(p)
    \/ \E p \in Peer, waiting \in BOOLEAN : Kill(p, waiting)
    \/ \E p \in Peer, i \in Routine : RoutineEnds(p, i)
    \/ \E c \in Conn : Lose(c)
    \/ \E c \in Conn : BlockOnNotLeader(c)
    \/ \E p \in Peer : Restart(p)

Spec == Init /\ [][Next]_vars

(* The step handles call c. *)
Handled(c) ==
    RequestVote(c) \/ RequestVoteReply(c) \/ AppendEntry(c) \/ AppendLogReply(c)

(* The heartbeat goroutines and the handlers of what arrives keep running, *)
(* and from some time on nothing is lost (a step that loses a reply is     *)
(* also one that handles it without effect).                               *)
ReplicationFairness ==
    /\ \A p \in Peer, i \in Routine : WF_vars(BeginRound(p, i))
    /\ \A p \in Peer : \A q \in Others(p) :
          WF_vars(\E i \in Routine, s \in Slot : SendEntry(p, i, q, s))
    /\ \A c \in Conn : WF_vars(AppendEntry(c)) /\ WF_vars(AppendLogReply(c))
    /\ <>[][\A c \in Conn : Lose(c) => Handled(c)]_vars

(* So does applyEntryRoutine. *)
Fairness == ReplicationFairness /\ \A p \in Peer : WF_vars(ApplyEntry(p))

-----------------------------------------------------------------------------
(* Types. *)

RaftStruct ==
    [state : ServerState, currentTerm : Nat, votedFor : Peer \cup {Nil},
     logs : Seq(LogEntry) \ {<<>>}, leader : Peer \cup {Nil},
     timer : BOOLEAN, fired : BOOLEAN, shutDown : BOOLEAN, applying : BOOLEAN,
     commitIndex : Nat \cup {-1}, lastApplied : Nat \cup {-1},
     nextIndex : [Peer -> Nat], matchIndex : [Peer -> Nat]]

SavedState ==
    [state : ServerState, currentTerm : Nat, votedFor : Peer \cup {Nil},
     logs : Seq(LogEntry) \ {<<>>}]

CallState ==
    [kind : {"none"}]
    \cup
    [kind : {"RequestVote"}, orphan : BOOLEAN, CandidateTerm : Nat,
     LastLogIndex : Nat, LastLogTerm : Nat]
    \cup
    [kind : {"RequestVoteReply"}, Canvass : Nat, VoteGranted : BOOLEAN,
     CurrentTerm : Nat \cup {-1}]
    \cup
    [kind : {"AppendEntry"}, orphan : BOOLEAN, Term : Nat, PrevLogIndex : Nat,
     PrevLogTerm : Nat, Entries : Seq(LogEntry),
     LeaderCommitIndex : Nat \cup {-1}]
    \cup
    [kind : {"AppendEntryReply"}, CurIndex : Nat,
     Success : BOOLEAN, Term : Nat \cup {-1}, FirstIndex : Nat]

(* Every variable has its type.  What is not plain: terms and indexes stay *)
(* natural numbers (nextIndex never backs off below 0), logs keep their    *)
(* dummy entry.                                                            *)
TypeOK ==
    /\ rf \in [Peer -> RaftStruct]
    /\ votes \in [Peer -> SUBSET Peer]
    /\ routine \in [Peer -> [Routine -> Nat \cup {Asleep, NotRunning}]]
    /\ blocked \subseteq Peer
    /\ persister \in [Peer -> SavedState]
    /\ call \in [Conn -> CallState]
    /\ applied \subseteq LogEntry
    /\ cast \subseteq Peer \X Nat \X Peer
    /\ outOfRange \in BOOLEAN
    /\ restarts \in 0 .. MaxRestarts

-----------------------------------------------------------------------------
(* Properties. *)

Indexed(logs) == \A i \in 1 .. Len(logs) : logs[i].Index = i - 1

(* The Index of an entry is its position, in every log, in every saved log *)
(* and in every AppendEntry call on its way: the test of PrevLogIndex      *)
(* against the last Index guards the access and the cut of the log that    *)
(* follow it in AppendEntry.                                               *)
IndexIsPosition ==
    /\ \A p \in Peer : Indexed(rf[p].logs) /\ Indexed(persister[p].logs)
    /\ \A c \in Conn :
          call[c].kind = "AppendEntry" =>
            \A i \in 1 .. Len(call[c].Entries) :
                call[c].Entries[i].Index = call[c].PrevLogIndex + i

IsLeader(p) == rf[p].state = "Leader"

(* No two peers lead in the same term, whatever is lost, delayed or        *)
(* restarted, although a canvass is not saved (candidateRequestVote,       *)
(* RequestVote, the vote counter of replyHandler).                         *)
ElectionSafety ==
    \A p, q \in Peer :
        /\ IsLeader(p) /\ IsLeader(q)
        /\ rf[p].currentTerm = rf[q].currentTerm
        => p = q

(* The state s of peer p keeps every vote that p granted to another peer:  *)
(* s is past the term of the vote, or its votedFor is that candidate.      *)
KeepsVotes(p, s) ==
    \A v \in cast :
        v[1] = p /\ v[3] # p =>
            \/ s.currentTerm > v[2]
            \/ s.currentTerm = v[2] /\ s.votedFor = v[3]

(* A vote for another peer survives any crash of the voter (RequestVote    *)
(* and its deferred persist).                                              *)
GrantedVoteSaved == \A p \in Peer : KeepsVotes(p, persister[p])

(* Those who, by the votes V, voted for p in the term. *)
Voters(V, term, p) == {q \in Peer : <<q, term, p>> \in V}

(* A leader has the votes of a majority in its term, also one that leads   *)
(* again after a restart because Leader was its saved state (Make).        *)
LeaderHasMajority ==
    \A p \in Peer : IsLeader(p) => IsMajority(Voters(cast, rf[p].currentTerm, p))

(* The votes that a candidate counts, or will count, were cast for its     *)
(* canvass.                                                                *)
VotesBacked ==
    /\ \A p \in Peer : rf[p].state = "Candidate" =>
          votes[p] \subseteq Voters(cast, rf[p].currentTerm, p)
    /\ \A c \in Conn :
          /\ call[c].kind = "RequestVote" /\ ~call[c].orphan =>
                call[c].CandidateTerm <= rf[c[1]].currentTerm
          /\ call[c].kind = "RequestVoteReply" =>
                /\ call[c].Canvass <= rf[c[1]].currentTerm
                /\ call[c].VoteGranted =>
                      c[2] \in Voters(cast, call[c].Canvass, c[1])

(* A peer grants its vote to one other peer per term. *)
GrantsOnce ==
    \A v, w \in cast :
        /\ v[1] = w[1] /\ v[2] = w[2]
        /\ v[1] # v[3] /\ w[1] # w[3]
        => v[3] = w[3]

(* Candidates and leaders, as they are and as they are saved, voted for    *)
(* themselves.                                                             *)
VotedForSelf ==
    \A p \in Peer :
        /\ rf[p].state # "Follower" => rf[p].votedFor = p
        /\ persister[p].state # "Follower" => persister[p].votedFor = p

(* What makes ElectionSafety inductive: votes for others are kept, in      *)
(* memory and on disk, votes for oneself only by those who stand.          *)
ElectionInv ==
    /\ VotesBacked
    /\ LeaderHasMajority
    /\ \A p \in Peer : persister[p].state = "Leader" =>
          IsMajority(Voters(cast, persister[p].currentTerm, p))
    /\ GrantedVoteSaved
    /\ \A p \in Peer : KeepsVotes(p, rf[p])
    /\ GrantsOnce
    /\ VotedForSelf

(* No handler holds rf.mu for ever: every RPC handler returns. *)
HandlersReturn == blocked = {}

(* If two logs agree on the term at an index they agree on everything up   *)
(* to it (the consistency check and the truncation of AppendEntry).        *)
LogMatching ==
    \A p, q \in Peer :
        \A i \in 1 .. Min(Len(rf[p].logs), Len(rf[q].logs)) :
            rf[p].logs[i].Term = rf[q].logs[i].Term =>
                SubSeq(rf[p].logs, 1, i) = SubSeq(rf[q].logs, 1, i)

(* No two peers deliver different entries at the same index on their       *)
(* applyCh: what the tester calls "committed values do not match".         *)
StateMachineSafety ==
    \A e, f \in applied : e.Index = f.Index => e = f

Holds(logs, e) == e.Index < Len(logs) /\ At(logs, e.Index) = e

(* The same for the commands alone, which is what the tester compares.     *)
AppliedValuesMatch ==
    \A e, f \in applied : e.Index = f.Index => e.Command = f.Command

(* The leader of the newest term has every entry that any peer ever        *)
(* delivered (the log safety test of RequestVote).                         *)
LeaderCompleteness ==
    \A p \in Peer :
        /\ IsLeader(p)
        /\ \A q \in Peer : rf[q].currentTerm <= rf[p].currentTerm
        => \A e \in applied : Holds(rf[p].logs, e)

(* An entry that was delivered is saved by a majority, and stays so: no    *)
(* truncation ever takes a majority copy away (AppendEntry, persist).      *)
Durability ==
    \A e \in applied : IsMajority({q \in Peer : Holds(persister[q].logs, e)})

(* What is on disk is always the log in memory, or the dummy entry alone   *)
(* when labgob cannot encode a command of it: no handler that changes the  *)
(* log, cuts included, returns without persist, so a crash at any point    *)
(* forgets no entry and brings none back (Start, AppendEntry, Make).       *)
LogSaved == \A p \in Peer : persister[p].logs = Saved(rf[p]).logs

(* The indexes at which somebody was given an entry. *)
Given == {e.Index : e \in applied}

(* Nobody is given an entry before all those at lower indexes were given   *)
(* to somebody: what was delivered has no gap, and lastApplied is never    *)
(* ahead of it, while other handlers cut and extend the logs, commitIndex  *)
(* jumps and restarted peers begin again (applyEntryRoutine).              *)
NothingSkipped ==
    /\ \A n \in Given : 0 .. n \subseteq Given
    /\ \A p \in Peer : 0 .. rf[p].lastApplied \subseteq Given

(* No handler uses an index outside its log: not AppendLogReplyHandler     *)
(* (matchIndex), not sendEntry (nextIndex), not applyEntryRoutine          *)
(* (commitIndex).                                                          *)
IndexInBounds == ~outOfRange

(* p leads in the newest term and has an entry of its own term. *)
Established(p) ==
    /\ IsLeader(p) /\ LastEntry(rf[p].logs).Term = rf[p].currentTerm
    /\ \A q \in Others(p) : rf[q].currentTerm <= rf[p].currentTerm

(* A leader that stays brings every peer's log, whatever it holds, to its  *)
(* own, and everybody delivers it: the back-off of nextIndex always finds  *)
(* the point where the logs agree (AppendLogReplyHandler, AppendEntry).    *)
CatchesUp ==
    \A p \in Peer :
        <>[]Established(p) =>
            <>[](\A q \in Peer : /\ rf[q].logs = rf[p].logs
                                 /\ rf[q].lastApplied = Len(rf[p].logs) - 1)

=============================================================================
