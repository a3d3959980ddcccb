----------------------------- MODULE RaftProofs -----------------------------
(***************************************************************************)
(* No two peers lead in the same term, for every set of peers, every bound *)
(* and every schedule.  Every step keeps ElectionInv, relative to the types*)
(* and to what is used of majorities; then two majorities of voters meet,  *)
(* and their common member voted once, or stood itself.                    *)
(***************************************************************************)
EXTENDS RaftTypeProofs

(* What is used of majorities here; it is proved of every finite set of    *)
(* peers at the end (lemma MajoritiesOfPeers).                             *)
Majorities ==
    /\ \A S, T \in SUBSET Peer : S \subseteq T /\ IsMajority(S) => IsMajority(T)
    /\ \A S, T \in SUBSET Peer : IsMajority(S) /\ IsMajority(T) => S \cap T # {}

-----------------------------------------------------------------------------
(* Steps that cast no vote. *)

(* How a peer may change in a step that casts no vote and is no restart:   *)
(* it forgets its vote only with its term, it stands only if it stood, it  *)
(* leads only if it led or has a majority, and it saves what it is.        *)
Follows(p) ==
    /\ rf'[p].currentTerm >= rf[p].currentTerm
    /\ rf'[p].currentTerm = rf[p].currentTerm => rf'[p].votedFor = rf[p].votedFor
    /\ rf'[p].state # "Follower" =>
          /\ rf'[p].currentTerm = rf[p].currentTerm
          /\ \/ rf'[p].state = rf[p].state
             \/ /\ rf[p].state = "Candidate" /\ rf'[p].state = "Leader"
                /\ IsMajority(Voters(cast, rf[p].currentTerm, p))
    /\ rf'[p].state = "Candidate" => votes'[p] \subseteq Voters(cast, rf[p].currentTerm, p)
    /\ persister'[p] \in {persister[p], Saved(rf'[p])}

(* How a call may change in such a step, as far as votes go.               *)
Refuses(c) ==
    call'[c].kind \in {"RequestVote", "RequestVoteReply"} =>
        \/ call'[c] = call[c]
        \/ /\ call[c].kind = "RequestVote" /\ ~call[c].orphan
           /\ call'[c].kind = "RequestVoteReply"
           /\ call'[c].Canvass = call[c].CandidateTerm
           /\ ~call'[c].VoteGranted

(* At the start nobody has voted, stands or leads.                         *)
LEMMA ElectionInit == Init => ElectionInv
<1>. SUFFICES ASSUME Init
              PROVE  ElectionInv
  BY Zenon
<1>1. \A p \in Peer : /\ rf[p].state = "Follower" /\ persister[p].state = "Follower"
  BY Zenon DEF Init, Make, Restored, Blank
<1>2. \A c \in Conn : call[c].kind = "none"
  BY Zenon DEF Init, NoCall
<1>3. cast = {}
  BY Zenon DEF Init
<1>. QED
  BY Zenon, <1>1, <1>2, <1>3 DEF ElectionInv, VotesBacked, LeaderHasMajority, IsLeader,
     GrantedVoteSaved, KeepsVotes, GrantsOnce, VotedForSelf

-----------------------------------------------------------------------------
(* Every step keeps ElectionInv. *)

(* Every action keeps the election invariant: one step per action, after   *)
(* those for steps that cast no vote.                                      *)
LEMMA ElectionNext ==
    Majorities /\ TypeInv /\ TypeInv' /\ ElectionInv /\ [Next]_vars => ElectionInv'

(* A peer that learns of a newer term and steps down.                      *)
<1>FollowsNewer.
    ASSUME TypeOK, TypeOK', NEW p \in Peer, rf'[p].state = "Follower",
           rf'[p].currentTerm > rf[p].currentTerm,
           persister'[p] \in {persister[p], Saved(rf'[p])}
    PROVE  Follows(p)
  <2>. USE <1>FollowsNewer
  <2>1. rf[p].currentTerm \in Nat /\ rf'[p].currentTerm \in Nat
    BY Zenon DEF TypeOK, RaftStruct
  <2>. QED
    BY <2>1 DEF Follows

(* A peer that keeps its term and its vote.                                *)
<1>FollowsSame.
    ASSUME TypeOK, NEW p \in Peer,
           rf'[p].state \in {rf[p].state, "Follower"},
           rf'[p].currentTerm = rf[p].currentTerm,
           rf'[p].votedFor = rf[p].votedFor,
           rf[p].state = "Candidate" =>
              votes'[p] \subseteq Voters(cast, rf[p].currentTerm, p),
           persister'[p] \in {persister[p], Saved(rf'[p])}
    PROVE  Follows(p)
  <2>. USE <1>FollowsSame
  <2>1. rf[p].currentTerm \in Nat
    BY Zenon DEF TypeOK, RaftStruct
  <2>. QED
    BY <2>1 DEF Follows

(* A candidate that a majority elects.                                     *)
<1>FollowsElected.
    ASSUME TypeOK, NEW p \in Peer, rf'[p].state = "Leader",
           rf'[p].currentTerm = rf[p].currentTerm,
           rf'[p].votedFor = rf[p].votedFor,
           rf[p].state = "Candidate",
           IsMajority(Voters(cast, rf[p].currentTerm, p)),
           persister'[p] \in {persister[p], Saved(rf'[p])}
    PROVE  Follows(p)
  <2>. USE <1>FollowsElected
  <2>1. rf[p].currentTerm \in Nat
    BY Zenon DEF TypeOK, RaftStruct
  <2>. QED
    BY <2>1 DEF Follows

<1>NoVoteStep.
    ASSUME TypeOK, TypeOK', ElectionInv, cast' = cast,
           \A p \in Peer : Follows(p), \A c \in Conn : Refuses(c)
    PROVE  ElectionInv'
  <2>. USE <1>NoVoteStep
  <2>. USE DEF ElectionInv
  <2>1. /\ \A p \in Peer : /\ rf[p] \in RaftStruct /\ rf'[p] \in RaftStruct
                           /\ rf[p].currentTerm \in Nat /\ rf'[p].currentTerm \in Nat
        /\ \A v \in cast : v[2] \in Nat
        /\ \A c \in Conn : c[1] \in Peer /\ c[2] \in Peer /\ call[c] \in CallState
    BY Zenon DEF TypeOK, RaftStruct, Conn
  <2>2. \A p \in Peer : persister'[p] = persister[p]
                        \/ /\ persister'[p].state = rf'[p].state
                           /\ persister'[p].currentTerm = rf'[p].currentTerm
                           /\ persister'[p].votedFor = rf'[p].votedFor
    BY DEF Follows, Saved
  <2>3. VotesBacked'
    <3>1. ASSUME NEW p \in Peer, rf'[p].state = "Candidate"
          PROVE  votes'[p] \subseteq Voters(cast', rf'[p].currentTerm, p)
      BY Zenon, <3>1 DEF Follows, VotesBacked
    <3>2. ASSUME NEW c \in Conn, call'[c].kind = "RequestVote", ~call'[c].orphan
          PROVE  call'[c].CandidateTerm <= rf'[c[1]].currentTerm
      <4>1. call[c].kind = "RequestVote" /\ call'[c] = call[c] /\ call[c].CandidateTerm \in Nat
        BY Zenon, <3>2, <2>1, CallFields DEF Refuses
      <4>. QED BY <3>2, <4>1, <2>1 DEF Follows, VotesBacked
    <3>3. ASSUME NEW c \in Conn, call'[c].kind = "RequestVoteReply"
          PROVE  /\ call'[c].Canvass <= rf'[c[1]].currentTerm
                 /\ call'[c].VoteGranted => c[2] \in Voters(cast', call'[c].Canvass, c[1])
      <4>1. CASE call'[c] = call[c]
        <5>1. call[c].Canvass \in Nat
          BY Zenon, <3>3, <4>1, <2>1, CallFields
        <5>. QED BY <3>3, <4>1, <5>1, <2>1 DEF Follows, VotesBacked
      <4>2. CASE call'[c] # call[c]
        <5>1. /\ call[c].kind = "RequestVote" /\ ~call[c].orphan
              /\ call'[c].Canvass = call[c].CandidateTerm /\ ~call'[c].VoteGranted
          BY Zenon, <3>3, <4>2 DEF Refuses
        <5>2. call[c].CandidateTerm \in Nat
          BY Zenon, <5>1, <2>1, CallFields
        <5>. QED BY <5>1, <5>2, <2>1 DEF Follows, VotesBacked
      <4>. QED BY Zenon, <4>1, <4>2
    <3>. QED BY Zenon, <3>1, <3>2, <3>3 DEF VotesBacked
  <2>4. LeaderHasMajority'
    BY Zenon, <2>2 DEF LeaderHasMajority, IsLeader, Follows, IsMajority
  <2>5. \A p \in Peer : persister'[p].state = "Leader" =>
           IsMajority(Voters(cast', persister'[p].currentTerm, p))
    BY Zenon, <2>2, <2>4 DEF LeaderHasMajority, IsLeader
  <2>6. \A p \in Peer : KeepsVotes(p, rf[p])'
    <3>1. ASSUME NEW p \in Peer, NEW v \in cast, v[1] = p, v[3] # p
          PROVE  \/ rf'[p].currentTerm > v[2]
                 \/ rf'[p].currentTerm = v[2] /\ rf'[p].votedFor = v[3]
      <4>1. \/ rf[p].currentTerm > v[2]
            \/ rf[p].currentTerm = v[2] /\ rf[p].votedFor = v[3]
        BY Zenon, <3>1 DEF KeepsVotes
      <4>2. /\ rf'[p].currentTerm >= rf[p].currentTerm
            /\ rf'[p].currentTerm = rf[p].currentTerm => rf'[p].votedFor = rf[p].votedFor
        BY Zenon DEF Follows
      <4>3. rf[p].currentTerm \in Nat /\ rf'[p].currentTerm \in Nat /\ v[2] \in Nat
        BY Zenon, <2>1
      <4>. QED BY <4>1, <4>2, <4>3
    <3>. QED BY Zenon, <3>1 DEF KeepsVotes
  <2>7. GrantedVoteSaved'
    BY <2>2, <2>6 DEF GrantedVoteSaved, KeepsVotes
  <2>8. GrantsOnce'
    BY Zenon DEF GrantsOnce
  <2>9. VotedForSelf'
    BY <2>2 DEF VotedForSelf, Follows
  <2>. QED
    BY Zenon, <2>3, <2>4, <2>5, <2>6, <2>7, <2>8, <2>9

(* A step in which one struct at most is replaced, and no vote cast.       *)
<1>NoVoteStepOf.
    ASSUME TypeOK, TypeOK', ElectionInv, cast' = cast,
           NEW p \in Peer, Follows(p), \A c \in Conn : Refuses(c),
           \A q \in Others(p) : /\ rf'[q] = rf[q] /\ votes'[q] = votes[q]
                                /\ persister'[q] = persister[q]
    PROVE  ElectionInv'
  <2>. USE <1>NoVoteStepOf
  <2>1. ASSUME NEW q \in Others(p)
        PROVE  Follows(q)
    <3>1. q \in Peer /\ rf[q].currentTerm \in Nat
      BY Zenon DEF Others, TypeOK, RaftStruct
    <3>. QED
      BY <3>1 DEF Follows, ElectionInv, VotesBacked
  <2>2. \A q \in Peer : Follows(q)
    BY Zenon, <2>1 DEF Others
  <2>. QED
    BY Zenon, <2>2, <1>NoVoteStep

(* A step that changes neither the votes nor who stands or leads.          *)
<1>QuietStep.
    ASSUME TypeOK, TypeOK', ElectionInv,
           UNCHANGED <<votes, persister, cast>>,
           \A p \in Peer : /\ rf'[p].state = rf[p].state
                           /\ rf'[p].currentTerm = rf[p].currentTerm
                           /\ rf'[p].votedFor = rf[p].votedFor,
           \A c \in Conn : call'[c] = call[c]
                           \/ call'[c].kind \notin {"RequestVote", "RequestVoteReply"}
    PROVE  ElectionInv'
  <2>. USE <1>QuietStep
  <2>1. \A p \in Peer : rf[p].currentTerm \in Nat
    BY Zenon DEF TypeOK, RaftStruct
  <2>2. \A p \in Peer : Follows(p)
    BY <2>1 DEF Follows, ElectionInv, VotesBacked
  <2>3. \A c \in Conn : Refuses(c)
    BY Zenon DEF Refuses
  <2>. QED
    BY Zenon, <2>2, <2>3, <1>NoVoteStep

(* candidateRequestVote keeps it: the term is new, and the vote one's own. *)
<1>ElectionCanvass.
    ASSUME Majorities, TypeOK, TypeOK', ElectionInv, NEW p \in Peer, NEW s \in Slot,
           NEW to \in SUBSET Others(p), Canvass(p, to, s)
    PROVE  ElectionInv'
  <2>. USE <1>ElectionCanvass
  <2>. DEFINE term == rf[p].currentTerm + 1
              last == LastEntry(rf[p].logs)
              new == [kind |-> "RequestVote", orphan |-> FALSE, CandidateTerm |-> term,
                      LastLogIndex |-> last.Index, LastLogTerm |-> last.Term]
  <2>1. /\ \A q \in Others(p) : rf'[q] = rf[q]
        /\ rf'[p].state = "Candidate" /\ rf'[p].currentTerm = term /\ rf'[p].votedFor = p
        /\ votes' = [votes EXCEPT ![p] = {p}]
        /\ cast' = cast \cup {<<p, term, p>>}
        /\ persister' = persister
        /\ \A c \in Conn : call'[c] = call[c] \/ (c[1] = p /\ call'[c] = new)
    <3>. DEFINE old == rf[p]
                r == [old EXCEPT !.timer = TRUE, !.fired = FALSE, !.state = "Candidate",
                                 !.currentTerm = term, !.votedFor = p]
    <3>1. /\ rf' = [rf EXCEPT ![p] = r]
          /\ Issue(p, to, s, new)
          /\ votes' = [votes EXCEPT ![p] = {p}]
          /\ cast' = cast \cup {<<p, term, p>>}
          /\ persister' = persister
      BY Zenon DEF Canvass
    <3>2. rf' = [rf EXCEPT ![p] = r] => rf'[p] = r /\ \A q \in Others(p) : rf'[q] = rf[q]
      BY Zenon DEF TypeOK, Others
    <3>3. old \in RaftStruct
      BY Zenon DEF TypeOK
    <3>. HIDE DEF old, term, new
    <3>4. r.state = "Candidate" /\ r.currentTerm = term /\ r.votedFor = p
      BY Zenon, <3>3 DEF RaftStruct
    <3>5. \A c \in Conn : call'[c] = call[c] \/ (c[1] = p /\ call'[c] = new)
      BY <3>1 DEF Issue
    <3>. QED BY Zenon, <3>1, <3>2, <3>4, <3>5
  <2>2. /\ \A q \in Peer : rf[q].currentTerm \in Nat /\ persister[q].currentTerm \in Nat
        /\ \A q \in Peer : votes[q] \subseteq Peer
        /\ \A v \in cast : v[2] \in Nat
        /\ \A c \in Conn : c[1] \in Peer /\ c[2] \in Peer /\ call[c] \in CallState
    BY Zenon DEF TypeOK, RaftStruct, SavedState, Conn
  <2>3. term \in Nat /\ term > rf[p].currentTerm
    BY <2>2
  <2>n. new.kind = "RequestVote" /\ new.CandidateTerm = term
    BY Zenon
  <2>. HIDE DEF new, term
  <2>4. \A t, q : /\ Voters(cast, t, q) \in SUBSET Peer /\ Voters(cast', t, q) \in SUBSET Peer
                  /\ Voters(cast, t, q) \subseteq Voters(cast', t, q)
    BY Zenon, <2>1 DEF Voters
  <2>5. VotesBacked'
    <3>1. ASSUME NEW q \in Peer, rf'[q].state = "Candidate"
          PROVE  votes'[q] \subseteq Voters(cast', rf'[q].currentTerm, q)
      <4>1. CASE q = p
        <5>1. votes'[q] = {p}
          BY Zenon, <2>1, <4>1 DEF TypeOK
        <5>2. p \in Voters(cast', term, p)
          BY Zenon, <2>1 DEF Voters
        <5>. QED BY Zenon, <2>1, <4>1, <5>1, <5>2
      <4>2. CASE q # p
        <5>1. rf'[q] = rf[q] /\ votes'[q] = votes[q]
          BY Zenon, <2>1, <4>2 DEF Others, TypeOK
        <5>2. votes[q] \subseteq Voters(cast, rf[q].currentTerm, q)
          BY Zenon, <3>1, <5>1 DEF ElectionInv, VotesBacked
        <5>. QED BY Zenon, <2>4, <5>1, <5>2
      <4>. QED BY Zenon, <4>1, <4>2
    <3>2. \A q \in Peer : rf'[q].currentTerm >= rf[q].currentTerm
      BY <2>1, <2>2, <2>3 DEF Others
    <3>3. ASSUME NEW c \in Conn, call'[c].kind = "RequestVote", ~call'[c].orphan
          PROVE  call'[c].CandidateTerm <= rf'[c[1]].currentTerm
      <4>1. CASE call'[c] = call[c]
        <5>1. call[c].CandidateTerm \in Nat /\ call[c].CandidateTerm <= rf[c[1]].currentTerm
          BY Zenon, <3>3, <4>1, <2>2, CallFields DEF ElectionInv, VotesBacked
        <5>2. rf'[c[1]].currentTerm \in Nat
          BY Zenon, <2>2 DEF TypeOK, RaftStruct
        <5>. QED BY <4>1, <5>1, <5>2, <3>2, <2>2
      <4>2. CASE c[1] = p /\ call'[c] = new
        BY <4>2, <2>1, <2>3, <2>n
      <4>. QED BY Zenon, <4>1, <4>2, <2>1
    <3>4. ASSUME NEW c \in Conn, call'[c].kind = "RequestVoteReply"
          PROVE  /\ call'[c].Canvass <= rf'[c[1]].currentTerm
                 /\ call'[c].VoteGranted => c[2] \in Voters(cast', call'[c].Canvass, c[1])
      <4>1. call'[c] = call[c]
        BY Zenon, <3>4, <2>1, <2>n
      <4>2. /\ call[c].Canvass \in Nat /\ call[c].Canvass <= rf[c[1]].currentTerm
            /\ call[c].VoteGranted => c[2] \in Voters(cast, call[c].Canvass, c[1])
        BY Zenon, <3>4, <4>1, <2>2, CallFields DEF ElectionInv, VotesBacked
      <4>3. rf'[c[1]].currentTerm \in Nat
        BY Zenon, <2>2 DEF TypeOK, RaftStruct
      <4>4. rf'[c[1]].currentTerm >= rf[c[1]].currentTerm /\ rf[c[1]].currentTerm \in Nat
        BY Zenon, <3>2, <2>2
      <4>5. call[c].Canvass <= rf'[c[1]].currentTerm
        BY <4>2, <4>3, <4>4
      <4>. QED BY Zenon, <4>1, <4>2, <4>5, <2>4
    <3>. QED BY Zenon, <3>1, <3>3, <3>4 DEF VotesBacked
  <2>6. LeaderHasMajority'
    <3>1. ASSUME NEW q \in Peer, rf'[q].state = "Leader"
          PROVE  IsMajority(Voters(cast', rf'[q].currentTerm, q))
      <4>1. rf'[q] = rf[q]
        BY Zenon, <3>1, <2>1 DEF Others
      <4>2. IsMajority(Voters(cast, rf[q].currentTerm, q))
        BY Zenon, <3>1, <4>1 DEF ElectionInv, LeaderHasMajority, IsLeader
      <4>. QED BY Zenon, <4>1, <4>2, <2>4 DEF Majorities
    <3>. QED BY Zenon, <3>1 DEF LeaderHasMajority, IsLeader
  <2>7. \A q \in Peer : persister'[q].state = "Leader" =>
           IsMajority(Voters(cast', persister'[q].currentTerm, q))
    BY Zenon, <2>1, <2>4 DEF ElectionInv, Majorities
  <2>8. GrantedVoteSaved'
    BY <2>1 DEF ElectionInv, GrantedVoteSaved, KeepsVotes
  <2>9. \A q \in Peer : KeepsVotes(q, rf[q])'
    <3>1. ASSUME NEW q \in Peer, NEW v \in cast', v[1] = q, v[3] # q
          PROVE  \/ rf'[q].currentTerm > v[2]
                 \/ rf'[q].currentTerm = v[2] /\ rf'[q].votedFor = v[3]
      <4>1. v \in cast /\ v[2] \in Nat
        BY <3>1, <2>1, <2>2
      <4>2. \/ rf[q].currentTerm > v[2]
            \/ rf[q].currentTerm = v[2] /\ rf[q].votedFor = v[3]
        BY Zenon, <3>1, <4>1 DEF ElectionInv, KeepsVotes
      <4>3. CASE q # p
        BY Zenon, <4>2, <4>3, <2>1 DEF Others
      <4>4. CASE q = p
        <5>1. rf'[q].currentTerm = term /\ rf[q].currentTerm \in Nat
          BY Zenon, <4>4, <2>1, <2>2
        <5>. QED BY <4>1, <4>2, <4>4, <5>1, <2>3
      <4>. QED BY Zenon, <4>3, <4>4
    <3>. QED BY Zenon, <3>1 DEF KeepsVotes
  <2>10. GrantsOnce'
    <3>1. \A v \in cast' : v[1] # v[3] => v \in cast
      BY <2>1
    <3>2. GrantsOnce
      BY Zenon DEF ElectionInv
    <3>. QED BY Zenon, <3>1, <3>2 DEF GrantsOnce
  <2>11. VotedForSelf'
    BY Zenon, <2>1 DEF ElectionInv, VotedForSelf, Others
  <2>. QED
    BY Zenon, <2>5, <2>6, <2>7, <2>8, <2>9, <2>10, <2>11 DEF ElectionInv

(* A vote granted keeps it: nobody else had the peer's vote in that term.  *)
<1>ElectionGrant.
    ASSUME Majorities, TypeOK, TypeOK', ElectionInv,
           NEW d \in Conn, call[d].kind = "RequestVote",
           NEW term, term = call[d].CandidateTerm,
           rf[d[2]].currentTerm <= term,
           rf[d[2]].currentTerm = term => MayVoteFor(rf[d[2]], d[1]),
           rf'[d[2]].state = "Follower", rf'[d[2]].currentTerm = term,
           rf'[d[2]].votedFor = d[1],
           persister'[d[2]] = Saved(rf'[d[2]]),
           \A q \in Others(d[2]) : rf'[q] = rf[q] /\ persister'[q] = persister[q],
           votes' = votes, cast' = cast \cup {<<d[2], term, d[1]>>},
           \A c \in Conn \ {d} : call'[c] = call[c],
           \/ call'[d] = NoCall
           \/ /\ ~call[d].orphan /\ call'[d].kind = "RequestVoteReply"
              /\ call'[d].Canvass = term
    PROVE  ElectionInv'
  <2>. USE <1>ElectionGrant
  <2>. DEFINE p == d[2]
              candidate == d[1]
  <2>1. /\ \A q \in Peer : rf[q].currentTerm \in Nat /\ rf'[q].currentTerm \in Nat
        /\ \A q \in Peer : votes[q] \subseteq Peer
        /\ \A v \in cast : v[2] \in Nat /\ v[3] \in Peer
        /\ \A c \in Conn : c[1] \in Peer /\ c[2] \in Peer /\ call[c] \in CallState
        /\ p \in Peer /\ candidate \in Peer /\ term \in Nat
    BY Zenon, CallFields DEF TypeOK, RaftStruct, Conn
  <2>2. \A t, q : /\ Voters(cast, t, q) \in SUBSET Peer /\ Voters(cast', t, q) \in SUBSET Peer
                  /\ Voters(cast, t, q) \subseteq Voters(cast', t, q)
    BY Zenon DEF Voters
  <2>3. \A q \in Peer : /\ rf'[q].currentTerm >= rf[q].currentTerm
                        /\ rf'[q].state # "Follower" => rf'[q] = rf[q]
    BY <2>1 DEF Others
  <2>4. \A q \in Peer : persister'[q] = persister[q]
                        \/ /\ persister'[q].state = "Follower"
                           /\ persister'[q].currentTerm = rf'[q].currentTerm
                           /\ persister'[q].votedFor = rf'[q].votedFor
    BY DEF Saved, Others
  <2>5. VotesBacked'
    <3>1. ASSUME NEW q \in Peer, rf'[q].state = "Candidate"
          PROVE  votes'[q] \subseteq Voters(cast', rf'[q].currentTerm, q)
      BY Zenon, <3>1, <2>2, <2>3 DEF ElectionInv, VotesBacked
    <3>2. ASSUME NEW c \in Conn, call'[c].kind = "RequestVote", ~call'[c].orphan
          PROVE  call'[c].CandidateTerm <= rf'[c[1]].currentTerm
      <4>1. call'[c] = call[c]
        BY <3>2 DEF NoCall
      <4>2. call[c].CandidateTerm \in Nat /\ call[c].CandidateTerm <= rf[c[1]].currentTerm
        BY Zenon, <3>2, <4>1, <2>1, CallFields DEF ElectionInv, VotesBacked
      <4>. QED BY <4>1, <4>2, <2>1, <2>3
    <3>3. ASSUME NEW c \in Conn, call'[c].kind = "RequestVoteReply"
          PROVE  /\ call'[c].Canvass <= rf'[c[1]].currentTerm
                 /\ call'[c].VoteGranted => c[2] \in Voters(cast', call'[c].Canvass, c[1])
      <4>1. CASE c # d
        <5>1. call'[c] = call[c]
          BY Zenon, <4>1
        <5>2. /\ call[c].Canvass \in Nat /\ call[c].Canvass <= rf[c[1]].currentTerm
              /\ call[c].VoteGranted => c[2] \in Voters(cast, call[c].Canvass, c[1])
          BY Zenon, <3>3, <5>1, <2>1, CallFields DEF ElectionInv, VotesBacked
        <5>a. /\ rf[c[1]].currentTerm \in Nat /\ rf'[c[1]].currentTerm \in Nat
              /\ rf'[c[1]].currentTerm >= rf[c[1]].currentTerm
          BY Zenon, <2>1, <2>3
        <5>3. call[c].Canvass <= rf'[c[1]].currentTerm
          BY <5>2, <5>a
        <5>4. call[c].VoteGranted => c[2] \in Voters(cast', call[c].Canvass, c[1])
          BY Zenon, <5>2, <2>2
        <5>. QED BY Zenon, <5>1, <5>3, <5>4
      <4>2. CASE c = d
        <5>1. ~call[d].orphan /\ call'[d].Canvass = term
          BY <3>3, <4>2 DEF NoCall
        <5>2. term <= rf[candidate].currentTerm
          BY Zenon, <5>1 DEF ElectionInv, VotesBacked
        <5>3. p \in Voters(cast', term, candidate)
          BY Zenon, <2>1 DEF Voters
        <5>4. /\ rf[candidate].currentTerm \in Nat /\ rf'[candidate].currentTerm \in Nat
              /\ rf'[candidate].currentTerm >= rf[candidate].currentTerm
          BY Zenon, <2>1, <2>3
        <5>5. term <= rf'[candidate].currentTerm
          BY <5>2, <5>4, <2>1
        <5>. QED BY Zenon, <4>2, <5>1, <5>3, <5>5
      <4>. QED BY Zenon, <4>1, <4>2
    <3>. QED BY Zenon, <3>1, <3>2, <3>3 DEF VotesBacked
  <2>6. LeaderHasMajority'
    <3>1. ASSUME NEW q \in Peer, rf'[q].state = "Leader"
          PROVE  IsMajority(Voters(cast', rf'[q].currentTerm, q))
      <4>1. rf'[q] = rf[q]
        BY Zenon, <3>1, <2>3
      <4>2. IsMajority(Voters(cast, rf[q].currentTerm, q))
        BY Zenon, <3>1, <4>1 DEF ElectionInv, LeaderHasMajority, IsLeader
      <4>. QED BY Zenon, <4>1, <4>2, <2>2 DEF Majorities
    <3>. QED BY Zenon, <3>1 DEF LeaderHasMajority, IsLeader
  <2>7. \A q \in Peer : persister'[q].state = "Leader" =>
           IsMajority(Voters(cast', persister'[q].currentTerm, q))
    BY Zenon, <2>2, <2>4 DEF ElectionInv, Majorities
  <2>8. \A v \in cast : v[1] = p /\ v[3] # p /\ v[2] >= term =>
                           v[2] = term /\ v[3] = candidate
    <3>1. KeepsVotes(p, rf[p])
      BY Zenon, <2>1 DEF ElectionInv
    <3>. QED BY <2>1, <3>1, PeerAssumption DEF KeepsVotes, MayVoteFor
  <2>9. \A q \in Peer : KeepsVotes(q, rf[q])'
    <3>1. ASSUME NEW q \in Peer, NEW v \in cast', v[1] = q, v[3] # q
          PROVE  \/ rf'[q].currentTerm > v[2]
                 \/ rf'[q].currentTerm = v[2] /\ rf'[q].votedFor = v[3]
      <4>1. CASE q = p
        <5>1. rf'[q].currentTerm = term /\ rf'[q].votedFor = candidate
          BY Zenon, <4>1
        <5>2. CASE v \in cast
          <6>1. v[2] \in Nat /\ (v[2] >= term => v[2] = term /\ v[3] = candidate)
            BY Zenon, <3>1, <4>1, <5>2, <2>1, <2>8
          <6>. QED BY <5>1, <6>1, <2>1
        <5>3. CASE v = <<p, term, candidate>>
          BY Zenon, <5>1, <5>3
        <5>. QED BY Zenon, <3>1, <5>2, <5>3
      <4>2. CASE q # p
        <5>1. v \in cast /\ rf'[q] = rf[q]
          BY <3>1, <4>2 DEF Others
        <5>. QED BY Zenon, <3>1, <5>1 DEF ElectionInv, KeepsVotes
      <4>. QED BY Zenon, <4>1, <4>2
    <3>. QED BY Zenon, <3>1 DEF KeepsVotes
  <2>10. GrantedVoteSaved'
    <3>1. ASSUME NEW q \in Peer, NEW v \in cast', v[1] = q, v[3] # q
          PROVE  \/ persister'[q].currentTerm > v[2]
                 \/ persister'[q].currentTerm = v[2] /\ persister'[q].votedFor = v[3]
      <4>1. CASE q = p
        <5>1. /\ persister'[q].currentTerm = rf'[q].currentTerm
              /\ persister'[q].votedFor = rf'[q].votedFor
          BY <4>1 DEF Saved
        <5>2. \/ rf'[q].currentTerm > v[2]
              \/ rf'[q].currentTerm = v[2] /\ rf'[q].votedFor = v[3]
          BY Zenon, <3>1, <2>9 DEF KeepsVotes
        <5>. QED BY Zenon, <5>1, <5>2
      <4>2. CASE q # p
        <5>1. v \in cast /\ persister'[q] = persister[q]
          BY <3>1, <4>2 DEF Others
        <5>. QED BY Zenon, <3>1, <5>1 DEF ElectionInv, GrantedVoteSaved, KeepsVotes
      <4>. QED BY Zenon, <4>1, <4>2
    <3>. QED BY Zenon, <3>1 DEF GrantedVoteSaved, KeepsVotes
  <2>11. GrantsOnce'
    <3>. DEFINE g == <<p, term, candidate>>
    <3>1. g[1] = p /\ g[2] = term /\ g[3] = candidate /\ cast' = cast \cup {g}
      BY Zenon
    <3>. HIDE DEF g
    <3>2. GrantsOnce
      BY Zenon DEF ElectionInv
    <3>3. \A v \in cast : v[1] = p /\ v[2] = term /\ v[1] # v[3] => v[3] = candidate
      BY <2>1, <2>8
    <3>4. ASSUME NEW v \in cast', NEW w \in cast', v[1] = w[1], v[2] = w[2],
                 v[1] # v[3], w[1] # w[3]
          PROVE  v[3] = w[3]
      <4>1. CASE v \in cast /\ w \in cast
        BY Zenon, <3>2, <3>4, <4>1 DEF GrantsOnce
      <4>2. CASE v = g \/ w = g
        BY <3>1, <3>3, <3>4, <4>2
      <4>. QED BY Zenon, <3>1, <4>1, <4>2
    <3>. QED BY Zenon, <3>4 DEF GrantsOnce
  <2>12. VotedForSelf'
    BY Zenon, <2>3, <2>4 DEF ElectionInv, VotedForSelf
  <2>. QED
    BY Zenon, <2>5, <2>6, <2>7, <2>9, <2>10, <2>11, <2>12 DEF ElectionInv

(* A restart keeps it: the votes for others were saved, and the state      *)
(* Leader was saved only of a leader.                                      *)
<1>ElectionRestart.
    ASSUME TypeOK, TypeOK', ElectionInv, NEW p \in Peer, Restart(p)
    PROVE  ElectionInv'
  <2>. USE <1>ElectionRestart
  <2>. DEFINE s == persister[p]
  <2>1. /\ rf'[p].state = s.state /\ rf'[p].currentTerm = s.currentTerm
        /\ rf'[p].votedFor = s.votedFor
        /\ \A q \in Others(p) : rf'[q] = rf[q] /\ votes'[q] = votes[q]
        /\ votes'[p] = {}
        /\ UNCHANGED <<persister, cast>>
    <3>1. /\ rf' = [rf EXCEPT ![p] = Make(p, s)]
          /\ votes' = [votes EXCEPT ![p] = {}]
          /\ UNCHANGED <<persister, cast>>
      BY Zenon DEF Restart
    <3>. DEFINE r == Restored(s)
    <3>2. r.state = s.state /\ r.currentTerm = s.currentTerm /\ r.votedFor = s.votedFor
      BY Zenon DEF Restored
    <3>3. r \in RaftStruct
      BY Zenon DEF Restored, TypeOK, SavedState, RaftStruct
    <3>. HIDE DEF r
    <3>4. LET e == ElectionSuccessReset(r, p)
          IN  e.state = "Leader" /\ e.currentTerm = r.currentTerm /\ e.votedFor = r.votedFor
      BY Zenon, <3>3 DEF ElectionSuccessReset, RaftStruct
    <3>5. /\ Make(p, s).state = s.state /\ Make(p, s).currentTerm = s.currentTerm
          /\ Make(p, s).votedFor = s.votedFor
      BY Zenon, <3>2, <3>4 DEF Make, r
    <3>. QED BY Zenon, <3>1, <3>5 DEF TypeOK, Others
  <2>2. \A c \in Conn : \/ c[1] # p /\ call'[c] = call[c]
                        \/ call'[c].kind = "none"
                        \/ call'[c].kind \in {"RequestVote", "AppendEntry"} /\ call'[c].orphan
    <3>1. ASSUME NEW c \in Conn, c[1] = p, call'[c] # NoCall
          PROVE  call'[c].kind \in {"RequestVote", "AppendEntry"} /\ call'[c].orphan
      <4>. DEFINE m == call[c]
      <4>1. m \in CallState /\ m.kind \in {"RequestVote", "AppendEntry"}
            /\ call'[c] = [m EXCEPT !.orphan = TRUE]
        BY Zenon, <3>1 DEF Restart, TypeOK
      <4>. HIDE DEF m
      <4>. QED BY Zenon, <4>1 DEF CallState
    <3>2. ASSUME NEW c \in Conn, c[1] # p
          PROVE  call'[c] = call[c]
      BY Zenon, <3>2 DEF Restart
    <3>. QED BY <3>1, <3>2 DEF NoCall
  <2>3. VotesBacked'
    BY Zenon, <2>1, <2>2 DEF ElectionInv, VotesBacked, Others, Conn
  <2>4. LeaderHasMajority'
    BY Zenon, <2>1 DEF ElectionInv, LeaderHasMajority, IsLeader, Others
  <2>5. \A q \in Peer : KeepsVotes(q, rf[q])'
    <3>1. KeepsVotes(p, rf[p])'
      <4>1. KeepsVotes(p, s)
        BY Zenon DEF ElectionInv, GrantedVoteSaved
      <4>. QED BY Zenon, <4>1, <2>1 DEF KeepsVotes
    <3>2. ASSUME NEW q \in Others(p)
          PROVE  KeepsVotes(q, rf[q])'
      <4>1. KeepsVotes(q, rf[q]) /\ rf'[q] = rf[q]
        BY Zenon, <2>1 DEF ElectionInv, Others
      <4>. QED BY Zenon, <4>1, <2>1 DEF KeepsVotes
    <3>. QED BY Zenon, <3>1, <3>2 DEF Others
  <2>6. VotedForSelf'
    BY Zenon, <2>1 DEF ElectionInv, VotedForSelf, Others
  <2>7. GrantedVoteSaved' /\ GrantsOnce'
    BY Zenon, <2>1 DEF ElectionInv, GrantedVoteSaved, KeepsVotes, GrantsOnce
  <2>8. \A q \in Peer : persister'[q].state = "Leader" =>
           IsMajority(Voters(cast', persister'[q].currentTerm, q))
    BY Zenon, <2>1 DEF ElectionInv
  <2>. QED
    BY Zenon, <2>3, <2>4, <2>5, <2>6, <2>7, <2>8 DEF ElectionInv

(* The RequestVote handler.                                                *)
<1>ElectionRequestVote.
    ASSUME Majorities, TypeOK, TypeOK', ElectionInv, NEW c \in Conn, RequestVote(c)
    PROVE  ElectionInv'
  <2>. USE <1>ElectionRequestVote
  <2>. DEFINE p == c[2]
              candidate == c[1]
              m == call[c]
              newer == Newer(c)
              old == rf[p]
              r == IF newer THEN NewTermFromCandidate(old, m.CandidateTerm) ELSE old
              late == r.currentTerm > m.CandidateTerm
              open == ~late /\ MayVoteFor(r, candidate)
              grant == open /\ UpToDate(m, r.logs)
              r2 == IF grant
                    THEN [r EXCEPT !.state = "Follower", !.votedFor = candidate,
                                   !.leader = candidate, !.timer = TRUE]
                    ELSE r
              reply == [kind |-> "RequestVoteReply", Canvass |-> m.CandidateTerm,
                        VoteGranted |-> grant,
                        CurrentTerm |-> CASE late -> r.currentTerm
                                          [] open /\ ~grant -> -1
                                          [] OTHER -> 0]
              answer == IF m.orphan THEN NoCall ELSE reply
  <2>1. /\ m.kind = "RequestVote"
        /\ rf' = [rf EXCEPT ![p] = r2]
        /\ persister' = [persister EXCEPT ![p] = Saved(r2)]
        /\ cast' = IF grant THEN cast \cup {<<p, m.CandidateTerm, candidate>>} ELSE cast
        /\ call' = [call EXCEPT ![c] = answer]
        /\ votes' = votes
    BY Zenon DEF RequestVote, Answer
  <2>2. /\ p \in Peer /\ candidate \in Peer /\ m \in CallState
        /\ m.CandidateTerm \in Nat /\ m.orphan \in BOOLEAN
        /\ old \in RaftStruct /\ old.currentTerm \in Nat
        /\ newer <=> m.CandidateTerm > old.currentTerm
    BY Zenon, <2>1, CallFields, NewerTerm DEF TypeOK, Conn, RaftStruct
  <2>3. /\ rf'[p] = r2 /\ persister'[p] = Saved(r2) /\ call'[c] = answer
        /\ \A q \in Others(p) : rf'[q] = rf[q] /\ persister'[q] = persister[q]
        /\ \A d \in Conn \ {c} : call'[d] = call[d]
    BY Zenon, <2>1, <2>2 DEF TypeOK, Others
  <2>4. answer = NoCall
        \/ /\ ~m.orphan /\ answer.kind = "RequestVoteReply"
           /\ answer.Canvass = m.CandidateTerm /\ answer.VoteGranted = grant
    BY Zenon
  <2>. HIDE DEF old, newer, answer
  <2>5. /\ r \in RaftStruct
        /\ newer => /\ r.state = "Follower" /\ r.currentTerm = m.CandidateTerm
        /\ ~newer => r = old
    BY Zenon, <2>2, NewTermType
  <2>. HIDE DEF r
  <2>6. CASE grant
    <3>1. r2.state = "Follower" /\ r2.votedFor = candidate /\ r2.currentTerm = r.currentTerm
      BY Zenon, <2>6, <2>5 DEF RaftStruct
    <3>2. r.currentTerm = m.CandidateTerm
      BY <2>6, <2>2, <2>5
    <3>3. old.currentTerm <= m.CandidateTerm
      BY <2>6, <2>2, <2>5
    <3>4. old.currentTerm = m.CandidateTerm => MayVoteFor(old, candidate)
      BY Zenon, <2>6, <2>2, <2>5
    <3>5. cast' = cast \cup {<<p, m.CandidateTerm, candidate>>}
      BY Zenon, <2>1, <2>6
    <3>. HIDE DEF r2, grant
    <3>6. call'[c] = NoCall
          \/ /\ ~m.orphan /\ call'[c].kind = "RequestVoteReply"
             /\ call'[c].Canvass = m.CandidateTerm
      BY Zenon, <2>3, <2>4
    <3>. QED
      BY <2>1, <2>3, <3>1, <3>2, <3>3, <3>4, <3>5, <3>6, <1>ElectionGrant DEF old
  <2>7. CASE ~grant
    <3>1. rf'[p] = r /\ cast' = cast
      BY Zenon, <2>1, <2>3, <2>7
    <3>2. Follows(p)
      <4>1. r.currentTerm >= old.currentTerm
        BY <2>2, <2>5
      <4>2. r.currentTerm = old.currentTerm => r = old
        BY <2>2, <2>5
      <4>3. r.state # "Follower" => r = old
        BY Zenon, <2>5
      <4>4. persister'[p] = Saved(rf'[p])
        BY Zenon, <3>1, <2>3, <2>7
      <4>5. old.state = "Candidate" => votes'[p] \subseteq Voters(cast, old.currentTerm, p)
        BY Zenon, <2>1, <2>2 DEF old, ElectionInv, VotesBacked
      <4>. QED BY Zenon, <3>1, <4>1, <4>2, <4>3, <4>4, <4>5 DEF Follows, old
    <3>3. ASSUME NEW d \in Conn
          PROVE  Refuses(d)
      <4>1. CASE d # c
        <5>1. call'[d] = call[d]
          BY Zenon, <4>1, <2>3
        <5>. QED BY Zenon, <5>1 DEF Refuses
      <4>2. CASE d = c
        <5>. HIDE DEF grant
        <5>1. CASE answer = NoCall
          BY <4>2, <5>1, <2>3 DEF Refuses, NoCall
        <5>2. CASE answer # NoCall
          <6>1. /\ ~m.orphan /\ answer.kind = "RequestVoteReply"
                /\ answer.Canvass = m.CandidateTerm /\ ~answer.VoteGranted
            BY Zenon, <5>2, <2>4, <2>7
          <6>. QED BY Zenon, <4>2, <6>1, <2>1, <2>3 DEF Refuses
        <5>. QED BY Zenon, <5>1, <5>2
      <4>. QED BY Zenon, <4>1, <4>2
    <3>. QED
      BY Zenon, <2>1, <2>2, <2>3, <3>1, <3>2, <3>3, <1>NoVoteStepOf
  <2>. QED BY Zenon, <2>6, <2>7

(* The replyHandler of a canvass: votes are counted for the canvass they   *)
(* were cast for.                                                          *)
<1>ElectionRequestVoteReply.
    ASSUME Majorities, TypeOK, TypeOK', ElectionInv, NEW c \in Conn, RequestVoteReply(c)
    PROVE  ElectionInv'
  <2>. USE <1>ElectionRequestVoteReply
  <2>. DEFINE p == c[1]
              m == call[c]
              newer == Newer(c)
              old == rf[p]
              counts == ~Delayed(old, m) /\ old.state = "Candidate" /\ m.VoteGranted
              granted == votes[p] \cup {c[2]}
              wins == counts /\ IsMajority(granted)
              r == CASE newer -> TurnToFollower(old, m.CurrentTerm)
                     [] wins -> [ElectionSuccessReset(old, p) EXCEPT !.timer = FALSE]
                     [] OTHER -> old
  <2>1. /\ m.kind = "RequestVoteReply"
        /\ votes' = IF counts THEN [votes EXCEPT ![p] = granted] ELSE votes
        /\ rf' = [rf EXCEPT ![p] = r]
        /\ call' = [call EXCEPT ![c] = NoCall]
        /\ UNCHANGED <<persister, cast>>
    BY Zenon DEF RequestVoteReply
  <2>2. /\ p \in Peer /\ c[2] \in Peer
        /\ old \in RaftStruct /\ old.currentTerm \in Nat
        /\ m.CurrentTerm \in Nat \cup {-1} /\ m.Canvass \in Nat
        /\ newer => m.CurrentTerm > old.currentTerm /\ ~m.VoteGranted
    BY Zenon, <2>1, CallFields, NewerTerm DEF TypeOK, Conn, RaftStruct
  <2>3. /\ rf'[p] = r
        /\ \A q \in Others(p) : /\ rf'[q] = rf[q] /\ votes'[q] = votes[q]
                                /\ persister'[q] = persister[q]
        /\ persister'[p] = persister[p]
        /\ \A d \in Conn : call'[d] = call[d] \/ call'[d] = NoCall
    BY Zenon, <2>1, <2>2 DEF TypeOK, Others
  <2>4. /\ votes[p] \subseteq Peer /\ votes'[p] \in {votes[p], granted}
        /\ ~counts => votes'[p] = votes[p]
    BY Zenon, <2>1, <2>2 DEF TypeOK
  <2>5. old.state = "Candidate" => votes[p] \subseteq Voters(cast, old.currentTerm, p)
    BY Zenon, <2>2 DEF ElectionInv, VotesBacked
  <2>6. counts => granted \subseteq Voters(cast, old.currentTerm, p)
    <3>1. counts => m.Canvass = old.currentTerm
      <4>1. m.Canvass <= old.currentTerm
        BY Zenon, <2>1 DEF ElectionInv, VotesBacked
      <4>2. counts => ~(old.currentTerm > m.Canvass)
        BY Zenon DEF Delayed
      <4>. HIDE DEF counts, m, old
      <4>. QED BY <4>1, <4>2, <2>2
    <3>2. counts => c[2] \in Voters(cast, m.Canvass, p)
      BY Zenon, <2>1 DEF ElectionInv, VotesBacked
    <3>. QED BY Zenon, <3>1, <3>2, <2>5
  <2>7. wins => IsMajority(Voters(cast, old.currentTerm, p))
    <3>1. granted \in SUBSET Peer /\ Voters(cast, old.currentTerm, p) \in SUBSET Peer
      BY Zenon, <2>2, <2>4 DEF Voters
    <3>. QED BY Zenon, <3>1, <2>6 DEF Majorities
  <2>8. old.state = "Candidate" => votes'[p] \subseteq Voters(cast, old.currentTerm, p)
    BY Zenon, <2>4, <2>5, <2>6
  <2>9. wins => ~newer /\ old.state = "Candidate"
    BY Zenon, <2>2
  <2>. HIDE DEF old, newer, wins, m
  <2>10. /\ newer => r.state = "Follower" /\ r.currentTerm = m.CurrentTerm
         /\ wins => /\ r.state = "Leader" /\ r.currentTerm = old.currentTerm
                    /\ r.votedFor = old.votedFor
         /\ ~newer /\ ~wins => r = old
    <3>1. CASE newer
      <4>1. r = TurnToFollower(old, m.CurrentTerm)
        BY Zenon, <3>1, <2>9
      <4>. QED BY Zenon, <3>1, <4>1, <2>2, <2>9 DEF TurnToFollower, RaftStruct
    <3>2. CASE wins
      <4>. DEFINE e == ElectionSuccessReset(old, p)
      <4>1. r = [e EXCEPT !.timer = FALSE]
        BY Zenon, <3>2, <2>9
      <4>2. e \in RaftStruct
        BY Zenon, <2>2, ElectionSuccessResetType
      <4>3. /\ e.state = "Leader" /\ e.currentTerm = old.currentTerm
            /\ e.votedFor = old.votedFor
        BY Zenon, <2>2 DEF ElectionSuccessReset, RaftStruct
      <4>. HIDE DEF e, r
      <4>. QED BY Zenon, <3>2, <4>1, <4>2, <4>3, <2>9 DEF RaftStruct
    <3>3. CASE ~newer /\ ~wins
      BY Zenon, <3>3
    <3>. QED BY Zenon, <3>1, <3>2, <3>3
  <2>. HIDE DEF r
  <2>11. Follows(p)
    <3>1. CASE newer
      <4>1. rf'[p].state = "Follower" /\ rf'[p].currentTerm > old.currentTerm
        BY Zenon, <3>1, <2>2, <2>3, <2>10
      <4>. HIDE DEF p
      <4>. QED BY Zenon, <4>1, <2>2, <2>3, <1>FollowsNewer DEF old
    <3>2. CASE wins
      <4>1. /\ rf'[p].state = "Leader" /\ rf'[p].currentTerm = old.currentTerm
            /\ rf'[p].votedFor = old.votedFor
        BY Zenon, <3>2, <2>3, <2>10
      <4>2. old.state = "Candidate" /\ IsMajority(Voters(cast, old.currentTerm, p))
        BY Zenon, <3>2, <2>7, <2>9
      <4>. HIDE DEF p, granted, counts
      <4>. QED BY Zenon, <4>1, <4>2, <2>2, <2>3, <1>FollowsElected DEF old
    <3>3. CASE ~newer /\ ~wins
      <4>1. rf'[p] = old
        BY Zenon, <3>3, <2>3, <2>10
      <4>. HIDE DEF p, granted, counts
      <4>. QED BY Zenon, <4>1, <2>2, <2>3, <2>8, <1>FollowsSame DEF old
    <3>. QED BY Zenon, <3>1, <3>2, <3>3
  <2>12. \A d \in Conn : Refuses(d)
    BY <2>3 DEF Refuses, NoCall
  <2>. QED
    BY Zenon, <2>1, <2>2, <2>3, <2>11, <2>12, <1>NoVoteStepOf

(* The AppendEntry handler: a candidate of the same term gives up, a newer *)
(* term makes a follower.                                                  *)
<1>ElectionAppendEntry.
    ASSUME TypeOK, TypeOK', ElectionInv, NEW c \in Conn, AppendEntry(c)
    PROVE  ElectionInv'
  <2>. USE <1>ElectionAppendEntry
  <2>. DEFINE p == c[2]
              sent == call[c]
              m == Received(sent)
              newer == Newer(c)
              old == rf[p]
              r == IF newer THEN TurnToFollower(old, m.Term) ELSE old
              late == m.Term < r.currentTerm
              heard == [r EXCEPT !.timer = TRUE,
                                 !.state = IF @ = "Candidate" THEN "Follower" ELSE @]
              ok == ~late /\ Matches(m, r.logs)
              r2 == CASE late -> r
                      [] ok -> [heard EXCEPT !.logs = Merge(m, @),
                                             !.commitIndex = NewCommitIndex(r, m)]
                      [] OTHER -> heard
              reply == CASE late -> AppendEntryReply(sent, FALSE, r.currentTerm, 0)
                         [] ok -> AppendEntryReply(sent, TRUE, 0, 0)
                         [] OTHER -> AppendEntryReply(sent, FALSE, -1, FirstIndex(m, r.logs))
              answer == IF sent.orphan THEN NoCall ELSE reply
  <2>1. /\ sent.kind = "AppendEntry"
        /\ rf' = [rf EXCEPT ![p] = r2]
        /\ persister' = [persister EXCEPT ![p] = Saved(r2)]
        /\ call' = [call EXCEPT ![c] = answer]
        /\ UNCHANGED <<votes, cast>>
    BY Zenon DEF AppendEntry, Answer
  <2>2. /\ p \in Peer /\ old \in RaftStruct /\ old.currentTerm \in Nat /\ m.Term \in Nat
        /\ newer => m.Term > old.currentTerm
    <3>1. p \in Peer /\ old \in RaftStruct /\ sent \in CallState
      BY Zenon DEF TypeOK, Conn
    <3>2. newer => m.Term > old.currentTerm
      BY Zenon, <2>1, NewerTerm
    <3>. HIDE DEF p, old, sent, newer
    <3>3. m.Term \in Nat
      BY Zenon, <2>1, <3>1, ReceivedType
    <3>. QED BY Zenon, <3>1, <3>2, <3>3 DEF RaftStruct
  <2>3. /\ rf'[p] = r2 /\ persister'[p] = Saved(rf'[p])
        /\ \A q \in Others(p) : rf'[q] = rf[q] /\ persister'[q] = persister[q]
        /\ \A d \in Conn : call'[d] = call[d] \/ call'[d] = answer
    <3>. HIDE DEF r2, answer
    <3>. QED BY Zenon, <2>1, <2>2 DEF TypeOK, Others
  <2>4. answer.kind \notin {"RequestVote", "RequestVoteReply"}
    BY Zenon DEF AppendEntryReply, NoCall
  <2>5. \A d \in Conn : Refuses(d)
    <3>. HIDE DEF answer
    <3>. QED BY Zenon, <2>3, <2>4 DEF Refuses
  <2>6. old.state = "Candidate" => votes[p] \subseteq Voters(cast, old.currentTerm, p)
    BY Zenon, <2>2 DEF ElectionInv, VotesBacked
  <2>. HIDE DEF old, newer, m, sent
  <2>7. /\ r \in RaftStruct
        /\ newer => r.state = "Follower" /\ r.currentTerm = m.Term
        /\ ~newer => r = old
    BY Zenon, <2>2, TurnToFollowerType
  <2>. HIDE DEF r
  <2>8. /\ r2.currentTerm = r.currentTerm /\ r2.votedFor = r.votedFor
        /\ r2.state # "Follower" => r2.state = r.state
    <3>1. /\ heard \in RaftStruct
          /\ heard.currentTerm = r.currentTerm /\ heard.votedFor = r.votedFor
          /\ heard.state # "Follower" => heard.state = r.state
      BY Zenon, <2>7 DEF RaftStruct, ServerState
    <3>. HIDE DEF heard
    <3>2. CASE late
      BY Zenon, <3>2
    <3>3. CASE ok
      <4>1. r2 = [heard EXCEPT !.logs = Merge(m, @), !.commitIndex = NewCommitIndex(r, m)]
        BY Zenon, <3>3
      <4>. HIDE DEF r2
      <4>. QED BY Zenon, <3>1, <4>1 DEF RaftStruct
    <3>4. CASE ~late /\ ~ok
      <4>1. r2 = heard
        BY Zenon, <3>4
      <4>. QED BY Zenon, <3>1, <4>1
    <3>. QED BY Zenon, <3>2, <3>3, <3>4
  <2>. HIDE DEF r2
  <2>9. Follows(p)
    <3>1. CASE newer
      <4>1. rf'[p].state = "Follower" /\ rf'[p].currentTerm = m.Term
        BY Zenon, <3>1, <2>3, <2>7, <2>8
      <4>2. rf'[p].currentTerm > old.currentTerm
        BY Zenon, <3>1, <4>1, <2>2
      <4>. HIDE DEF p
      <4>. QED BY Zenon, <4>1, <4>2, <2>2, <2>3, <1>FollowsNewer DEF old
    <3>2. CASE ~newer
      <4>1. /\ rf'[p].state \in {old.state, "Follower"}
            /\ rf'[p].currentTerm = old.currentTerm
            /\ rf'[p].votedFor = old.votedFor
        BY Zenon, <3>2, <2>3, <2>7, <2>8
      <4>2. old.state = "Candidate" => votes'[p] \subseteq Voters(cast, old.currentTerm, p)
        BY Zenon, <2>1, <2>6
      <4>. HIDE DEF p
      <4>. QED BY Zenon, <4>1, <4>2, <2>2, <2>3, <1>FollowsSame DEF old
    <3>. QED BY Zenon, <3>1, <3>2
  <2>. QED
    BY Zenon, <2>1, <2>2, <2>3, <2>5, <2>9, <1>NoVoteStepOf

(* AppendLogReplyHandler: at most the leader steps down.                   *)
<1>ElectionAppendLogReply.
    ASSUME TypeOK, TypeOK', ElectionInv, NEW c \in Conn, AppendLogReply(c)
    PROVE  ElectionInv'
  <2>. USE <1>ElectionAppendLogReply
  <2>. DEFINE p == c[1]
              q == c[2]
              m == call[c]
              newer == Newer(c)
              old == rf[p]
              leads == ~newer /\ old.state = "Leader"
              advanced == Advance(old, q, m.CurIndex)
              panics == leads /\ m.Success /\ ~CanTryCommit(advanced)
              r == CASE newer -> TurnToFollower(old, m.Term)
                     [] leads /\ m.Term = -1 -> BackOff(old, q, m.FirstIndex)
                     [] leads /\ m.Success /\ ~panics -> TryUpdateCommitIndex(advanced)
                     [] OTHER -> old
              Same(x) == /\ x.state = old.state /\ x.currentTerm = old.currentTerm
                         /\ x.votedFor = old.votedFor
  <2>1. /\ m.kind = "AppendEntryReply"
        /\ rf' = [rf EXCEPT ![p] = r]
        /\ call' = [call EXCEPT ![c] = NoCall]
        /\ UNCHANGED <<votes, persister, cast>>
    BY Zenon DEF AppendLogReply
  <2>2. /\ p \in Peer /\ q \in Peer /\ old \in RaftStruct /\ old.currentTerm \in Nat
        /\ m.Term \in Nat \cup {-1} /\ m.CurIndex \in Nat /\ m.FirstIndex \in Nat
        /\ newer => m.Term > old.currentTerm
    BY Zenon, <2>1, CallFields, NewerTerm DEF TypeOK, Conn, RaftStruct
  <2>3. /\ rf'[p] = r
        /\ \A x \in Others(p) : rf'[x] = rf[x]
        /\ \A d \in Conn : call'[d] = call[d] \/ call'[d] = NoCall
    BY Zenon, <2>1, <2>2 DEF TypeOK, Others
  <2>4. \A d \in Conn : Refuses(d)
    BY <2>3 DEF Refuses, NoCall
  <2>5. old.state = "Candidate" => votes[p] \subseteq Voters(cast, old.currentTerm, p)
    BY Zenon, <2>2 DEF ElectionInv, VotesBacked
  <2>. HIDE DEF old, newer, m, q
  <2>6. Same(BackOff(old, q, m.FirstIndex))
    BY Zenon, <2>2 DEF BackOff, RaftStruct
  <2>7. Same(TryUpdateCommitIndex(advanced))
    <3>1. advanced \in RaftStruct /\ Same(advanced)
      BY Zenon, <2>2, AdvanceType DEF Advance, RaftStruct
    <3>. HIDE DEF advanced
    <3>2. PICK n : TryUpdateCommitIndex(advanced) = [advanced EXCEPT !.commitIndex = n]
      BY Zenon, <3>1, TryUpdateCommitIndexType
    <3>. QED BY Zenon, <3>1, <3>2 DEF RaftStruct
  <2>8. TurnToFollower(old, m.Term).state = "Follower"
        /\ TurnToFollower(old, m.Term).currentTerm = m.Term
    BY Zenon, <2>2 DEF TurnToFollower, RaftStruct
  <2>9. IF newer THEN r.state = "Follower" /\ r.currentTerm = m.Term ELSE Same(r)
    <3>. HIDE DEF panics, advanced
    <3>. QED BY Zenon, <2>6, <2>7, <2>8
  <2>. HIDE DEF r
  <2>10. Follows(p)
    <3>1. CASE newer
      <4>1. rf'[p].state = "Follower" /\ rf'[p].currentTerm > old.currentTerm
        BY Zenon, <3>1, <2>2, <2>3, <2>9
      <4>2. persister'[p] = persister[p]
        BY Zenon, <2>1
      <4>. HIDE DEF p
      <4>. QED BY Zenon, <4>1, <4>2, <2>2, <1>FollowsNewer DEF old
    <3>2. CASE ~newer
      <4>1. /\ rf'[p].state = old.state /\ rf'[p].currentTerm = old.currentTerm
            /\ rf'[p].votedFor = old.votedFor
        BY Zenon, <3>2, <2>3, <2>9
      <4>2. /\ persister'[p] = persister[p]
            /\ old.state = "Candidate" => votes'[p] \subseteq Voters(cast, old.currentTerm, p)
        BY Zenon, <2>1, <2>5
      <4>. HIDE DEF p
      <4>. QED BY Zenon, <4>1, <4>2, <2>2, <1>FollowsSame DEF old
    <3>. QED BY Zenon, <3>1, <3>2
  <2>. QED
    BY Zenon, <2>1, <2>2, <2>3, <2>4, <2>10, <1>NoVoteStepOf

<1>. SUFFICES ASSUME Majorities, TypeOK, TypeOK', ElectionInv, [Next]_vars
              PROVE  ElectionInv'
  BY Zenon DEF TypeInv
<1>1. ASSUME NEW p \in Peer, TimerFires(p)
      PROVE  ElectionInv'
  <2>1. \A q \in Peer : /\ rf'[q].state = rf[q].state
                        /\ rf'[q].currentTerm = rf[q].currentTerm
                        /\ rf'[q].votedFor = rf[q].votedFor
    <3>. DEFINE old == rf[p]
                r == [old EXCEPT !.timer = FALSE, !.fired = TRUE]
    <3>1. rf' = [rf EXCEPT ![p] = r]
      BY Zenon, <1>1 DEF TimerFires, TypeOK
    <3>2. old \in RaftStruct
      BY Zenon DEF TypeOK
    <3>. HIDE DEF old
    <3>3. /\ r.state = old.state /\ r.currentTerm = old.currentTerm
          /\ r.votedFor = old.votedFor
      BY Zenon, <3>2 DEF RaftStruct
    <3>. HIDE DEF r
    <3>. QED BY Zenon, <3>1, <3>3 DEF old, TypeOK
  <2>. QED BY Zenon, <1>1, <2>1, <1>QuietStep DEF TimerFires
<1>2. ASSUME NEW p \in Peer, NEW i \in Routine, BeginRound(p, i)
      PROVE  ElectionInv'
  BY Zenon, <1>2, <1>QuietStep DEF BeginRound
<1>3. ASSUME NEW p \in Peer, NEW i \in Routine, NEW q \in Peer, NEW s \in Slot,
             SendEntry(p, i, q, s)
      PROVE  ElectionInv'
  <2>1. \A c \in Conn : call'[c] = call[c] \/ call'[c].kind = "AppendEntry"
    <3>. DEFINE m == AppendEntryArg(rf[p], q, routine[p][i])
    <3>1. Issue(p, {q}, s, m) \/ UNCHANGED call
      BY Zenon, <1>3 DEF SendEntry
    <3>2. m.kind = "AppendEntry"
      BY Zenon DEF AppendEntryArg
    <3>. HIDE DEF m
    <3>. QED BY Zenon, <3>1, <3>2 DEF Issue
  <2>. QED BY Zenon, <1>3, <2>1, <1>QuietStep DEF SendEntry
<1>4. ASSUME NEW p \in Peer, NEW x \in Command, Start(p, x)
      PROVE  ElectionInv'
  <2>. DEFINE old == rf[p]
              index == Len(old.logs)
              r == [old EXCEPT !.logs = Append(@, [Term |-> old.currentTerm,
                                                   Index |-> index, Command |-> x]),
                               !.nextIndex[p] = index + 1, !.matchIndex[p] = index]
  <2>1. /\ rf' = [rf EXCEPT ![p] = r]
        /\ persister' = [persister EXCEPT ![p] = Saved(r)]
        /\ UNCHANGED <<votes, call, cast>>
    BY Zenon, <1>4 DEF Start
  <2>2. /\ rf'[p] = r /\ persister'[p] = Saved(rf'[p])
        /\ \A q \in Others(p) : rf'[q] = rf[q] /\ persister'[q] = persister[q]
    BY <2>1 DEF TypeOK, Others
  <2>3. /\ old \in RaftStruct /\ old.currentTerm \in Nat
        /\ old.state = "Candidate" => votes[p] \subseteq Voters(cast, old.currentTerm, p)
    BY Zenon DEF TypeOK, RaftStruct, ElectionInv, VotesBacked
  <2>. HIDE DEF old
  <2>4. /\ r.state = old.state /\ r.currentTerm = old.currentTerm
        /\ r.votedFor = old.votedFor
    BY Zenon, <2>3 DEF RaftStruct
  <2>. HIDE DEF r
  <2>5. Follows(p)
    <3>1. votes'[p] = votes[p]
      BY Zenon, <2>1
    <3>. QED BY Zenon, <3>1, <2>2, <2>3, <2>4, <1>FollowsSame DEF old
  <2>6. \A c \in Conn : Refuses(c)
    BY Zenon, <2>1 DEF Refuses
  <2>. QED BY Zenon, <2>1, <2>2, <2>5, <2>6, <1>NoVoteStepOf
<1>5. ASSUME NEW p \in Peer, ApplyEntry(p)
      PROVE  ElectionInv'
  <2>1. \A q \in Peer : /\ rf'[q].state = rf[q].state
                        /\ rf'[q].currentTerm = rf[q].currentTerm
                        /\ rf'[q].votedFor = rf[q].votedFor
    <3>. DEFINE old == rf[p]
                r == [old EXCEPT !.lastApplied = old.commitIndex,
                                 !.applying = ~old.shutDown]
    <3>1. rf' = rf \/ rf' = [rf EXCEPT ![p] = r]
      BY Zenon, <1>5 DEF ApplyEntry, TypeOK
    <3>2. old \in RaftStruct
      BY Zenon DEF TypeOK
    <3>. HIDE DEF old
    <3>3. /\ r.state = old.state /\ r.currentTerm = old.currentTerm
          /\ r.votedFor = old.votedFor
      BY Zenon, <3>2 DEF RaftStruct
    <3>. HIDE DEF r
    <3>. QED BY Zenon, <3>1, <3>3 DEF old, TypeOK
  <2>. QED BY Zenon, <1>5, <2>1, <1>QuietStep DEF ApplyEntry
<1>6. ASSUME NEW c \in Conn, Lose(c)
      PROVE  ElectionInv'
  <2>1. \A d \in Conn : call'[d] = call[d] \/ call'[d].kind = "none"
    BY Zenon, <1>6 DEF Lose, NoCall, TypeOK
  <2>. QED BY Zenon, <1>6, <2>1, <1>QuietStep DEF Lose
<1>7. ASSUME NEW c \in Conn, BlockOnNotLeader(c)
      PROVE  ElectionInv'
  BY Zenon, <1>7, <1>QuietStep DEF BlockOnNotLeader
<1>8. ASSUME NEW p \in Peer, NEW waiting \in BOOLEAN, Kill(p, waiting)
      PROVE  ElectionInv'
  <2>1. \A q \in Peer : /\ rf'[q].state = rf[q].state
                        /\ rf'[q].currentTerm = rf[q].currentTerm
                        /\ rf'[q].votedFor = rf[q].votedFor
    <3>. DEFINE old == rf[p]
                r == [old EXCEPT !.shutDown = TRUE, !.applying = waiting]
    <3>1. rf' = [rf EXCEPT ![p] = r]
      BY Zenon, <1>8 DEF Kill, TypeOK
    <3>2. old \in RaftStruct
      BY Zenon DEF TypeOK
    <3>. HIDE DEF old
    <3>3. /\ r.state = old.state /\ r.currentTerm = old.currentTerm
          /\ r.votedFor = old.votedFor
      BY Zenon, <3>2 DEF RaftStruct
    <3>. HIDE DEF r
    <3>. QED BY Zenon, <3>1, <3>3 DEF old, TypeOK
  <2>. QED BY Zenon, <1>8, <2>1, <1>QuietStep DEF Kill
<1>9. ASSUME NEW p \in Peer, NEW i \in Routine, RoutineEnds(p, i)
      PROVE  ElectionInv'
  BY Zenon, <1>9, <1>QuietStep DEF RoutineEnds
<1>10. CASE UNCHANGED vars
  BY Zenon, <1>10, <1>QuietStep DEF vars
<1>. QED
  BY Zenon, <1>1, <1>2, <1>3, <1>4, <1>5, <1>6, <1>7, <1>8, <1>9, <1>10, <1>ElectionCanvass,
     <1>ElectionRequestVote, <1>ElectionRequestVoteReply, <1>ElectionAppendEntry,
     <1>ElectionAppendLogReply, <1>ElectionRestart DEF Next

-----------------------------------------------------------------------------
(* What follows from it. *)

(* Two majorities that elected two leaders of one term have a common voter.*)
LEMMA OneLeader == Majorities /\ TypeInv /\ ElectionInv => ElectionSafety
<1>. SUFFICES ASSUME Majorities, TypeOK, ElectionInv, NEW p \in Peer, NEW q \in Peer,
                     IsLeader(p), IsLeader(q),
                     rf[p].currentTerm = rf[q].currentTerm, p # q
              PROVE  FALSE
  BY Zenon DEF TypeInv, ElectionSafety
<1>. DEFINE term == rf[p].currentTerm
<1>1. IsMajority(Voters(cast, term, p)) /\ IsMajority(Voters(cast, term, q))
  BY Zenon DEF ElectionInv, LeaderHasMajority
<1>2. PICK v \in Peer : v \in Voters(cast, term, p) /\ v \in Voters(cast, term, q)
  <2>1. Voters(cast, term, p) \in SUBSET Peer /\ Voters(cast, term, q) \in SUBSET Peer
    BY Zenon DEF Voters
  <2>. QED BY Zenon, <1>1, <2>1 DEF Majorities
<1>3. <<v, term, p>> \in cast /\ <<v, term, q>> \in cast
  BY Zenon, <1>2 DEF Voters
<1>4. rf[p].votedFor = p /\ rf[q].votedFor = q /\ rf[p].currentTerm \in Nat
  BY Zenon DEF ElectionInv, VotedForSelf, IsLeader, TypeOK, RaftStruct
<1>5. CASE v = p
  <2>1. KeepsVotes(p, rf[p])
    BY Zenon DEF ElectionInv
  <2>. DEFINE w == <<v, term, q>>
  <2>2. w \in cast /\ w[1] = p /\ w[2] = term /\ w[3] = q
    BY Zenon, <1>3, <1>5
  <2>. HIDE DEF w
  <2>3. rf[p].currentTerm > w[2] \/ rf[p].votedFor = w[3]
    BY Zenon, <2>1, <2>2 DEF KeepsVotes
  <2>4. rf[p].votedFor = q
    BY <1>4, <2>2, <2>3
  <2>. QED BY Zenon, <1>4, <2>4
<1>6. CASE v = q
  <2>1. KeepsVotes(q, rf[q])
    BY Zenon DEF ElectionInv
  <2>. DEFINE w == <<v, term, p>>
  <2>2. w \in cast /\ w[1] = q /\ w[2] = term /\ w[3] = p
    BY Zenon, <1>3, <1>6
  <2>. HIDE DEF w
  <2>3. rf[q].currentTerm > w[2] \/ rf[q].votedFor = w[3]
    BY Zenon, <2>1, <2>2 DEF KeepsVotes
  <2>4. rf[q].votedFor = p
    BY <1>4, <2>2, <2>3
  <2>. QED BY Zenon, <1>4, <2>4
<1>7. CASE v # p /\ v # q
  BY Zenon, <1>3, <1>7 DEF ElectionInv, GrantsOnce
<1>. QED BY Zenon, <1>5, <1>6, <1>7

-----------------------------------------------------------------------------
(* Majorities of a finite set of peers. *)

INSTANCE FiniteSetTheorems

(* More than a majority is a majority.                                     *)
LEMMA MajorityGrows ==
    ASSUME NEW S \in SUBSET Peer, NEW T \in SUBSET Peer, S \subseteq T,
           IsMajority(S)
    PROVE  IsMajority(T)
<1>1. IsFiniteSet(T) /\ IsFiniteSet(S) /\ IsFiniteSet(Peer)
  BY Zenon, FS_Subset, PeerAssumption
<1>2. Cardinality(S) \in Nat /\ Cardinality(T) \in Nat /\ Cardinality(Peer) \in Nat
  BY Zenon, <1>1, FS_CardinalityType
<1>3. Cardinality(S) <= Cardinality(T)
  BY Zenon, <1>1, FS_Subset
<1>. QED
  BY <1>2, <1>3 DEF IsMajority

(* Two majorities have a peer in common.                                   *)
LEMMA MajoritiesMeet ==
    ASSUME NEW S \in SUBSET Peer, NEW T \in SUBSET Peer,
           IsMajority(S), IsMajority(T)
    PROVE  S \cap T # {}
<1>1. IsFiniteSet(S) /\ IsFiniteSet(T) /\ IsFiniteSet(Peer)
  BY Zenon, FS_Subset, PeerAssumption
<1>2. Cardinality(S) \in Nat /\ Cardinality(T) \in Nat /\ Cardinality(Peer) \in Nat
  BY Zenon, <1>1, FS_CardinalityType
<1>3. Cardinality(S) + Cardinality(T) > Cardinality(Peer)
  BY <1>2 DEF IsMajority
<1>. QED
  BY Zenon, <1>1, <1>3, FS_MajoritiesIntersect

(* What is used of majorities, of every finite set of peers.               *)
LEMMA MajoritiesOfPeers == Majorities
BY Zenon, MajorityGrows, MajoritiesMeet DEF Majorities

-----------------------------------------------------------------------------
(* The theorems on elections. *)

(* The election invariant holds in every reachable state: votes for others *)
(* are kept and saved, candidates and leaders have the votes they count    *)
(* on (RequestVote, replyHandler, persist, Make).                          *)
THEOREM ElectionInvariant == Spec => []ElectionInv
<1>1. Init => TypeInv /\ ElectionInv
  BY Zenon, TypeInit, ElectionInit
<1>2. TypeInv /\ ElectionInv /\ [Next]_vars => (TypeInv /\ ElectionInv)'
  BY Zenon, TypeNext, ElectionNext, MajoritiesOfPeers
<1>. QED
  BY <1>1, <1>2, PTL DEF Spec

(* No two peers lead in the same term, with any number of peers, calls in  *)
(* flight, losses, late timers and restarts (candidateRequestVote,         *)
(* RequestVote, Make).                                                     *)
THEOREM AtMostOneLeader == Spec => []ElectionSafety
<1>1. Spec => []TypeInv
  BY TypeInit, TypeNext, PTL DEF Spec
<1>. QED
  BY <1>1, ElectionInvariant, OneLeader, MajoritiesOfPeers, PTL

(* A vote for another peer survives every crash of the voter, and a leader *)
(* has a majority of votes in its term, also when it leads again after a   *)
(* restart.                                                                *)
THEOREM VotesKept == Spec => [](GrantedVoteSaved /\ LeaderHasMajority)
<1>1. ElectionInv => GrantedVoteSaved /\ LeaderHasMajority
  BY Zenon DEF ElectionInv
<1>. QED
  BY <1>1, ElectionInvariant, PTL

=============================================================================
