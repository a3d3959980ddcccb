------------------------------- MODULE KVRaft -------------------------------
(***************************************************************************)
(* The key/value service of kvraft on top of the Raft peers: the KVServer  *)
(* of each peer (server.go) and the clerks that call them (client.go).     *)
(*                                                                         *)
(* The state of one key is kept, as the sequence of the values it was put  *)
(* together from: no operation relates two keys.  A command is the         *)
(* PutAppendArgs of one operation.                                         *)
(***************************************************************************)
EXTENDS Raft

CONSTANTS
    Clerk,
    Appends,   \* the commands with Op "Append"; the others are a "Put"
    Valued,    \* those that applyCh delivers as a PutAppendArgs, not as a pointer
    GetArgs,   \* the arguments of a Get, no command
    MaxTries   \* bound: calls that one clerk makes

VARIABLES
    servers,   \* servers[ck]: the ends of clerk ck, in an order of its own
    clerk,     \* clerk[ck]: its maybeLeader, what it is doing, its last call
    attempt,   \* attempt[<<ck, n>>]: call n of clerk ck, and its handler
    db,        \* db[p]: the value of the key at p
    promise,   \* promise[p]: <<index, attempt>> for every channel in the map
    locked,    \* locked[p]: applyRoutine holds kv.mu
    inbox      \* inbox[p]: what applyEntryRoutine has yet to send on applyCh

kvOnly == <<servers, clerk, attempt, db, promise, locked, inbox>>

kvVars == <<vars, kvOnly>>

Attempt == Clerk \X (1 .. MaxTries)

NoAttempt == [at |-> "none"]

Ring == 0 .. Cardinality(Peer) - 1

(* The orders in which the harness may give a clerk its ends. *)
RandomHandles == {f \in [Ring -> Peer] : \A i, j \in Ring : f[i] = f[j] => i = j}

(* StartKVServer at every peer, and MakeClerk for every clerk. *)
KVInit ==
    /\ Init
    /\ servers \in [Clerk -> RandomHandles]
    /\ clerk = [ck \in Clerk |-> [maybeLeader |-> 0, args |-> Nil, tries |-> 0]]
    /\ attempt = [a \in Attempt |-> NoAttempt]
    /\ db = [p \in Peer |-> <<>>]
    /\ promise = [p \in Peer |-> {}]
    /\ locked = [p \in Peer |-> FALSE]
    /\ inbox = [p \in Peer |-> <<>>]

-----------------------------------------------------------------------------
(* The clerk. *)

Last(ck) == <<ck, clerk[ck].tries>>

(* A turn of the loop of Get or PutAppend: a goroutine calls the server    *)
(* that the clerk takes for the leader.                                    *)
Try(ck, args, leader) ==
    LET n == clerk[ck].tries + 1
    IN  /\ n <= MaxTries
        /\ clerk' = [clerk EXCEPT ![ck] = [maybeLeader |-> leader, args |-> args,
                                           tries |-> n]]
        /\ attempt' = [attempt EXCEPT ![<<ck, n>>] =
                          [at |-> "sent", to |-> servers[ck][leader],
                           args |-> args]]

TryNextLeader(ck) == (clerk[ck].maybeLeader + 1) % Cardinality(Peer)

(* Clerk.Get, Clerk.Put or Clerk.Append is called. *)
Operation(ck, args) ==
    /\ ~outOfRange /\ clerk[ck].args = Nil
    /\ Try(ck, args, clerk[ck].maybeLeader)
    /\ UNCHANGED <<vars, servers, db, promise, locked, inbox>>

(* The 200 ms are over: the next server, with the same arguments.  The     *)
(* call of before goes on, and nobody waits for it.                        *)
TimeOut(ck) ==
    /\ ~outOfRange /\ clerk[ck].args # Nil
    /\ Try(ck, clerk[ck].args, TryNextLeader(ck))
    /\ UNCHANGED <<vars, servers, db, promise, locked, inbox>>

(* The call of this turn is done. *)
Done(ck) ==
    /\ ~outOfRange /\ clerk[ck].args # Nil
    /\ attempt[Last(ck)].at = "done"
    /\ IF attempt[Last(ck)].reply = "OK"
       THEN clerk' = [clerk EXCEPT ![ck].args = Nil] /\ UNCHANGED attempt
       ELSE Try(ck, clerk[ck].args, TryNextLeader(ck))
    /\ UNCHANGED <<vars, servers, db, promise, locked, inbox>>

-----------------------------------------------------------------------------
(* The server. *)

Reply(a, r) == attempt' = [attempt EXCEPT ![a] = [at |-> "done", reply |-> r]]

(* The handler of attempt a gets to another point. *)
Moves(a, point, index) ==
    attempt' = [attempt EXCEPT ![a] = [at |-> point, to |-> @.to, args |-> @.args,
                                       index |-> index]]

(* Call returns false: the request, or the reply, was lost. *)
CallFails(a) ==
    /\ ~outOfRange
    /\ attempt[a].at = "sent" \/ (attempt[a].at = "done" /\ attempt[a].reply = "OK")
    /\ Reply(a, "failed")
    /\ UNCHANGED <<vars, servers, clerk, db, promise, locked, inbox>>

(* KVServer.Get asks Raft whether this server leads. *)
GetAsks(a) ==
    LET p == attempt[a].to
    IN  /\ attempt[a].at = "sent" /\ attempt[a].args = GetArgs /\ Free(p)
        /\ IF rf[p].leader = p THEN Moves(a, "reading", 0)
                               ELSE Reply(a, "WrongLeader")
        /\ UNCHANGED <<vars, servers, clerk, db, promise, locked, inbox>>

(* It reads db without the lock, whoever leads by now. *)
GetReads(a) ==
    /\ ~outOfRange /\ attempt[a].at = "reading"
    /\ attempt' = [attempt EXCEPT ![a] = [at |-> "done", reply |-> "OK",
                                          value |-> db[attempt[a].to]]]
    /\ UNCHANGED <<vars, servers, clerk, db, promise, locked, inbox>>

(* KVServer.PutAppend hands its arguments to Raft. *)
PutAppendStarts(a) ==
    LET p == attempt[a].to
    IN  /\ attempt[a].at = "sent" /\ attempt[a].args \in Command /\ Free(p)
        /\ \/ /\ Start(p, attempt[a].args)
              /\ Moves(a, "started", Len(rf[p].logs))
           \/ /\ rf[p].state # "Leader"
              /\ Reply(a, "WrongLeader")
              /\ UNCHANGED vars
        /\ UNCHANGED <<servers, clerk, db, promise, locked, inbox>>

(* It takes kv.mu, makes the channel for the index and waits. *)
PutAppendWaits(a) ==
    LET p == attempt[a].to
        index == attempt[a].index
    IN  /\ ~outOfRange /\ attempt[a].at = "started" /\ ~locked[p]
        /\ promise' = [promise EXCEPT ![p] =
                          {e \in @ : e[1] # index} \cup {<<index, a>>}]
        /\ Moves(a, "waiting", index)
        /\ UNCHANGED <<vars, servers, clerk, db, locked, inbox>>

(* applyEntryRoutine copies what is new and sends it, one message at a     *)
(* time; the next turn comes when all were received.                       *)
Deliver(p) ==
    /\ inbox[p] = <<>>
    /\ ApplyEntry(p)
    /\ inbox' = [inbox EXCEPT ![p] =
                    SubSeq(rf[p].logs, rf[p].lastApplied + 2,
                           rf[p].commitIndex + 1)]
    /\ UNCHANGED <<servers, clerk, attempt, db, promise, locked>>

(* The value of a key after command x. *)
Applied(value, x) == IF x \in Appends THEN Append(value, x) ELSE <<x>>

(* The handler that waits for the index returns: the command is its own,   *)
(* or it failed.                                                           *)
Fulfil(p, msg) ==
    attempt' = [a \in Attempt |->
        IF <<msg.Index, a>> \in promise[p]
        THEN [at |-> "done", reply |-> IF attempt[a].args = msg.Command
                                       THEN "OK" ELSE "WrongLeader"]
        ELSE attempt[a]]

(* A turn of applyRoutine.  The type assertion stops the program, as an    *)
(* index out of range does in Raft, if the command is not a PutAppendArgs: *)
(* the int of the dummy entry is not one.  The deferred Unlock runs when   *)
(* applyRoutine returns, which is never.                                   *)
ApplyRoutine(p) ==
    LET msg == Head(inbox[p])
    IN  /\ ~outOfRange /\ inbox[p] # <<>>
        /\ \/ /\ msg.Command \notin Valued
              /\ outOfRange' = TRUE
              /\ UNCHANGED <<rf, votes, routine, blocked, persister, call, applied,
                             cast, restarts, kvOnly>>
           \/ /\ msg.Command \in Valued /\ ~locked[p]
              /\ locked' = [locked EXCEPT ![p] = TRUE]
              /\ Fulfil(p, msg)
              /\ promise' = [promise EXCEPT ![p] = {e \in @ : e[1] # msg.Index}]
              /\ db' = [db EXCEPT ![p] = Applied(@, msg.Command)]
              /\ inbox' = [inbox EXCEPT ![p] = Tail(@)]
              /\ UNCHANGED <<vars, servers, clerk>>

(* ShutdownServer and StartServer: Raft starts from what it saved, the     *)
(* service from nothing.  The calls at the server fail.                    *)
RestartServer(p) ==
    /\ Restart(p)
    /\ db' = [db EXCEPT ![p] = <<>>]
    /\ promise' = [promise EXCEPT ![p] = {}]
    /\ locked' = [locked EXCEPT ![p] = FALSE]
    /\ inbox' = [inbox EXCEPT ![p] = <<>>]
    /\ attempt' = [a \in Attempt |->
                      IF attempt[a].at \notin {"none", "done"} /\ attempt[a].to = p
                      THEN [at |-> "done", reply |-> "failed"] ELSE attempt[a]]
    /\ UNCHANGED <<servers, clerk>>

-----------------------------------------------------------------------------
(* The steps of Raft in which the service has no part. *)
RaftStep ==
    \/ \E p \in Peer : TimerFires(p)
    \/ \E p \in Peer, s \in Slot : \E to \in SUBSET Others(p) : Canvass(p, to, s)
    \/ \E c \in Conn : \/ RequestVote(c) \/ RequestVoteReply(c)
                       \/ AppendEntry(c) \/ AppendLogReply(c)
                       \/ Lose(c) \/ BlockOnNotLeader(c)
    \/ \E p \in Peer, i \in Routine :
          \/ BeginRound(p, i) \/ RoutineEnds(p, i)
          \/ \E q \in Peer, s \in Slot : SendEntry(p, i, q, s)
    \/ \E p \in Peer, waiting \in BOOLEAN : Kill(p, waiting)

KVNext ==
    \/ RaftStep /\ UNCHANGED kvOnly
    \/ \E ck \in Clerk, args \in Command \cup {GetArgs} : Operation(ck, args)
    \/ \E ck \in Clerk : TimeOut(ck) \/ Done(ck)
    \/ \E a \in Attempt : \/ CallFails(a) \/ GetAsks(a) \/ GetReads(a)
                          \/ PutAppendStarts(a) \/ PutAppendWaits(a)
    \/ \E p \in Peer : Deliver(p) \/ ApplyRoutine(p) \/ RestartServer(p)

(* The goroutines of the servers keep running, Raft's included. *)
KVSpec ==
    /\ KVInit /\ [][KVNext]_kvVars
    /\ ReplicationFairness
    /\ \A p \in Peer : WF_kvVars(Deliver(p)) /\ WF_kvVars(ApplyRoutine(p))
    /\ \A a \in Attempt :
          WF_kvVars(PutAppendStarts(a)) /\ WF_kvVars(PutAppendWaits(a))

(* The handler of a PutAppend has handed its command to server p. *)
Pending(p, a) == attempt[a].at \in {"started", "waiting"} /\ attempt[a].to = p


=============================================================================
