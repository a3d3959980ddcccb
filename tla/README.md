# A TLA+ verification of the 6.824 labs in this repository

The Go code is under `MIT6.824/1st_learning/6.824/src`; paths below are relative
to it. The rest of the repository is notes. The project specifies the parts that
carry state and concurrency, model-checks them with TLC on small instances, and
proves the central results for every instance with TLAPS.

## 1. The system

| Component | State | Operations | Interacts with |
|---|---|---|---|
| Raft peer (`raft/raft.go`) | state, term, vote, log, commitIndex, lastApplied, nextIndex, matchIndex, election timer, channels | timer function, RequestVote, AppendEntry and their reply handlers, heartbeat and apply goroutines, Start, GetState, Kill, Make | peers through labrpc, Persister, tester through applyCh |
| Persister (`raft/persister.go`) | saved Raft state | Copy, SaveRaftState, ReadRaftState | Raft, harness |
| Quickselect (`raft/util.go`) | an array | findKthLargest | leaderTryUpdateCommitIndex |
| Test harness (`raft/config.go`) | saved persisters, connected flags, applied values | crash1, start1, connect, disconnect, checks | Raft, labrpc |
| RPC network (`labrpc/labrpc.go`) | ends, servers, enabled flags, reliability | Call, ProcessReq, dispatch, Cleanup, Enable, AddServer, DeleteServer | everything distributed |
| MapReduce (`mapreduce/`) | registered workers, task channel, WaitGroup, worker counters, files | Register, schedule, DoTask, Shutdown, killWorkers, merge | master, workers, files |
| Linearizability checker (`linearizability/`) | linked history, bitset, cache, stack, kill flag | checkSingle, lift, unlift, CheckOperationsTimeout | tests of the key/value services |
| Key/value server and clerk (`kvraft/`) | map, promises, kv.mu, applyCh; the server taken for the leader | Get, PutAppend, applyRoutine; the clerk's loop with its timeout | Raft, labrpc, labgob; unfinished |
| Shard master, sharded store | stubs | stubs | |
| Encoding (`labgob/`) | registered types | Encode, Decode, Register | persist, every RPC |
| `main/` | none of interest | start-up | |

What is hard in it, and what makes each part correct:

- **Raft.** Handlers, replies, timer functions, heartbeat and apply goroutines
  interleave under one mutex; calls are lost, delayed and overtake each other;
  peers crash between any two steps. Correct means: one leader per term, granted
  votes survive crashes, logs that agree at an index agree before it, what was
  delivered stays and is delivered by all, indexes stay in their logs, and a
  leader that stays brings everybody to its log.
- **Key/value service.** A handler waits for what another goroutine delivers, after a
  hand-over through Raft, two mutexes and an encoding that may fail. Correct means: at a
  leader that stays, the handler returns.
- **labrpc and harness.** Killed servers keep running. Correct means: a positive
  reply is durable, an old instance never writes the new one's state, failure has
  a reason, calls return.
- **MapReduce.** Workers fail in the middle of tasks. Correct means: no task lost or
  run at the same time as another on a worker, reduce inputs complete, output
  complete, the job ends.
- **Linearizability checker.** Backtracking over a list with stale pointers, and a
  cache that prunes. Correct means: the verdict is that of the definition, and the
  search ends.

`PROJECT.json` lists the hazards at their lines.

## 2. Modules

| Module | Models | Kind |
|---|---|---|
| `Raft` | raft.go, persister.go, the harness's crash and restart | specification and properties |
| `ReplicatedLog` | what Raft promises to a service | abstract specification |
| `RaftLog` | | refinement of `ReplicatedLog` by `Raft` |
| `KVRaft` | kvraft/server.go, client.go, restarts of a server, on top of `Raft` | composition and property |
| `MCRaft` | | instances, symmetry, view, restarted cluster |
| `RaftTypeProofs`, `RaftLogProofs`, `RaftProofs` | | proofs: types and indexes; saved logs and deliveries; elections |
| `FindKthLargest`, `FindKthLargestProofs` | util.go | specification, proofs |
| `Network`, `MCNetwork`, `NetworkProofs` | labrpc.go with crash1/start1/connect/disconnect | specification, instance, proofs |
| `MapReduce`, `MCMapReduce`, `MapReduceProofs` | mapreduce/ | specification, instance, proofs |
| `CheckSingle` | checkSingle over the set of remaining operations, and the definition of linearizability | abstract specification |
| `CheckSingleLinked`, `MCCheckSingle` | checkSingle with lift and unlift on its list | detailed specification, instance |
| `CheckPartitions` | CheckOperationsTimeout / CheckEventsTimeout | specification |
| `LinearizabilityProofs` | | proofs of the three |

Definitions called `Bug...` stand before the definition they vary. They are
plausible mistakes in that piece of code, used to confirm that each property would
notice one, and are part of no specification.

### How the models correspond to the code

**Raft.** One action is one critical section of `rf.mu`, one step of the network, or
the expiry of a timer. `rf[p]` is the struct; element `i+1` of a log is `logs[i]`.
The deferred `persist` is part of the handler's action. `Canvass` is
candidateRequestVote (which saves nothing), `RequestVoteReply` its closure,
`BeginRound` and `SendEntry` the heartbeat round, `AppendLogReply` its reply handler.
`TimerFires` separates the expiry of a timer from the function taking the lock.
`Notify` is the send on `notLeaderCh`, received at either select;
`BlockOnNotLeader` is the case in which every receiver waits for the mutex. Go
slices beyond `len` but within `cap` without a panic; any index beyond `len` sets
`outOfRange`, and the model stops there. A heartbeat round is not a fixed order of
peers: `SendEntry` leaves order and repetition open, so a model round allows more
than the code does. Three constants widen the schedule: `LateTimer` (a timer
function may wait for the lock), `BusyRoutine` (a leader may be deposed during a
round), `Orphans` (requests outlive their sender's crash). The runs of the
replication properties keep them off, because with them on the code breaks some of
those properties (section 4).

`Kill` only closes shutDownCh: heartbeat goroutines end at their next select
(`RoutineEnds`), one that is past it sends once more (`SendEntry`), the timer and the handlers go on, and applyEntryRoutine, which waits on
a condition the signal does not change, ends after the delivery it is in or waits for.
`Encodable` are the commands of a type that labgob knows. gob writes nothing for a log
with another command and nobody looks at the error: such a log is not saved (`Saved`),
and such a call arrives with zero arguments (`Received`), which the handler takes for a
request of term 0 that commits index 0.

**ReplicatedLog and RaftLog.** The abstract log has entries that are proposed, entries
that are chosen, one at each index and without gaps, and for every server the number of
entries it was given. `RaftLog` maps them to the entries some log, saved log or call
holds, to what was delivered on any applyCh, and to `lastApplied + 1`. A step adds at most
one entry to the first of these; that its command came from a client is not checked.

**KVRaft.** `KVRaft` extends `Raft`: a clerk's attempt is a record that goes from sent to
started, waiting and done as the handler's goroutine does. `PutAppendStarts` contains
Raft's `Start`, `Deliver` its `ApplyEntry`, `RestartServer` its `Restart`; the other steps
of Raft leave the service alone. Between `Deliver` and `ApplyRoutine` a message is on the
unbuffered applyCh. `locked` is kv.mu after the deferred Unlock. A failed type assertion
ends the program, as an index out of range does. `Valued` are the commands that would
pass the assertion: none, since Start is given a pointer.

**Network.** A call is a goroutine with a program counter. ProcessReq's steps are
separate actions, because the server may be replaced between any two. A handler is
an update that is saved. Delays are the interleaving. One end per calling peer and
one server name are modelled.

**MapReduce.** Goroutines blocked in a send on registerChan are the set `offers`. A
call is dialled, queued, served, running, then answered or failed. Map files are
created in one step and written in a later one, so a worker can die in between.
`master.go:41-43` does not compile as it stands (`mr.` at the end of a line, before
`mr.newCond.Broadcast()`); it is read as `newCond.Broadcast()`.

**Linearizability.** Histories have distinct times and complete operations.
`CheckSingleLinked` extends `CheckSingle` with the pointer fields. The comment at
`linearizability.go:53` has call and return the wrong way round: a node with a nil
match is a return. The comment at `util.go:75` gives `[j, end)` for what is
`(j, end)`.

## 3. Runs

| Run | Question | Bounds |
|---|---|---|
| raft_election | one leader per term with late timers, busy rounds, killed peers, a crash anywhere and orphan requests; the proof's invariant | 3 peers, 2 terms, 2 canvasses, 2 calls, 1 restart, 1 killed |
| raft_replication | the peers implement the replicated log; indexes are positions, logs are saved, what was delivered is durable | 3 peers, 2 terms, 1 command per term, 1 call, 1 restart |
| raft_restarted | log matching, leader completeness, Figure 8 | from logs diverged in 3 terms, 1 further term with 2 canvasses, 1 call |
| raft_catch_up | the back-off of nextIndex ends (liveness) and stays in the log; deliveries have no gap | from logs diverged in 2 terms, 2 calls |
| raft_reorder, raft_blocked_handler, kv_put_append | disagreements, section 4 | smallest that show them |
| find_kth_largest | all arrays of 4 over 4 values, all ranks | every pattern of equal values |
| network | durable replies, failures, returns | 2 calls, 2 instances |
| mapreduce | tasks, files, output, completion | 2 + 2 tasks, 2 workers, one limited and mortal |
| check_single | verdict, list, refinement, termination | all histories of 3 operations |
| check_partitions | kill flag and timeout | 3 keys |

*Why the bounds are enough.* Three peers are the smallest cluster in which a majority
leaves someone out. Two terms give a deposed leader and its successor; Figure 8 needs
four, so that run starts from a cluster restarted after three. One call slot per
connection keeps calls on a connection in order; `raft_reorder` has two. Two server
instances show an old and a new one. Two tasks per phase on two workers let one fail
while the other works. Three operations give every overlap of a pair with a third in
between. These are arguments, not proofs; what is proved for all sizes is in
section 5.

*Symmetry and view.* Peers, commands, slots and goroutines are interchangeable in the
runs that start from `Init`. Runs from the diverged logs name their peers and use no
symmetry, and no liveness run does. `CalmView` drops what no later step reads when
late timers and busy rounds are off: votes counted by a finished canvass, the indexes
of a non-leader, and (with no restart left) saved fields other than the log. It keeps
the number of canvasses, which guards read. `ElectionView` is for runs of elections
alone, under any schedule: it drops whom a peer takes for the leader (which only
GetState reads), votes of finished canvasses, and the indexes of a peer that neither
leads nor sends.

*Deadlock* is not checked: bounded runs, finished jobs and finished searches stop.

*Fairness.* Raft (raft_catch_up, kv_put_append): goroutines keep running, handlers handle what
arrives, and from some time on nothing is lost. The bound on calls in flight could
starve a connection; in this run it equals the number of connections of the one leader
that can stay. kv_put_append adds that the goroutines of the servers run; of the clerk
it assumes nothing. MapReduce: some enabled step other
than a crash is taken, since goroutines and processes are scheduled. Network: each
call's goroutine runs and handlers return, except those in `Stuck`; nothing is assumed
of the harness or of losses. CheckSingleLinked and CheckPartitions: the loop and the
goroutines run.

## 4. Disagreements between the code and what it says

Three are runs that end in a counterexample.

- `raft_reorder`: AppendEntry cuts the log at PrevLogIndex without comparing terms
  (`raft.go:535`). An older request that arrives late removes a committed entry and
  another command is delivered at its index, which the tester rejects
  (`config.go:178`).
- `raft_blocked_handler`: RequestVote, at a leader that learns of a newer term, sends on
  notLeaderCh with the mutex held and never returns (`raft.go:228`, `302-304`). The other
  handlers do the same in turnToFollower (`raft.go:128`).
- `kv_put_append`: PutAppend does not return at a leader that stays
  (`kvraft/server.go:148`, `84`, `89`). The type of the command is not registered, so
  AppendEntry arrives empty. A peer past term 0 takes it for a late request; this is the
  null pointer the author met (`MIT6.824/1st_learning/README.md:204-206`). A peer in
  term 0 accepts it and delivers the dummy entry, whose command is no PutAppendArgs, and
  the program panics; this is the counterexample. With `Encodable = {x}` and
  `Valued = {x}`, that is with the type registered and a value handed to Start, the run
  still fails, since a committed command is delivered after the dummy.

Six more follow from the same specifications and have no run of their own.

- Workers do not stop after Shutdown: it sets nRPC to 1 when the accept loop has already
  counted its connection, and the loop waits for one more (`mapreduce/worker.go:103`).
  Master.Wait is documented to return when "all workers have been shut down"
  (`mapreduce/master.go:152-154`). With `Mortal = {}` and no limit on RPCs, `FairSpec` of
  `MapReduce` does not satisfy `pc = "done" ~> loop[w] = "closed"` for a registered `w`.

- With `BusyRoutine = TRUE` a deposed leader's heartbeat goroutine consumes the
  notification inside a round and goes on at a follower (`raft.go:717`;
  `MIT6.824/1st_learning/README.md:145`): `routine[p]` is not `NotRunning` everywhere
  although `rf[p]` does not lead.
- With `LateTimer = TRUE` and three canvasses an expired timer function starts an election
  at a leader, which goes on reporting itself as leader: `rf[p].leader = p` for two peers
  in one term, which checkOneLeader takes for two leaders (`raft.go:332`, `config.go:321`).
- A peer's log up to its commitIndex can change, for the reason `raft_reorder` shows: the
  older of two requests cuts it (`raft.go:535`).
- AppendLogReplyHandler takes a success reply without a look at the term of its
  request (`raft.go:596-641`), although its comments expect late ones ("NB: msg might
  be delayed !!!", 613 and 624). A leader whose reply is late is deposed, has its log
  cut, is elected again and only then handles it: nextIndex is now beyond the log, and
  sendEntry panics. `RestartedSpec` with `MaxTerm = 5`, `MaxCanvass = 5`,
  `MaxStarts = 0`, `MaxCalls = 2` and one slot violates `IndexInBounds` after 26 steps.
  The runs of the replication properties end one election earlier.
- `Canvass` leaves `persister` alone, as candidateRequestVote does (`raft.go:337`),
  although term and vote are the "persistent state on all servers" (`raft.go:80`). A
  candidate that crashes may vote again in its term; election safety holds nevertheless
  (section 5). But a committed entry can be lost, with five peers: p1 leads term 1 and p2
  acknowledges its entry. p3 wins term 2 with the votes of p4 and p5, its heartbeat cuts
  p2's log, and it crashes before anything is saved. Back in term 1, it acknowledges the
  entry to p1, which now counts p1, p2 and p3 and delivers what only p1 and p3 hold:
  `Durability` fails after 20 steps (5 peers, 2 terms, 1 command, 1 restart, the three
  schedule constants off).

## 5. Theorems

All are proved for every value of the constants, from the named assumptions of the
modules (finite `Peer`, `Nil` outside it, natural bounds, and so on).

**Raft, types** (RaftTypeProofs). `TypeCorrect` and `IndexesArePositions` are inductive
together: the cut in AppendEntry is in range because indexes are positions.

**Raft, elections** (RaftProofs): `ElectionInvariant`, `AtMostOneLeader`, `VotesKept`.
`ElectionSafety` is not inductive: it says nothing of votes on their way. `ElectionInv`
adds that counted votes were cast, that votes for *others* are kept in memory and on
disk, and that whoever stands or leads voted for itself. Votes for oneself may be
forgotten in a crash, but a peer that forgot one no longer stands in that term. Two
majorities meet in a peer that voted once or stood itself.

**Raft, saved logs** (RaftLogProofs): `LogsAreSaved`. After every step a persister holds
the log of its peer as persist writes it, so that a crash at any point neither forgets an
entry nor brings back one that was cut. A log with a command that gob cannot encode is
saved as the dummy entry; a log that was saved can be encoded, so a restarted peer agrees
with its persister again.

**Raft, deliveries** (RaftLogProofs): `NoEntrySkipped`. The indexes delivered by anybody
have no gap, and no lastApplied is ahead of them. This needs that Index is position (the
entries at lastApplied + 1 .. commitIndex carry just these indexes), so it is shown
together with `TypeInv`. `LogMoves` first reduces Next to three cases: a delivery, a
restart, or a step that leaves lastApplied alone and saves a log that it changes.

All theorems on Raft cover every schedule of the model, `LateTimer`, `BusyRoutine` and
`Orphans` included, calls that overtake each other, restarts at any time, and commands
that cannot be encoded. What a peer was given at an index (as opposed to which indexes) is
not part of them: `StateMachineSafety`, `LeaderCompleteness`, `LogMatching`, `Durability`
and `IndexInBounds` do not hold of the code for all constants, so there is no theorem to
prove, and the runs show them where the bounds exclude the cases of section 4 and every
command can be encoded. (A leader whose log cannot be encoded restarts as the leader of
its term with the dummy entry alone, and fills the same indexes of that term again.)

**Quickselect** (FindKthLargestProofs): `FindKthLargestCorrect`, `PartsInOrder`. The
invariant keeps the count of larger and smaller elements outside the window.

**Linearizability search** (LinearizabilityProofs). `StackIsLegal` and
`TrueOnlyIfLinearizable`: the stack is a legal beginning and the scan has passed no
return of an operation left out, so a complete stack is a linearization.
`VerdictIsRight` is the other direction too. `CompleteInv` says that a configuration in
the cache that can be completed is still on the stack, and that at every level the calls
already passed cannot come next. A return at the cursor then means that the
configuration is dead, and so, in the end, the empty one.
`PointersInOrder`, `LinkedImplementsSearch`, `LinkedVerdictIsRight`: `LinkInv` says that
the pointers are the list of the entries left, and that the entries lifted at each level
of the stack remember where they belong once all later ones are back. So unlift restores
the list, and each step of the pointers is a step of the search.

**Partitions** (LinearizabilityProofs): `FalseVerdictIsReal`, `TrueVerdictIsComplete`. An
answer given before the kill flag is true to the history, and the flag is only set after
the verdict.

**Network** (NetworkProofs): `RepliesAreDurable`, `PersisterNotShared`,
`FailuresHaveReason`. A handler that passed the check after the reply ran on the instance
in service, whose memory is saved in the Persister that a crash copies.

**MapReduce** (MapReduceProofs): `JobTypeCorrect`, `NoTaskLost`, `WorkersNotShared`,
`ReduceReadsComplete`, `JobOutputComplete`. `JobInv` counts the pending tasks of a phase
by where they are (channel, goroutine, call), which the WaitGroup equals; it says that a
worker is offered, held by one goroutine or busy with one call; and what each file holds
by the state of its task.

*How the proofs are laid out.* One step per action, citing a few facts. Leaves that
need no arithmetic name Zenon. In the modules on Raft the lemmas about single actions are
steps of the lemma that every step keeps the invariant (`TypeNext`, `ElectionNext`,
`LogMoves`): a lemma of a module is a hypothesis of every obligation after it, a step is
not. The lemmas on votes take `Majorities` (two majorities meet) as a hypothesis; it is proved near the end of RaftProofs, where the
theorems on finite sets come in, so that they do not burden the rest.

*Only model-checked, and why.*

- Liveness (`CatchesUp`, `JobCompletes`, `CallsReturn`, `Returns`, `Terminates`): the
  prover has no rules for fairness.
- `StateMachineSafety`, `LeaderCompleteness`, `LogMatching`, `Durability`, `IndexInBounds`
  and `ImplementsLog` of Raft: true of the runs' schedules, false of others the code allows
  (section 4).

## 6. Not modelled

- Key/value service: several keys (no operation relates two), the harness's partitions
  beyond calls that fail, handlers of a killed server that go on running.
- Shard master and sharded store: server handlers are stubs.
- labgob's warnings about field names and values, `main/`, `Sequential`, RPC and byte counters, file descriptors, snapshots.
- Timing: the length of timeouts and delays.

## 7. Plan

Done, in this order: Raft elections, replication, crash and restart; quickselect;
MapReduce; the linearizability checker and its refinement; labrpc with the harness;
types and election safety of Raft, quickselect and soundness of the checker proved;
Kill, encoding, the replicated log that Raft implements, and the key/value service;
proofs of Network, MapReduce, the checker in both directions and on its list, and of what
holds of Raft's saved logs and deliveries under any schedule.

Next:

1. `Raft`: a cluster of one peer, which never elects itself; liveness of elections.
2. Once the key/value service applies commands: commands applied twice by the retry
   without identifiers, and stale reads of a deposed leader.
