------------------------------ MODULE MapReduce ------------------------------
(***************************************************************************)
(* The distributed MapReduce job of mapreduce/: the master with its        *)
(* registration server, schedule() with its dispatcher and its call        *)
(* goroutines, the workers with their accept loop, and the shared files.   *)
(*                                                                         *)
(* The values of a key are kept per map task instead of in one list: their *)
(* list is the concatenation, in the order of the map tasks.  What is      *)
(* picked from a list keeps its position in it, and so its order.          *)
(***************************************************************************)
EXTENDS Integers, Sequences, FiniteSets, Functions

CONSTANTS
    Worker,    \* the worker processes
    NRPC,      \* NRPC[w]: quit after this many RPCs; -1: no limit
    Mortal,    \* the workers that may crash
    NMap,      \* number of input files
    NReduce,   \* number of reduce partitions
    Contents,  \* Contents[m]: what mapF makes of input file m, <<key, value>>s
    IHash,     \* IHash[k]: ihash of key k
    NoFile     \* what a file that does not exist holds

ASSUME JobAssumption ==
    /\ NMap \in Nat /\ NReduce \in Nat \ {0}
    /\ NRPC \in [Worker -> Int] /\ Mortal \subseteq Worker
    /\ \A m \in 0 .. NMap - 1 : \A i \in DOMAIN Contents[m] :
          IHash[Contents[m][i][1]] \in Nat

VARIABLES
    pc,        \* where Master.run is
    workers,   \* mr.workers
    forwarded, \* forwarded[p]: i of phase p's forwardRegistrations
    offers,    \* offers[p]: goroutines blocked in a send on registerChan
    taskChan,  \* taskChan[p]: task_chan
    held,      \* held[p]: what the dispatcher of schedule does
    wg,        \* wg[p]: the WaitGroup
    call,      \* call[c]: the RPC of a task, or that of killWorkers
    killed,    \* how many workers killWorkers is through with
    loop,      \* loop[w]: where the accept loop of worker w is
    nRPC, nTasks, concurrent,  \* of each worker
    files,     \* files[<<m, r>>]: the intermediate files
    results,   \* results[r]: the output of reduce task r
    output     \* what merge wrote

job == <<pc, workers, forwarded, offers, taskChan, held, wg, killed>>
worker == <<loop, nRPC, nTasks, concurrent>>
disk == <<files, results, output>>
vars == <<job, call, worker, disk>>

Phase == {"mapPhase", "reducePhase"}

NTasks(p) == IF p = "mapPhase" THEN NMap ELSE NReduce

TaskOf(p) == {p} \X (0 .. NTasks(p) - 1)

Task == UNION {TaskOf(p) : p \in Phase}

(* The Shutdown RPC, of which killWorkers has one at a time. *)
Shutdown == <<"shutdown", 0>>

Idle == [status |-> "none"]

Select == -1
Ended == -2

Init ==
    /\ pc = "mapPhase"
    /\ workers = <<>>
    /\ forwarded = [p \in Phase |-> 0]
    /\ offers = [p \in Phase |-> {}]
    /\ taskChan = [p \in Phase |-> [i \in 1 .. NTasks(p) |-> i - 1]]
    /\ held = [p \in Phase |-> IF p = "mapPhase" THEN Select ELSE Ended]
    /\ wg = [p \in Phase |-> NTasks(p)]
    /\ call = [c \in Task \cup {Shutdown} |-> Idle]
    /\ killed = 0
    /\ loop = [w \in Worker |-> "new"]
    /\ nRPC = NRPC
    /\ nTasks = [w \in Worker |-> 0] /\ concurrent = [w \in Worker |-> 0]
    /\ files = [f \in (0 .. NMap - 1) \X (0 .. NReduce - 1) |-> NoFile]
    /\ results = [r \in 0 .. NReduce - 1 |-> NoFile]
    /\ output = NoFile

-----------------------------------------------------------------------------
(* The master and schedule(). *)

(* killWorkers holds the master's mutex. *)
Locked == pc = "killWorkers"

(* The registration server runs until stopRPCServer. *)
Listening == pc \notin {"merge", "done"}

(* RunWorker up to its loop, and Master.Register.  A worker that cannot    *)
(* register goes on nevertheless.                                          *)
Register(w) ==
    /\ loop[w] = "new" /\ ~Locked
    /\ loop' = [loop EXCEPT ![w] = "check"]
    /\ workers' = IF Listening THEN Append(workers, w) ELSE workers
    /\ UNCHANGED <<pc, forwarded, offers, taskChan, held, wg, killed, call,
                   nRPC, nTasks, concurrent, disk>>

(* A turn of forwardRegistrations, which never ends: also the one of the   *)
(* map phase goes on, on a channel that nobody reads any more.             *)
ForwardRegistration(p) ==
    LET i == forwarded[p]
    IN  /\ p = "mapPhase" \/ pc # "mapPhase"
        /\ ~Locked /\ i < Len(workers)
        /\ forwarded' = [forwarded EXCEPT ![p] = i + 1]
        /\ offers' = [offers EXCEPT ![p] = @ \cup {<<"worker", i, workers[i + 1]>>}]
        /\ UNCHANGED <<pc, workers, taskChan, held, wg, killed, call, worker, disk>>

TakeTask(p) ==
    /\ held[p] = Select /\ taskChan[p] # <<>>
    /\ held' = [held EXCEPT ![p] = Head(taskChan[p])]
    /\ taskChan' = [taskChan EXCEPT ![p] = Tail(@)]
    /\ UNCHANGED <<pc, workers, forwarded, offers, wg, killed, call, worker, disk>>

BugAssign(p, o) ==
    /\ held[p] >= 0 /\ o \in offers[p]
    /\ call' = [call EXCEPT ![<<p, held[p]>>] = [status |-> "dial", worker |-> o[3]]]
    /\ held' = [held EXCEPT ![p] = Select]
    /\ UNCHANGED <<pc, workers, forwarded, offers, taskChan, wg, killed, worker, disk>>

(* The dispatcher receives a worker and starts the goroutine that calls it.*)
Assign(p, o) ==
    /\ held[p] >= 0 /\ o \in offers[p]
    /\ offers' = [offers EXCEPT ![p] = @ \ {o}]
    /\ call' = [call EXCEPT ![<<p, held[p]>>] = [status |-> "dial", worker |-> o[3]]]
    /\ held' = [held EXCEPT ![p] = Select]
    /\ UNCHANGED <<pc, workers, forwarded, taskChan, wg, killed, worker, disk>>

BugTaskDone(c) ==
    LET p == c[1]
    IN  /\ c \in Task /\ call[c].status = "ok"
        /\ wg' = [wg EXCEPT ![p] = @ - 1]
        /\ offers' = [offers EXCEPT ![p] = @ \cup {<<"task", c[2], call[c].worker>>}]
        /\ taskChan' = [taskChan EXCEPT ![p] = Append(@, c[2])]
        /\ call' = [call EXCEPT ![c] = Idle]
        /\ UNCHANGED <<pc, workers, forwarded, held, killed, worker, disk>>

(* DoTask answered: wg.Done, and the goroutine offers the worker again. *)
TaskDone(c) ==
    LET p == c[1]
    IN  /\ c \in Task /\ call[c].status = "ok"
        /\ wg' = [wg EXCEPT ![p] = @ - 1]
        /\ offers' = [offers EXCEPT ![p] = @ \cup {<<"task", c[2], call[c].worker>>}]
        /\ call' = [call EXCEPT ![c] = Idle]
        /\ UNCHANGED <<pc, workers, forwarded, taskChan, held, killed, worker, disk>>

BugTaskFailed(c) ==
    /\ c \in Task /\ call[c].status = "failed"
    /\ call' = [call EXCEPT ![c] = Idle]
    /\ UNCHANGED <<job, worker, disk>>

(* The call failed: the task goes back, the worker is not used any more. *)
TaskFailed(c) ==
    LET p == c[1]
    IN  /\ c \in Task /\ call[c].status = "failed"
        /\ Len(taskChan[p]) < NTasks(p)
        /\ taskChan' = [taskChan EXCEPT ![p] = Append(@, c[2])]
        /\ call' = [call EXCEPT ![c] = Idle]
        /\ UNCHANGED <<pc, workers, forwarded, offers, held, wg, killed, worker, disk>>

BugScheduleReturns(p) ==
    /\ pc = p /\ held[p] = Select /\ taskChan[p] = <<>>
    /\ pc' = IF p = "mapPhase" THEN "reducePhase" ELSE "killWorkers"
    /\ held' = [q \in Phase |-> IF p = "mapPhase" /\ q # p THEN Select ELSE Ended]
    /\ UNCHANGED <<workers, forwarded, offers, taskChan, wg, killed, call, worker, disk>>

(* wg.Wait and the handshake on task_completed; the next phase begins.     *)
ScheduleReturns(p) ==
    /\ pc = p /\ wg[p] = 0 /\ held[p] = Select
    /\ pc' = IF p = "mapPhase" THEN "reducePhase" ELSE "killWorkers"
    /\ held' = [q \in Phase |-> IF p = "mapPhase" /\ q # p THEN Select ELSE Ended]
    /\ UNCHANGED <<workers, forwarded, offers, taskChan, wg, killed, call, worker, disk>>

(* A turn of the loop of killWorkers. *)
KillWorker ==
    /\ pc = "killWorkers" /\ killed < Len(workers) /\ call[Shutdown] = Idle
    /\ call' = [call EXCEPT ![Shutdown] = [status |-> "dial",
                                           worker |-> workers[killed + 1]]]
    /\ UNCHANGED <<job, worker, disk>>

WorkerKilled ==
    /\ call[Shutdown].status \in {"ok", "failed"}
    /\ killed' = killed + 1
    /\ call' = [call EXCEPT ![Shutdown] = Idle]
    /\ UNCHANGED <<pc, workers, forwarded, offers, taskChan, held, wg, worker, disk>>

(* killWorkers returns; stopRPCServer.  Until then workers that wait for   *)
(* the mutex may register.                                                 *)
KillWorkersReturns ==
    /\ pc = "killWorkers" /\ killed = Len(workers) /\ call[Shutdown] = Idle
    /\ pc' = "stopRPCServer"
    /\ UNCHANGED <<workers, forwarded, offers, taskChan, held, wg, killed, call,
                   worker, disk>>

StopRPCServer ==
    /\ pc = "stopRPCServer" /\ pc' = "merge"
    /\ UNCHANGED <<workers, forwarded, offers, taskChan, held, wg, killed, call,
                   worker, disk>>

-----------------------------------------------------------------------------
(* call(), and the workers. *)

(* What call() does to the calls in S when the worker stops serving them. *)
Fail(S) == [c \in DOMAIN call |-> IF c \in S THEN [call[c] EXCEPT !.status = "failed"]
                                             ELSE call[c]]

At(w, statuses) ==
    {c \in DOMAIN call : call[c].status \in statuses /\ call[c].worker = w}

(* rpc.Dial: the connection waits to be accepted. *)
Dial(c) ==
    /\ call[c].status = "dial"
    /\ call' = [call EXCEPT ![c].status =
                  IF loop[call[c].worker] \in {"closed", "crashed"} THEN "failed"
                                                                  ELSE "queued"]
    /\ UNCHANGED <<job, worker, disk>>

(* The test of nRPC in RunWorker; at zero the listener is closed, and what *)
(* is served goes on.  In main/wc.go the process ends when RunWorker does, *)
(* with the call it still serves: Crash.                                   *)
CheckNRPC(w) ==
    /\ loop[w] = "check"
    /\ loop' = [loop EXCEPT ![w] = IF nRPC[w] = 0 THEN "closed" ELSE "accept"]
    /\ call' = IF nRPC[w] = 0 THEN Fail(At(w, {"queued"})) ELSE call
    /\ UNCHANGED <<job, nRPC, nTasks, concurrent, disk>>

Accept(w, c) ==
    /\ loop[w] = "accept" /\ c \in At(w, {"queued"})
    /\ loop' = [loop EXCEPT ![w] = "check"]
    /\ nRPC' = [nRPC EXCEPT ![w] = @ - 1]
    /\ call' = [call EXCEPT ![c].status = "served"]
    /\ UNCHANGED <<job, nTasks, concurrent, disk>>

ReduceOf(k) == IHash[k] % NReduce

(* doMap writes the pairs of reduce task r. *)
MapOutput(m, r) ==
    RestrictValues(Contents[m], LAMBDA kv : ReduceOf(kv[1]) = r)

Keys(list) == {list[i][1] : i \in DOMAIN list}

ValuesOf(k, list) == RestrictValues(list, LAMBDA kv : kv[1] = k)

BugReduceOutput(r) ==
    [k \in UNION {Keys(files[<<m, r>>]) : m \in 0 .. NMap - 1} |->
        [m \in 0 .. NMap - 1 |-> ValuesOf(k, files[<<0, r>>])]]

(* doReduce: for every key of its files, all its values. *)
ReduceOutput(r) ==
    [k \in UNION {Keys(files[<<m, r>>]) : m \in 0 .. NMap - 1} |->
        [m \in 0 .. NMap - 1 |-> ValuesOf(k, files[<<m, r>>])]]

Crashed(w) ==
    /\ loop' = [loop EXCEPT ![w] = "crashed"]
    /\ call' = Fail(At(w, {"queued", "served", "running"}))
    /\ UNCHANGED <<job, nRPC, disk>>

(* What makes DoTask call log.Fatal: another task is running at the same   *)
(* worker, or an input of the reduce task is not there.                    *)
IsFatal(c) ==
    \/ concurrent[call[c].worker] > 0
    \/ c[1] = "reducePhase" /\ \E m \in 0 .. NMap - 1 : files[<<m, c[2]>>] = NoFile

(* DoTask begins; a map task creates its files. *)
DoTask(c) ==
    LET w == call[c].worker
    IN  /\ c \in Task /\ call[c].status = "served"
        /\ nTasks' = [nTasks EXCEPT ![w] = @ + 1]
        /\ concurrent' = [concurrent EXCEPT ![w] = @ + 1]
        /\ IF IsFatal(c) THEN Crashed(w)
           ELSE /\ call' = [call EXCEPT ![c].status = "running"]
                /\ files' = IF c[1] = "mapPhase"
                            THEN [f \in DOMAIN files |->
                                    IF f[1] = c[2] THEN <<>> ELSE files[f]]
                            ELSE files
                /\ UNCHANGED <<job, loop, nRPC, results, output>>

(* DoTask writes its output and returns. *)
DoTaskReturns(c) ==
    LET w == call[c].worker
    IN  /\ c \in Task /\ call[c].status = "running"
        /\ concurrent' = [concurrent EXCEPT ![w] = @ - 1]
        /\ files' = IF c[1] = "mapPhase"
                    THEN [f \in DOMAIN files |-> IF f[1] = c[2] THEN MapOutput(f[1], f[2])
                                                                ELSE files[f]]
                    ELSE files
        /\ results' = IF c[1] = "reducePhase"
                      THEN [results EXCEPT ![c[2]] = ReduceOutput(c[2])] ELSE results
        /\ call' = [call EXCEPT ![c].status = "ok"]
        /\ UNCHANGED <<job, loop, nRPC, nTasks, output>>

(* Worker.Shutdown. *)
DoShutdown ==
    /\ call[Shutdown].status = "served"
    /\ nRPC' = [nRPC EXCEPT ![call[Shutdown].worker] = 1]
    /\ call' = [call EXCEPT ![Shutdown].status = "ok"]
    /\ UNCHANGED <<job, loop, nTasks, concurrent, disk>>

(* The process of worker w dies, in the middle of a task or not. *)
Crash(w) ==
    /\ w \in Mortal /\ loop[w] \in {"check", "accept", "closed"}
    /\ Crashed(w)
    /\ UNCHANGED <<nTasks, concurrent>>

(* merge: the outputs of the reduce tasks in one map. *)
Merge ==
    LET keys == UNION {DOMAIN results[r] : r \in DOMAIN results}
        last(k) == CHOOSE r \in DOMAIN results :
                      /\ k \in DOMAIN results[r]
                      /\ \A s \in DOMAIN results : s > r => k \notin DOMAIN results[s]
    IN  /\ pc = "merge" /\ pc' = "done"
        /\ output' = [k \in keys |-> results[last(k)][k]]
        /\ UNCHANGED <<workers, forwarded, offers, taskChan, held, wg, killed, call,
                       worker, files, results>>

Next ==
    \/ \E w \in Worker : Register(w) \/ CheckNRPC(w) \/ Crash(w)
    \/ \E w \in Worker, c \in Task \cup {Shutdown} : Accept(w, c)
    \/ \E p \in Phase : ForwardRegistration(p) \/ TakeTask(p) \/ ScheduleReturns(p)
    \/ \E p \in Phase : \E o \in offers[p] : Assign(p, o)
    \/ \E c \in Task : TaskDone(c) \/ TaskFailed(c) \/ DoTask(c) \/ DoTaskReturns(c)
    \/ \E c \in Task \cup {Shutdown} : Dial(c)
    \/ KillWorker \/ WorkerKilled \/ KillWorkersReturns \/ DoShutdown
    \/ StopRPCServer \/ Merge

Spec == Init /\ [][Next]_vars

(* Nobody is kept from running for ever; crashes need not happen. *)
Runs == Next /\ \A w \in Worker : loop[w] # "crashed" => loop'[w] # "crashed"

FairSpec == Spec /\ WF_vars(Runs)

-----------------------------------------------------------------------------
(* Properties. *)

CallState ==
    [status : {"none"}]
    \cup
    [status : {"dial", "queued", "served", "running", "ok", "failed"}, worker : Worker]

(* Every variable has its type: the WaitGroup is never negative, which Go  *)
(* answers with a panic, and task_chan never holds more than its capacity, *)
(* at which the goroutine of a failed call would block.                    *)
TypeOK ==
    /\ pc \in Phase \cup {"killWorkers", "stopRPCServer", "merge", "done"}
    /\ workers \in Seq(Worker)
    /\ \A p \in Phase :
          /\ forwarded[p] \in 0 .. Len(workers)
          /\ offers[p] \subseteq {"worker", "task"} \X Nat \X Worker
          /\ taskChan[p] \in Seq(0 .. NTasks(p) - 1) /\ Len(taskChan[p]) <= NTasks(p)
          /\ held[p] \in {Select, Ended} \cup 0 .. NTasks(p) - 1
          /\ wg[p] \in 0 .. NTasks(p)
    /\ call \in [Task \cup {Shutdown} -> CallState]
    /\ killed \in 0 .. Len(workers)
    /\ loop \in [Worker -> {"new", "check", "accept", "closed", "crashed"}]
    /\ nRPC \in [Worker -> Int]
    /\ nTasks \in [Worker -> Nat] /\ concurrent \in [Worker -> Nat]

(* schedule() never issues more than one RPC at a time to a given worker,  *)
(* on pain of log.Fatal in DoTask, although the goroutines of the last     *)
(* phase may still be offering it.                                         *)
OneRpcPerWorker ==
    \A w \in Worker : Cardinality(At(w, {"queued", "served", "running"})) <= 1

(* The tasks of a phase that are not complete: queued, with the dispatcher *)
(* or with a call.                                                         *)
Pending(p) ==
    {t \in 0 .. NTasks(p) - 1 :
        \/ \E i \in 1 .. Len(taskChan[p]) : taskChan[p][i] = t
        \/ held[p] = t
        \/ call[<<p, t>>] # Idle}

(* No failed call loses a task and none doubles it: the WaitGroup counts   *)
(* the tasks that are pending, and a task is in one place at a time.       *)
TasksAccountedFor ==
    \A p \in Phase :
        /\ wg[p] = Cardinality(Pending(p))
        /\ wg[p] = Len(taskChan[p]) + (IF held[p] >= 0 THEN 1 ELSE 0)
                    + Cardinality({c \in TaskOf(p) : call[c] # Idle})

(* While a reduce task runs every file it reads is complete: no map task,  *)
(* retried or late, is writing one (schedule, doMap, doReduce).            *)
ReduceInputsComplete ==
    \A r \in 0 .. NReduce - 1 :
        call[<<"reducePhase", r>>].status = "running" =>
            \A m \in 0 .. NMap - 1 : files[<<m, r>>] = MapOutput(m, r)

(* The job's output has every key of the input with all its values, no     *)
(* matter which workers failed at what and who did which task.             *)
OutputComplete ==
    pc = "done" =>
        output = [k \in UNION {Keys(Contents[m]) : m \in 0 .. NMap - 1} |->
                    [m \in 0 .. NMap - 1 |-> ValuesOf(k, Contents[m])]]

(* The job ends, if one worker registers, stays and has no limit. *)
JobCompletes == <>(pc = "done")

=============================================================================
