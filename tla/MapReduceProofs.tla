--------------------------- MODULE MapReduceProofs ---------------------------
(***************************************************************************)
(* Proofs about MapReduce: for any number of workers, crashes, RPC limits, *)
(* input files and reduce partitions, schedule() loses and doubles no      *)
(* task, no worker is asked to do two tasks at a time, and what the job    *)
(* writes is complete.                                                     *)
(***************************************************************************)
EXTENDS MapReduce, FiniteSetTheorems, TLAPS

(* The types, of functions as a whole. *)
JobTypeOK ==
    /\ pc \in Phase \cup {"killWorkers", "stopRPCServer", "merge", "done"}
    /\ workers \in Seq(Worker)
    /\ forwarded \in [Phase -> Nat]
    /\ \A p \in Phase : forwarded[p] <= Len(workers)
    /\ offers \in [Phase -> SUBSET ({"worker", "task"} \X Nat \X Worker)]
    /\ taskChan \in [Phase -> Seq(Nat)]
    /\ \A p \in Phase : taskChan[p] \in Seq(0 .. NTasks(p) - 1)
    /\ held \in [Phase -> Int]
    /\ \A p \in Phase : held[p] \in {Select, Ended} \cup 0 .. NTasks(p) - 1
    /\ wg \in [Phase -> Int]
    /\ call \in [Task \cup {Shutdown} -> CallState]
    /\ killed \in Nat /\ killed <= Len(workers)
    /\ loop \in [Worker -> {"new", "check", "accept", "closed", "crashed"}]
    /\ nRPC \in [Worker -> Int]
    /\ nTasks \in [Worker -> Nat] /\ concurrent \in [Worker -> Nat]
    /\ files = [f \in (0 .. NMap - 1) \X (0 .. NReduce - 1) |-> files[f]]
    /\ results = [r \in 0 .. NReduce - 1 |-> results[r]]

(* The calls of a phase that are under way. *)
Active(p) == {c \in TaskOf(p) : call[c] # Idle}

HeldCount(p) == IF held[p] >= 0 THEN 1 ELSE 0

(* A task is in one place at a time, and the WaitGroup counts the places.  *)
Accounting(p) ==
    /\ \A i, j \in 1 .. Len(taskChan[p]) : taskChan[p][i] = taskChan[p][j] => i = j
    /\ \A i \in 1 .. Len(taskChan[p]) :
          taskChan[p][i] # held[p] /\ call[<<p, taskChan[p][i]>>] = Idle
    /\ held[p] >= 0 => call[<<p, held[p]>>] = Idle
    /\ wg[p] = Len(taskChan[p]) + HeldCount(p) + Cardinality(Active(p))

(* A worker registers once. *)
RegisteredOnce ==
    /\ \A i, j \in 1 .. Len(workers) : workers[i] = workers[j] => i = j
    /\ \A i \in 1 .. Len(workers) : loop[workers[i]] # "new"

(* In a phase a worker that was forwarded is offered by one goroutine, or  *)
(* called by one, or not used any more.                                    *)
Uses(p) ==
    /\ \A o, q \in offers[p] : o[3] = q[3] => o = q
    /\ \A c, d \in Active(p) : call[c].worker = call[d].worker => c = d
    /\ \A o \in offers[p], c \in Active(p) : call[c].worker # o[3]
    /\ \A o \in offers[p] : loop[o[3]] # "new"
    /\ \A c \in Active(p) : loop[call[c].worker] # "new"
    /\ \A i \in 1 .. Len(workers) : i > forwarded[p] =>
          /\ \A o \in offers[p] : o[3] # workers[i]
          /\ \A c \in Active(p) : call[c].worker # workers[i]

(* The phases follow each other: nothing of the reduce phase happens       *)
(* before the map phase is over, and Shutdown comes after both.            *)
PhaseInv ==
    /\ pc = "mapPhase" => held["reducePhase"] = Ended /\ Active("reducePhase") = {}
    /\ pc # "mapPhase" => held["mapPhase"] = Ended /\ wg["mapPhase"] = 0
    /\ pc \notin Phase => held["reducePhase"] = Ended /\ wg["reducePhase"] = 0
    /\ call[Shutdown] # Idle => pc = "killWorkers" /\ killed < Len(workers)

(* DoTask and its return keep the count of the tasks that run. *)
RunInv ==
    \A c \in Task : call[c].status = "running" => concurrent[call[c].worker] >= 1

Unfinished(p, t) ==
    \/ \E i \in 1 .. Len(taskChan[p]) : taskChan[p][i] = t
    \/ held[p] = t
    \/ call[<<p, t>>].status \in {"dial", "queued", "served", "running", "failed"}

(* What reduce task r makes of the complete output of all map tasks. *)
FullOutput(r) ==
    [k \in UNION {Keys(MapOutput(m, r)) : m \in 0 .. NMap - 1} |->
        [m \in 0 .. NMap - 1 |-> ValuesOf(k, MapOutput(m, r))]]

(* What a finished task has written is there and complete. *)
DiskInv ==
    /\ \A m \in 0 .. NMap - 1, r \in 0 .. NReduce - 1 :
          Unfinished("mapPhase", m) \/ files[<<m, r>>] = MapOutput(m, r)
    /\ \A r \in 0 .. NReduce - 1 :
          Unfinished("reducePhase", r) \/ results[r] = FullOutput(r)

(* The inductive invariant. *)
JobInv ==
    /\ JobTypeOK
    /\ \A p \in Phase : Accounting(p) /\ Uses(p)
    /\ RegisteredOnce /\ PhaseInv /\ RunInv /\ DiskInv /\ OutputComplete

-----------------------------------------------------------------------------
(* Tasks and calls. *)

BusyStatus == {"dial", "queued", "served", "running", "ok", "failed"}

Busy == [status : BusyStatus, worker : Worker]

Callee == Task \cup {Shutdown}

(* What a task is: a phase and a number below its number of tasks. *)
LEMMA TaskFacts ==
    /\ \A p \in Phase : NTasks(p) \in Nat
    /\ \A p \in Phase : TaskOf(p) \subseteq Task
    /\ \A p \in Phase : \A t \in 0 .. NTasks(p) - 1 : <<p, t>> \in TaskOf(p)
    /\ \A p \in Phase : \A c \in TaskOf(p) :
          c[1] = p /\ c[2] \in 0 .. NTasks(p) - 1 /\ c = <<p, c[2]>>
    /\ \A c \in Task : c[1] \in Phase /\ c \in TaskOf(c[1])
    /\ Shutdown \notin Task
<1>1. \A p \in Phase : NTasks(p) \in Nat
  BY Zenon, JobAssumption DEF NTasks
<1>2. \A p \in Phase : TaskOf(p) \subseteq Task
  BY Zenon DEF Task
<1>3. \A p \in Phase : \A t \in 0 .. NTasks(p) - 1 : <<p, t>> \in TaskOf(p)
  BY Zenon DEF TaskOf
<1>4. \A p \in Phase : \A c \in TaskOf(p) :
         c[1] = p /\ c[2] \in 0 .. NTasks(p) - 1 /\ c = <<p, c[2]>>
  BY DEF TaskOf
<1>5. \A c \in Task : c[1] \in Phase /\ c \in TaskOf(c[1])
  BY Zenon, <1>4 DEF Task
<1>6. Shutdown \notin Task
  BY Zenon, <1>5 DEF Shutdown, Phase
<1> QED  BY Zenon, <1>1, <1>2, <1>3, <1>4, <1>5, <1>6

(* A call is idle, or it has a status and a worker. *)
LEMMA CallForm ==
    ASSUME NEW r \in CallState
    PROVE  \/ r = Idle /\ r.status = "none"
           \/ r # Idle /\ r \in Busy /\ r.status \in BusyStatus /\ r.worker \in Worker
BY DEF CallState, Idle, Busy, BusyStatus

(* A change of the status keeps the worker. *)
LEMMA BusyMoves ==
    ASSUME NEW r \in Busy, NEW s \in BusyStatus, NEW q, q = [r EXCEPT !.status = s]
    PROVE  q \in CallState /\ q # Idle /\ q.status = s /\ q.worker = r.worker
BY Zenon DEF Busy, BusyStatus, CallState, Idle

(* A call that starts. *)
LEMMA BusyStarts ==
    ASSUME NEW w \in Worker
    PROVE  LET q == [status |-> "dial", worker |-> w]
           IN  q \in CallState /\ q # Idle /\ q.status = "dial" /\ q.worker = w
BY Zenon DEF CallState, Idle

(* The size of an interval. *)
LEMMA IntervalSize ==
    ASSUME NEW n \in Nat
    PROVE  /\ IsFiniteSet(1 .. n) /\ Cardinality(1 .. n) = n
           /\ IsFiniteSet(0 .. n - 1) /\ Cardinality(0 .. n - 1) = n
<1>1. 0 \in Int /\ 1 \in Int /\ n \in Int /\ n - 1 \in Int
  OBVIOUS
<1>2. IsFiniteSet(1 .. n) /\ Cardinality(1 .. n) = IF 1 > n THEN 0 ELSE n - 1 + 1
  BY ONLY Zenon, <1>1, FS_Interval
<1>3. /\ IsFiniteSet(0 .. n - 1)
      /\ Cardinality(0 .. n - 1) = IF 0 > n - 1 THEN 0 ELSE (n - 1) - 0 + 1
  BY ONLY Zenon, <1>1, FS_Interval
<1> QED  BY <1>2, <1>3

(* The size of a disjoint union. *)
LEMMA DisjointUnion ==
    ASSUME NEW S, NEW T, IsFiniteSet(S), IsFiniteSet(T), S \cap T = {}
    PROVE  IsFiniteSet(S \cup T) /\ Cardinality(S \cup T) = Cardinality(S) + Cardinality(T)
<1>1. /\ IsFiniteSet(S \cup T)
      /\ Cardinality(S \cup T) = Cardinality(S) + Cardinality(T) - Cardinality(S \cap T)
  BY Zenon, FS_Union
<1>2. Cardinality(S) \in Nat /\ Cardinality(T) \in Nat
  BY Zenon, FS_CardinalityType
<1>3. Cardinality(S \cap T) = 0
  BY Zenon, FS_EmptySet
<1> QED  BY <1>1, <1>2, <1>3

(* The elements of a sequence. *)
LEMMA SeqElements ==
    ASSUME NEW S, NEW s \in Seq(S)
    PROVE  Len(s) \in Nat /\ \A i \in 1 .. Len(s) : s[i] \in S
OBVIOUS

(* What is in task_chan or with the dispatcher is a task. *)
LEMMA TaskNumbers ==
    ASSUME JobTypeOK, NEW p \in Phase
    PROVE  /\ Len(taskChan[p]) \in Nat
           /\ \A i \in 1 .. Len(taskChan[p]) : taskChan[p][i] \in 0 .. NTasks(p) - 1
           /\ held[p] >= 0 => held[p] \in 0 .. NTasks(p) - 1
<1>1. taskChan[p] \in Seq(0 .. NTasks(p) - 1)
  BY Zenon DEF JobTypeOK
<1>2. held[p] \in {Select, Ended} \cup 0 .. NTasks(p) - 1
  BY Zenon DEF JobTypeOK
<1>3. held[p] >= 0 => held[p] \in 0 .. NTasks(p) - 1
  BY <1>2 DEF Select, Ended
<1> QED  BY Zenon, <1>1, <1>3, SeqElements

(* The calls of a phase are finitely many. *)
LEMMA ActiveFinite ==
    ASSUME NEW p \in Phase
    PROVE  IsFiniteSet(Active(p)) /\ Cardinality(Active(p)) \in Nat
<1>1. IsFiniteSet({p}) /\ IsFiniteSet(0 .. NTasks(p) - 1)
  BY Zenon, TaskFacts, FS_Singleton, IntervalSize
<1>2. IsFiniteSet(TaskOf(p))
  BY Zenon, <1>1, FS_Product DEF TaskOf
<1>3. Active(p) \subseteq TaskOf(p)
  BY Zenon DEF Active
<1> QED  BY Zenon, <1>2, <1>3, FS_Subset, FS_CardinalityType

(* When the WaitGroup is at zero no task is left. *)
LEMMA NothingLeft ==
    ASSUME NEW p \in Phase, JobTypeOK, Accounting(p), wg[p] = 0
    PROVE  /\ taskChan[p] = <<>> /\ held[p] < 0 /\ Active(p) = {}
           /\ \A t \in 0 .. NTasks(p) - 1 : ~Unfinished(p, t)
<1>1. Len(taskChan[p]) \in Nat /\ HeldCount(p) \in {0, 1} /\ Cardinality(Active(p)) \in Nat
  BY ActiveFinite DEF JobTypeOK, HeldCount
<1>2. Len(taskChan[p]) = 0 /\ HeldCount(p) = 0 /\ Cardinality(Active(p)) = 0
  BY <1>1 DEF Accounting
<1>3. taskChan[p] = <<>> /\ held[p] < 0
  BY <1>2 DEF JobTypeOK, HeldCount
<1>4. Active(p) = {}
  BY Zenon, <1>2, ActiveFinite, FS_EmptySet
<1>5. ASSUME NEW t \in 0 .. NTasks(p) - 1 PROVE ~Unfinished(p, t)
  <2>1. call[<<p, t>>] = Idle
    BY Zenon, <1>4, TaskFacts DEF Active
  <2> QED  BY <2>1, <1>2, <1>3, TaskFacts DEF Unfinished, Idle
<1> QED  BY Zenon, <1>3, <1>4, <1>5

(* Two calls under way are to different workers: those of a phase by Uses, *)
(* and those of different phases are not under way together.               *)
LEMMA OneCall ==
    ASSUME JobInv, NEW c \in Callee, NEW d \in Callee, call[c] # Idle, call[d] # Idle,
           call[c].worker = call[d].worker
    PROVE  c = d
<1>1. \A e \in Callee : call[e] # Idle /\ e # Shutdown =>
          e[1] \in Phase /\ e \in Active(e[1])
  BY Zenon, TaskFacts DEF Callee, Active
<1>2. \A p \in Phase : wg[p] = 0 => Active(p) = {}
  BY Zenon, NothingLeft DEF JobInv
<1>3. \A e \in Callee : call[e] # Idle =>
          \/ e = Shutdown /\ pc = "killWorkers"
          \/ e # Shutdown /\ e[1] = "mapPhase" /\ pc = "mapPhase"
          \/ e # Shutdown /\ e[1] = "reducePhase" /\ pc = "reducePhase"
  BY Zenon, <1>1, <1>2 DEF JobInv, PhaseInv, Phase
<1>4. CASE c = Shutdown
  BY Zenon, <1>3, <1>4
<1>5. CASE c # Shutdown
  <2>1. d # Shutdown /\ d[1] = c[1]
    BY Zenon, <1>3, <1>5
  <2> QED  BY Zenon, <2>1, <1>1, <1>5 DEF JobInv, Uses
<1> QED  BY Zenon, <1>4, <1>5

-----------------------------------------------------------------------------
(* What the invariant says of the tasks. *)

(* A sequence without repetition has as many elements as its length. *)
LEMMA SeqCardinality ==
    ASSUME NEW S, NEW s \in Seq(S),
           \A i, j \in 1 .. Len(s) : s[i] = s[j] => i = j
    PROVE  LET T == {x \in S : \E i \in 1 .. Len(s) : s[i] = x}
           IN  IsFiniteSet(T) /\ Cardinality(T) = Len(s)
<1> DEFINE T == {x \in S : \E i \in 1 .. Len(s) : s[i] = x}
           f == [i \in 1 .. Len(s) |-> s[i]]
<1>1. Len(s) \in Nat /\ \A i \in 1 .. Len(s) : s[i] \in S
  OBVIOUS
<1>2. f \in Bijection(1 .. Len(s), T)
  BY Zenon, <1>1 DEF Bijection, Injection, Surjection, IsInjective
<1>3. ExistsBijection(1 .. Len(s), T)
  BY Zenon, <1>2 DEF ExistsBijection
<1>4. /\ IsFiniteSet(1 .. Len(s))
      /\ Cardinality(1 .. Len(s)) = Len(s)
  BY Zenon, <1>1, IntervalSize
<1> QED  BY Zenon, <1>3, <1>4, FS_Bijection

(* The tasks whose call is under way are as many as the calls. *)
LEMMA ActiveTasks ==
    ASSUME NEW p \in Phase
    PROVE  LET T == {t \in 0 .. NTasks(p) - 1 : call[<<p, t>>] # Idle}
           IN  IsFiniteSet(T) /\ Cardinality(T) = Cardinality(Active(p))
<1> DEFINE T == {t \in 0 .. NTasks(p) - 1 : call[<<p, t>>] # Idle}
           f == [c \in Active(p) |-> c[2]]
<1>1. \A c \in Active(p) : c[2] \in T /\ c = <<p, c[2]>>
  BY Zenon, TaskFacts DEF Active
<1>2. \A t \in T : <<p, t>> \in Active(p) /\ f[<<p, t>>] = t
  BY Zenon, TaskFacts DEF Active
<1> HIDE DEF T
<1>3. f \in Bijection(Active(p), T)
  <2>1. f \in [Active(p) -> T]
    BY Zenon, <1>1
  <2>2. \A c, d \in Active(p) : f[c] = f[d] => c = d
    BY Zenon, <1>1
  <2>3. \A t \in T : \E c \in Active(p) : f[c] = t
    BY Zenon, <1>2
  <2> QED  BY Zenon, <2>1, <2>2, <2>3 DEF Bijection, Injection, Surjection, IsInjective
<1>4. ExistsBijection(Active(p), T)
  BY Zenon, <1>3 DEF ExistsBijection
<1> QED  BY Zenon, <1>4, ActiveFinite, FS_Bijection DEF T

(* The WaitGroup counts the pending tasks: the places of a task are        *)
(* disjoint.                                                               *)
LEMMA PendingCounted ==
    ASSUME NEW p \in Phase, JobTypeOK, Accounting(p)
    PROVE  wg[p] = Cardinality(Pending(p)) /\ wg[p] \in 0 .. NTasks(p)
           /\ Len(taskChan[p]) <= NTasks(p)
<1> DEFINE N == 0 .. NTasks(p) - 1
           Q == {t \in N : \E i \in 1 .. Len(taskChan[p]) : taskChan[p][i] = t}
           H == {t \in N : held[p] = t}
           A == {t \in N : call[<<p, t>>] # Idle}
<1>1. IsFiniteSet(Q) /\ Cardinality(Q) = Len(taskChan[p])
  BY Zenon, SeqCardinality DEF JobTypeOK, Accounting
<1>2. IsFiniteSet(A) /\ Cardinality(A) = Cardinality(Active(p))
  BY Zenon, ActiveTasks
<1>3. IsFiniteSet(H) /\ Cardinality(H) = HeldCount(p)
  <2>1. CASE held[p] >= 0
    <3>1. H = {held[p]}
      <4>1. held[p] \in {Select, Ended} \cup N
        BY Zenon DEF JobTypeOK
      <4> QED  BY <2>1, <4>1 DEF Select, Ended
    <3> QED  BY Zenon, <2>1, <3>1, FS_Singleton DEF HeldCount
  <2>2. CASE ~(held[p] >= 0)
    <3>1. H = {}
      BY <2>2, TaskFacts
    <3> QED  BY Zenon, <2>2, <3>1, FS_EmptySet DEF HeldCount
  <2> QED  BY Zenon, <2>1, <2>2
<1>4. Pending(p) = (Q \cup H) \cup A
  BY Zenon DEF Pending
<1>5. Q \cap H = {} /\ (Q \cup H) \cap A = {}
  BY DEF Accounting
<1>6. Len(taskChan[p]) \in Nat /\ HeldCount(p) \in Nat /\ Cardinality(Active(p)) \in Nat
  BY ActiveFinite DEF JobTypeOK, HeldCount
<1> HIDE DEF Q, H, A
<1>7. IsFiniteSet(Q \cup H) /\ Cardinality(Q \cup H) = Len(taskChan[p]) + HeldCount(p)
  <2>1. IsFiniteSet(Q \cup H) /\ Cardinality(Q \cup H) = Cardinality(Q) + Cardinality(H)
    BY Zenon, <1>1, <1>3, <1>5, DisjointUnion
  <2> QED  BY Zenon, <2>1, <1>1, <1>3
<1>8. Cardinality(Pending(p)) = Len(taskChan[p]) + HeldCount(p) + Cardinality(Active(p))
  BY Zenon, <1>2, <1>4, <1>5, <1>7, DisjointUnion
<1>9. NTasks(p) \in Nat /\ Pending(p) \subseteq N
  BY Zenon, TaskFacts DEF Pending
<1>10. IsFiniteSet(N) /\ Cardinality(N) = NTasks(p)
  BY Zenon, <1>9, IntervalSize
<1>11. Cardinality(Pending(p)) <= NTasks(p)
  BY Zenon, <1>9, <1>10, FS_Subset
<1> QED  BY <1>6, <1>8, <1>9, <1>11 DEF Accounting

-----------------------------------------------------------------------------
(* The steps of call() and of the workers: they move calls on. *)

(* What such a step does to the calls and to the accept loops. *)
Progress ==
    /\ UNCHANGED job
    /\ call' \in [Callee -> CallState]
    /\ \A c \in Callee :
          /\ call'[c] = Idle <=> call[c] = Idle
          /\ call[c] # Idle => call'[c].worker = call[c].worker
    /\ loop' \in [Worker -> {"new", "check", "accept", "closed", "crashed"}]
    /\ \A w \in Worker : loop[w] # "new" => loop'[w] # "new"

(* It changes nothing in the accounts of schedule(). *)
LEMMA ProgressKeeps ==
    ASSUME JobInv, Progress
    PROVE  (\A p \in Phase : Accounting(p) /\ Uses(p))' /\ RegisteredOnce' /\ PhaseInv'
<1>1. ASSUME NEW p \in Phase PROVE Active(p)' = Active(p)
  BY Zenon, TaskFacts DEF Active, Progress, Callee
<1>2. UNCHANGED <<pc, workers, forwarded, offers, taskChan, held, wg, killed>>
  BY Zenon DEF Progress, job
<1>3. ASSUME NEW p \in Phase PROVE Accounting(p)'
  <2>1. \A t \in 0 .. NTasks(p) - 1 : call'[<<p, t>>] = Idle <=> call[<<p, t>>] = Idle
    BY Zenon, TaskFacts DEF Progress, Callee
  <2>2. /\ \A i \in 1 .. Len(taskChan[p]) : taskChan[p][i] \in 0 .. NTasks(p) - 1
        /\ held[p] >= 0 => held[p] \in 0 .. NTasks(p) - 1
    BY Zenon, TaskNumbers DEF JobInv
  <2>4. HeldCount(p)' = HeldCount(p)
    BY Zenon, <1>2 DEF HeldCount
  <2>5. Accounting(p)
    BY Zenon DEF JobInv
  <2> QED  BY Zenon, <1>1, <1>2, <2>1, <2>2, <2>4, <2>5 DEF Accounting
<1>4. ASSUME NEW p \in Phase PROVE Uses(p)'
  <2>1. \A c \in Active(p) : c \in Callee /\ call[c] # Idle
                             /\ call'[c].worker = call[c].worker /\ call[c].worker \in Worker
    BY Zenon, TaskFacts, CallForm DEF Active, Progress, Callee, JobInv, JobTypeOK
  <2>2. \A o \in offers[p] : o[3] \in Worker
    BY DEF JobInv, JobTypeOK
  <2>3. Uses(p) /\ \A w \in Worker : loop[w] # "new" => loop'[w] # "new"
    BY Zenon DEF JobInv, Progress
  <2> QED  BY <1>1, <1>2, <2>1, <2>2, <2>3 DEF Uses
<1>5. RegisteredOnce'
  <2>1. \A i \in 1 .. Len(workers) : workers[i] \in Worker
    BY DEF JobInv, JobTypeOK
  <2> QED  BY Zenon, <1>2, <2>1 DEF RegisteredOnce, JobInv, Progress
<1>6. PhaseInv'
  <2>1. call'[Shutdown] = Idle <=> call[Shutdown] = Idle
    BY Zenon DEF Progress, Callee
  <2> QED  BY Zenon, <1>1, <1>2, <2>1 DEF PhaseInv, JobInv, Phase
<1> QED  BY Zenon, <1>3, <1>4, <1>5, <1>6

(* The statuses of a task that is not finished. *)
Unserved == {"dial", "queued", "served", "running", "failed"}

(* A step that neither finishes a task nor touches the disk, and starts no *)
(* task.                                                                   *)
Quiet ==
    /\ UNCHANGED disk
    /\ nRPC' \in [Worker -> Int]
    /\ nTasks' \in [Worker -> Nat] /\ concurrent' \in [Worker -> Nat]
    /\ \A w \in Worker : concurrent'[w] >= concurrent[w]
    /\ \A c \in Task : call[c].status \in Unserved => call'[c].status \in Unserved
    /\ \A c \in Task : call'[c].status = "running" => call[c].status = "running"

(* Such a step keeps the invariant. *)
LEMMA QuietKeeps ==
    ASSUME JobInv, Progress, Quiet
    PROVE  JobInv'
<1>1. UNCHANGED <<pc, workers, forwarded, offers, taskChan, held, wg, killed>>
  BY Zenon DEF Progress, job
<1>2. UNCHANGED <<files, results, output>>
  BY Zenon DEF Quiet, disk
<1>3. JobTypeOK'
  BY Zenon, <1>1, <1>2 DEF JobInv, JobTypeOK, Progress, Quiet, Callee
<1>4. RunInv'
  <2> SUFFICES ASSUME NEW c \in Task, call'[c].status = "running"
               PROVE  concurrent'[call'[c].worker] >= 1
    BY Zenon DEF RunInv
  <2>1. call[c].status = "running" /\ c \in Callee
    BY Zenon DEF Quiet, Callee
  <2>2. call[c] # Idle /\ call[c].worker \in Worker
    BY Zenon, <2>1, CallForm DEF JobInv, JobTypeOK, Callee
  <2>3. concurrent[call[c].worker] >= 1
    BY Zenon, <2>1 DEF JobInv, RunInv
  <2>4. call'[c].worker = call[c].worker
    BY Zenon, <2>1, <2>2 DEF Progress
  <2> QED  BY <2>2, <2>3, <2>4 DEF Quiet, JobInv, JobTypeOK
<1>5. DiskInv'
  <2>1. ASSUME NEW p \in Phase, NEW t \in 0 .. NTasks(p) - 1, Unfinished(p, t)
        PROVE  Unfinished(p, t)'
    BY Zenon, <1>1, <2>1, TaskFacts DEF Unfinished, Quiet, Unserved
  <2>2. \A m \in 0 .. NMap - 1 : Unfinished("mapPhase", m) => Unfinished("mapPhase", m)'
    BY Zenon, <2>1 DEF NTasks, Phase
  <2>3. \A r \in 0 .. NReduce - 1 :
           Unfinished("reducePhase", r) => Unfinished("reducePhase", r)'
    BY Zenon, <2>1 DEF NTasks, Phase
  <2> QED  BY Zenon, <1>2, <2>2, <2>3 DEF DiskInv, JobInv
<1>6. OutputComplete'
  BY Zenon, <1>1, <1>2 DEF JobInv, OutputComplete
<1> QED  BY Zenon, <1>3, <1>4, <1>5, <1>6, ProgressKeeps DEF JobInv

(* The calls that a worker drops fail, the others stay. *)
LEMMA FailProgress ==
    ASSUME JobTypeOK, NEW w, NEW S \in SUBSET BusyStatus,
           "ok" \notin S, call' = Fail(At(w, S))
    PROVE  /\ call' \in [Callee -> CallState]
           /\ \A c \in Callee :
                 /\ call'[c] = Idle <=> call[c] = Idle
                 /\ call[c] # Idle => call'[c].worker = call[c].worker
           /\ \A c \in Task : call[c].status \in Unserved => call'[c].status \in Unserved
           /\ \A c \in Task : call'[c].status = "running" =>
                 call[c].status = "running" /\ c \notin At(w, S)
<1>1. DOMAIN call = Callee /\ \A c \in Callee : call[c] \in CallState
  BY Zenon DEF JobTypeOK, Callee
<1>2. call' = [c \in Callee |-> IF c \in At(w, S) THEN [call[c] EXCEPT !.status = "failed"]
                                                  ELSE call[c]]
  BY Zenon, <1>1 DEF Fail
<1>3. ASSUME NEW c \in Callee
      PROVE  /\ call'[c] \in CallState
             /\ call'[c] = Idle <=> call[c] = Idle
             /\ call[c] # Idle => call'[c].worker = call[c].worker
             /\ call[c].status \in Unserved => call'[c].status \in Unserved
             /\ call'[c].status = "running" =>
                   call[c].status = "running" /\ c \notin At(w, S)
  <2>1. CASE c \in At(w, S)
    <3>1. call[c] # Idle /\ call[c] \in Busy
      BY Zenon, <1>1, <2>1, CallForm DEF At, BusyStatus
    <3>2. call'[c] = [call[c] EXCEPT !.status = "failed"]
      BY Zenon, <1>2, <2>1
    <3>3. /\ call'[c] \in CallState /\ call'[c] # Idle
          /\ call'[c].status = "failed" /\ call'[c].worker = call[c].worker
      BY <3>1, <3>2, BusyMoves DEF BusyStatus
    <3> QED  BY Zenon, <3>1, <3>3 DEF Unserved
  <2>2. CASE c \notin At(w, S)
    BY Zenon, <1>1, <1>2, <2>2
  <2> QED  BY Zenon, <2>1, <2>2
<1> QED  BY Zenon, <1>2, <1>3 DEF Callee

(* One call gets another status. *)
LEMMA MoveProgress ==
    ASSUME JobTypeOK, NEW c \in Callee, call[c] # Idle, NEW s \in BusyStatus,
           call' = [call EXCEPT ![c].status = s]
    PROVE  /\ call' \in [Callee -> CallState]
           /\ \A d \in Callee :
                 /\ call'[d] = Idle <=> call[d] = Idle
                 /\ call[d] # Idle => call'[d].worker = call[d].worker
                 /\ d # c => call'[d] = call[d]
           /\ call'[c].status = s
<1>1. call \in [Callee -> CallState]
  BY Zenon DEF JobTypeOK, Callee
<1>2. call[c] \in Busy
  BY Zenon, <1>1, CallForm
<1>3. call'[c] = [call[c] EXCEPT !.status = s]
  BY Zenon, <1>1
<1>4. call'[c] \in CallState /\ call'[c] # Idle /\ call'[c].status = s
      /\ call'[c].worker = call[c].worker
  BY <1>2, <1>3, BusyMoves
<1>5. \A d \in Callee : d # c => call'[d] = call[d]
  BY Zenon, <1>1
<1>6. DOMAIN call' = Callee /\ call' = [d \in Callee |-> call'[d]]
  BY Zenon, <1>1
<1> QED  BY Zenon, <1>1, <1>4, <1>5, <1>6

(* A step with the same counts that changes the statuses accordingly. *)
LEMMA QuietStep ==
    ASSUME JobTypeOK, UNCHANGED <<nTasks, concurrent, disk>>, nRPC' \in [Worker -> Int],
           \A c \in Task : call[c].status \in Unserved => call'[c].status \in Unserved,
           \A c \in Task : call'[c].status = "running" => call[c].status = "running"
    PROVE  Quiet
<1>1. \A w \in Worker : concurrent'[w] \in Nat /\ concurrent'[w] = concurrent[w]
  BY Zenon DEF JobTypeOK
<1>2. nTasks' \in [Worker -> Nat] /\ concurrent' \in [Worker -> Nat]
  BY Zenon DEF JobTypeOK
<1>3. \A w \in Worker : concurrent'[w] >= concurrent[w]
  BY <1>1
<1> QED  BY Zenon, <1>2, <1>3 DEF Quiet

(* rpc.Dial keeps the invariant. *)
LEMMA DialKeeps ==
    ASSUME JobInv, NEW c \in Callee, Dial(c)
    PROVE  JobInv'
<1>1. JobTypeOK /\ call[c] # Idle
  BY DEF JobInv, Dial, Idle
<1>2. PICK s \in {"failed", "queued"} : call' = [call EXCEPT ![c].status = s]
  BY Zenon DEF Dial
<1>3. /\ call' \in [Callee -> CallState]
      /\ \A d \in Callee :
            /\ call'[d] = Idle <=> call[d] = Idle
            /\ call[d] # Idle => call'[d].worker = call[d].worker
            /\ d # c => call'[d] = call[d]
      /\ call'[c].status = s
  BY Zenon, <1>1, <1>2, MoveProgress DEF BusyStatus
<1>4. UNCHANGED <<job, worker, disk>>
  BY Zenon DEF Dial
<1>5. Progress
  BY Zenon, <1>1, <1>3, <1>4 DEF Progress, worker, JobTypeOK
<1>6. Quiet
  <2>1. UNCHANGED <<nRPC, nTasks, concurrent>>
    BY Zenon, <1>4 DEF worker
  <2>2. \A d \in Task : d # c => call'[d] = call[d]
    BY Zenon, <1>3 DEF Callee
  <2>3. /\ \A d \in Task : call[d].status \in Unserved => call'[d].status \in Unserved
        /\ \A d \in Task : call'[d].status = "running" => call[d].status = "running"
    BY Zenon, <1>3, <2>2 DEF Unserved
  <2>4. nRPC' \in [Worker -> Int]
    BY Zenon, <1>1, <2>1 DEF JobTypeOK
  <2> QED  BY Zenon, <1>1, <1>4, <2>1, <2>3, <2>4, QuietStep
<1> QED  BY Zenon, <1>5, <1>6, QuietKeeps

(* The test of nRPC keeps the invariant: at zero the listener is closed    *)
(* and the connections that wait fail.                                     *)
LEMMA CheckKeeps ==
    ASSUME JobInv, NEW w \in Worker, CheckNRPC(w)
    PROVE  JobInv'
<1>1. JobTypeOK /\ UNCHANGED <<job, nRPC, nTasks, concurrent, disk>>
  BY Zenon DEF JobInv, CheckNRPC
<1>2. /\ loop' \in [Worker -> {"new", "check", "accept", "closed", "crashed"}]
      /\ \A v \in Worker : loop[v] # "new" => loop'[v] # "new"
  BY Zenon, <1>1 DEF CheckNRPC, JobTypeOK
<1>3. /\ call' \in [Callee -> CallState]
      /\ \A c \in Callee :
            /\ call'[c] = Idle <=> call[c] = Idle
            /\ call[c] # Idle => call'[c].worker = call[c].worker
      /\ \A c \in Task : call[c].status \in Unserved => call'[c].status \in Unserved
      /\ \A c \in Task : call'[c].status = "running" => call[c].status = "running"
  <2>1. CASE nRPC[w] = 0
    <3>1. call' = Fail(At(w, {"queued"}))
      BY Zenon, <2>1 DEF CheckNRPC
    <3> QED  BY Zenon, <1>1, <3>1, FailProgress DEF BusyStatus
  <2>2. CASE nRPC[w] # 0
    <3>1. call' = call
      BY Zenon, <2>2 DEF CheckNRPC
    <3> QED  BY Zenon, <1>1, <3>1 DEF JobTypeOK, Callee
  <2> QED  BY Zenon, <2>1, <2>2
<1>4. Progress
  BY Zenon, <1>1, <1>2, <1>3 DEF Progress
<1>5. nRPC' \in [Worker -> Int]
  BY Zenon, <1>1 DEF JobTypeOK
<1>6. Quiet
  BY Zenon, <1>1, <1>3, <1>5, QuietStep
<1> QED  BY Zenon, <1>4, <1>6, QuietKeeps

(* Accept keeps the invariant. *)
LEMMA AcceptKeeps ==
    ASSUME JobInv, NEW w \in Worker, NEW c \in Callee, Accept(w, c)
    PROVE  JobInv'
<1>1. JobTypeOK /\ UNCHANGED <<job, nTasks, concurrent, disk>>
  BY Zenon DEF JobInv, Accept
<1>2. /\ loop' \in [Worker -> {"new", "check", "accept", "closed", "crashed"}]
      /\ \A v \in Worker : loop[v] # "new" => loop'[v] # "new"
      /\ nRPC' \in [Worker -> Int]
  BY <1>1 DEF Accept, JobTypeOK
<1>3. call[c] # Idle /\ call[c].status = "queued"
  BY DEF Accept, At, Idle
<1>4. /\ call' \in [Callee -> CallState]
      /\ \A d \in Callee :
            /\ call'[d] = Idle <=> call[d] = Idle
            /\ call[d] # Idle => call'[d].worker = call[d].worker
            /\ d # c => call'[d] = call[d]
      /\ call'[c].status = "served"
  BY Zenon, <1>1, <1>3, MoveProgress DEF BusyStatus, Accept
<1>5. Progress
  BY Zenon, <1>1, <1>2, <1>4 DEF Progress
<1>6. Quiet
  <2>1. \A d \in Task : d # c => call'[d] = call[d]
    BY Zenon, <1>4 DEF Callee
  <2>2. /\ \A d \in Task : call[d].status \in Unserved => call'[d].status \in Unserved
        /\ \A d \in Task : call'[d].status = "running" => call[d].status = "running"
    BY Zenon, <1>4, <2>1 DEF Unserved
  <2> QED  BY Zenon, <1>1, <1>2, <2>2, QuietStep
<1> QED  BY Zenon, <1>5, <1>6, QuietKeeps

(* Worker.Shutdown keeps the invariant. *)
LEMMA DoShutdownKeeps ==
    ASSUME JobInv, DoShutdown
    PROVE  JobInv'
<1>1. JobTypeOK /\ UNCHANGED <<job, loop, nTasks, concurrent, disk>>
  BY Zenon DEF JobInv, DoShutdown
<1>2. Shutdown \in Callee /\ call[Shutdown] # Idle
  BY DEF DoShutdown, Idle, Callee
<1>3. /\ call' \in [Callee -> CallState]
      /\ \A d \in Callee :
            /\ call'[d] = Idle <=> call[d] = Idle
            /\ call[d] # Idle => call'[d].worker = call[d].worker
            /\ d # Shutdown => call'[d] = call[d]
      /\ call'[Shutdown].status = "ok"
  BY Zenon, <1>1, <1>2, MoveProgress DEF BusyStatus, DoShutdown
<1>4. \A d \in Task : call'[d] = call[d]
  BY Zenon, <1>3, TaskFacts DEF Callee
<1>5. Progress
  BY Zenon, <1>1, <1>3 DEF Progress, JobTypeOK
<1>6. Quiet
  <2>1. nRPC' \in [Worker -> Int]
    <3>1. nRPC \in [Worker -> Int]
      BY Zenon, <1>1 DEF JobTypeOK
    <3>2. PICK v \in Worker : nRPC' = [nRPC EXCEPT ![v] = 1]
      <4>1. call[Shutdown].worker \in Worker
        BY Zenon, <1>1, <1>2, CallForm DEF JobTypeOK, Callee
      <4> QED  BY Zenon, <4>1 DEF DoShutdown
    <3> QED  BY ONLY <3>1, <3>2
  <2> QED  BY Zenon, <1>1, <1>4, <2>1, QuietStep
<1> QED  BY Zenon, <1>5, <1>6, QuietKeeps

(* The death of a worker's process keeps the invariant, whether it comes   *)
(* from outside or from log.Fatal in DoTask, which has counted the task.   *)
LEMMA CrashedKeeps ==
    ASSUME JobInv, NEW w \in Worker, Crashed(w),
           nTasks' \in [Worker -> Nat], concurrent' \in [Worker -> Nat],
           \A v \in Worker : concurrent'[v] >= concurrent[v]
    PROVE  JobInv'
<1>1. JobTypeOK /\ UNCHANGED <<job, nRPC, disk>>
  BY Zenon DEF JobInv, Crashed
<1>2. /\ loop' \in [Worker -> {"new", "check", "accept", "closed", "crashed"}]
      /\ \A v \in Worker : loop[v] # "new" => loop'[v] # "new"
  BY Zenon, <1>1 DEF Crashed, JobTypeOK
<1>3. /\ call' \in [Callee -> CallState]
      /\ \A c \in Callee :
            /\ call'[c] = Idle <=> call[c] = Idle
            /\ call[c] # Idle => call'[c].worker = call[c].worker
      /\ \A c \in Task : call[c].status \in Unserved => call'[c].status \in Unserved
      /\ \A c \in Task : call'[c].status = "running" => call[c].status = "running"
  <2>1. call' = Fail(At(w, {"queued", "served", "running"}))
    BY Zenon DEF Crashed
  <2> QED  BY Zenon, <1>1, <2>1, FailProgress DEF BusyStatus
<1>4. Progress
  BY Zenon, <1>1, <1>2, <1>3 DEF Progress
<1>5. Quiet
  BY Zenon, <1>1, <1>3 DEF Quiet, JobTypeOK
<1> QED  BY Zenon, <1>4, <1>5, QuietKeeps

(* While a reduce task is called, the files of all map tasks are complete. *)
LEMMA MapComplete ==
    ASSUME JobInv, NEW c \in TaskOf("reducePhase"), call[c] # Idle
    PROVE  \A m \in 0 .. NMap - 1, r \in 0 .. NReduce - 1 : files[<<m, r>>] = MapOutput(m, r)
<1>1. c \in Active("reducePhase") /\ "mapPhase" \in Phase /\ NTasks("mapPhase") = NMap
  BY Zenon DEF Active, Phase, NTasks
<1>2. wg["mapPhase"] = 0
  BY Zenon, <1>1 DEF JobInv, PhaseInv
<1>3. \A m \in 0 .. NMap - 1 : ~Unfinished("mapPhase", m)
  BY Zenon, <1>1, <1>2, NothingLeft DEF JobInv
<1> QED  BY Zenon, <1>3 DEF JobInv, DiskInv

(* DoTask keeps the invariant: it empties only files of a task that is not *)
(* finished.                                                               *)
LEMMA DoTaskKeeps ==
    ASSUME JobInv, NEW c \in Task, DoTask(c)
    PROVE  JobInv'
<1> DEFINE w == call[c].worker
<1>1. c \in Callee /\ call[c] # Idle /\ call[c].status = "served"
  BY DEF Callee, DoTask, Idle
<1>2. JobTypeOK /\ w \in Worker
  BY Zenon, <1>1, CallForm DEF JobInv, JobTypeOK, Callee
<1>3. /\ nTasks' = [nTasks EXCEPT ![w] = @ + 1]
      /\ concurrent' = [concurrent EXCEPT ![w] = @ + 1]
  BY Zenon DEF DoTask
<1>4. nTasks \in [Worker -> Nat] /\ concurrent \in [Worker -> Nat]
  BY Zenon, <1>2 DEF JobTypeOK
<1> HIDE DEF w
<1>5. /\ nTasks' \in [Worker -> Nat] /\ concurrent' \in [Worker -> Nat]
      /\ \A v \in Worker : concurrent'[v] >= concurrent[v]
      /\ concurrent'[w] >= 1
  BY <1>2, <1>3, <1>4
<1>6. CASE IsFatal(c)
  <2>1. Crashed(w)
    BY Zenon, <1>6 DEF DoTask, w
  <2> QED  BY Zenon, <1>2, <1>5, <2>1, CrashedKeeps
<1>7. CASE ~IsFatal(c)
  <2>1. /\ call' = [call EXCEPT ![c].status = "running"]
        /\ files' = IF c[1] = "mapPhase"
                    THEN [f \in DOMAIN files |-> IF f[1] = c[2] THEN <<>> ELSE files[f]]
                    ELSE files
        /\ UNCHANGED <<job, loop, nRPC, results, output>>
    BY Zenon, <1>7 DEF DoTask
  <2>2. /\ call' \in [Callee -> CallState]
        /\ \A d \in Callee :
              /\ call'[d] = Idle <=> call[d] = Idle
              /\ call[d] # Idle => call'[d].worker = call[d].worker
              /\ d # c => call'[d] = call[d]
        /\ call'[c].status = "running"
    BY Zenon, <1>1, <1>2, <2>1, MoveProgress DEF BusyStatus
  <2>3. Progress
    BY Zenon, <1>2, <2>1, <2>2 DEF Progress, JobTypeOK
  <2>4. UNCHANGED <<pc, workers, forwarded, offers, taskChan, held, wg, killed>>
    BY Zenon, <2>1 DEF job
  <2>5. files' = [f \in (0 .. NMap - 1) \X (0 .. NReduce - 1) |->
                    IF c[1] = "mapPhase" /\ f[1] = c[2] THEN <<>> ELSE files[f]]
    BY Zenon, <1>2, <2>1 DEF JobTypeOK
  <2>6. JobTypeOK'
    <3>1. files' = [f \in (0 .. NMap - 1) \X (0 .. NReduce - 1) |-> files'[f]]
      BY ONLY Zenon, <2>5
    <3>2. results' = [r \in 0 .. NReduce - 1 |-> results'[r]]
      BY Zenon, <1>2, <2>1 DEF JobTypeOK
    <3> QED  BY Zenon, <1>2, <1>5, <2>1, <2>2, <2>4, <3>1, <3>2 DEF JobTypeOK, Callee
  <2>7. RunInv'
    <3> SUFFICES ASSUME NEW d \in Task, call'[d].status = "running"
                 PROVE  concurrent'[call'[d].worker] >= 1
      BY Zenon DEF RunInv
    <3>1. CASE d = c
      BY Zenon, <1>1, <1>5, <2>2, <3>1 DEF w
    <3>2. CASE d # c
      <4>1. call'[d] = call[d] /\ d \in Callee
        BY Zenon, <2>2, <3>2 DEF Callee
      <4>2. call[d].worker \in Worker
        BY Zenon, <4>1, <1>2, CallForm DEF JobTypeOK, Callee
      <4>3. concurrent[call[d].worker] >= 1
        BY Zenon, <4>1 DEF JobInv, RunInv
      <4> QED  BY <1>4, <1>5, <4>1, <4>2, <4>3
    <3> QED  BY Zenon, <3>1, <3>2
  <2>8. DiskInv'
    <3>1. ASSUME NEW p \in Phase, NEW t \in 0 .. NTasks(p) - 1, Unfinished(p, t)
          PROVE  Unfinished(p, t)'
      <4>1. <<p, t>> \in Callee
        BY Zenon, TaskFacts DEF Callee
      <4> QED  BY Zenon, <2>2, <2>4, <3>1, <4>1 DEF Unfinished
    <3>2. ASSUME NEW m \in 0 .. NMap - 1, NEW r \in 0 .. NReduce - 1
          PROVE  Unfinished("mapPhase", m)' \/ files'[<<m, r>>] = MapOutput(m, r)
      <4>1. CASE c = <<"mapPhase", m>>
        BY Zenon, <2>2, <4>1 DEF Unfinished
      <4>2. CASE c # <<"mapPhase", m>>
        <5>1. ~(c[1] = "mapPhase" /\ m = c[2])
          BY <4>2, TaskFacts
        <5>2. files'[<<m, r>>] = files[<<m, r>>]
          BY Zenon, <2>5, <5>1
        <5> QED  BY Zenon, <3>1, <5>2 DEF DiskInv, JobInv, Phase, NTasks
      <4> QED  BY Zenon, <4>1, <4>2
    <3>3. ASSUME NEW r \in 0 .. NReduce - 1
          PROVE  Unfinished("reducePhase", r)' \/ results'[r] = FullOutput(r)
      BY Zenon, <2>1, <3>1 DEF DiskInv, JobInv, Phase, NTasks
    <3> QED  BY Zenon, <3>2, <3>3 DEF DiskInv
  <2>9. OutputComplete'
    BY Zenon, <2>1, <2>4 DEF JobInv, OutputComplete
  <2> QED  BY Zenon, <2>3, <2>6, <2>7, <2>8, <2>9, ProgressKeeps DEF JobInv
<1> QED  BY Zenon, <1>6, <1>7

(* The end of DoTask keeps the invariant: a map task writes its complete   *)
(* files, a reduce task reads complete files.                              *)
LEMMA DoTaskReturnsKeeps ==
    ASSUME JobInv, NEW c \in Task, DoTaskReturns(c)
    PROVE  JobInv'
<1> DEFINE w == call[c].worker
<1>1. c \in Callee /\ call[c] # Idle /\ call[c].status = "running"
  BY DEF Callee, DoTaskReturns, Idle
<1>2. JobTypeOK /\ w \in Worker
  BY Zenon, <1>1, CallForm DEF JobInv, JobTypeOK, Callee
<1>3. /\ concurrent' = [concurrent EXCEPT ![w] = @ - 1]
      /\ UNCHANGED <<job, loop, nRPC, nTasks, output>>
  BY Zenon DEF DoTaskReturns
<1>4. concurrent \in [Worker -> Nat] /\ concurrent[w] >= 1
  BY Zenon, <1>1, <1>2 DEF JobTypeOK, JobInv, RunInv
<1> HIDE DEF w
<1>5. /\ concurrent' \in [Worker -> Nat]
      /\ \A v \in Worker : v # w => concurrent'[v] = concurrent[v]
  BY <1>2, <1>3, <1>4
<1>6. /\ call' \in [Callee -> CallState]
      /\ \A d \in Callee :
            /\ call'[d] = Idle <=> call[d] = Idle
            /\ call[d] # Idle => call'[d].worker = call[d].worker
            /\ d # c => call'[d] = call[d]
      /\ call'[c].status = "ok"
  BY Zenon, <1>1, <1>2, MoveProgress DEF BusyStatus, DoTaskReturns
<1>7. Progress
  BY Zenon, <1>2, <1>3, <1>6 DEF Progress, JobTypeOK
<1>8. UNCHANGED <<pc, workers, forwarded, offers, taskChan, held, wg, killed>>
  BY Zenon, <1>3 DEF job
<1>9. files' = [f \in (0 .. NMap - 1) \X (0 .. NReduce - 1) |->
                  IF c[1] = "mapPhase" /\ f[1] = c[2] THEN MapOutput(f[1], f[2])
                                                      ELSE files[f]]
  BY Zenon, <1>2 DEF JobTypeOK, DoTaskReturns
<1>10. results' = [r \in 0 .. NReduce - 1 |->
                     IF c[1] = "reducePhase" /\ r = c[2] THEN ReduceOutput(r)
                                                         ELSE results[r]]
  <2>1. results = [r \in 0 .. NReduce - 1 |-> results[r]]
    BY Zenon, <1>2 DEF JobTypeOK
  <2>2. results' = IF c[1] = "reducePhase"
                   THEN [results EXCEPT ![c[2]] = ReduceOutput(c[2])] ELSE results
    BY Zenon DEF DoTaskReturns
  <2> QED  BY Zenon, <2>1, <2>2
<1>11. JobTypeOK'
  <2>1. files' = [f \in (0 .. NMap - 1) \X (0 .. NReduce - 1) |-> files'[f]]
    BY ONLY Zenon, <1>9
  <2>2. results' = [r \in 0 .. NReduce - 1 |-> results'[r]]
    BY ONLY Zenon, <1>10
  <2> QED  BY Zenon, <1>2, <1>3, <1>5, <1>6, <1>8, <2>1, <2>2 DEF JobTypeOK, Callee
<1>12. RunInv'
  <2> SUFFICES ASSUME NEW d \in Task, call'[d].status = "running"
               PROVE  concurrent'[call'[d].worker] >= 1
    BY Zenon DEF RunInv
  <2>1. d # c /\ d \in Callee /\ call'[d] = call[d]
    BY Zenon, <1>6 DEF Callee
  <2>2. call[d] # Idle /\ call[d].worker \in Worker
    BY Zenon, <2>1, <1>2, CallForm DEF JobTypeOK, Callee
  <2>3. call[d].worker # w
    BY Zenon, <1>1, <2>1, <2>2, OneCall DEF w
  <2>4. concurrent[call[d].worker] >= 1
    BY Zenon, <2>1 DEF JobInv, RunInv
  <2> QED  BY Zenon, <1>5, <2>1, <2>2, <2>3, <2>4
<1>13. DiskInv'
  <2>1. ASSUME NEW p \in Phase, NEW t \in 0 .. NTasks(p) - 1, c # <<p, t>>,
               Unfinished(p, t)
        PROVE  Unfinished(p, t)'
    <3>1. <<p, t>> \in Callee
      BY Zenon, TaskFacts DEF Callee
    <3> QED  BY Zenon, <1>6, <1>8, <2>1, <3>1 DEF Unfinished
  <2>2. ASSUME NEW m \in 0 .. NMap - 1, NEW r \in 0 .. NReduce - 1
        PROVE  Unfinished("mapPhase", m)' \/ files'[<<m, r>>] = MapOutput(m, r)
    <3>1. CASE c = <<"mapPhase", m>>
      BY Zenon, <1>9, <3>1
    <3>2. CASE c # <<"mapPhase", m>>
      <4>1. ~(c[1] = "mapPhase" /\ m = c[2])
        BY <3>2, TaskFacts
      <4>2. files'[<<m, r>>] = files[<<m, r>>]
        BY Zenon, <1>9, <4>1
      <4> QED  BY Zenon, <2>1, <3>2, <4>2 DEF DiskInv, JobInv, Phase, NTasks
    <3> QED  BY Zenon, <3>1, <3>2
  <2>3. ASSUME NEW r \in 0 .. NReduce - 1
        PROVE  Unfinished("reducePhase", r)' \/ results'[r] = FullOutput(r)
    <3>1. CASE c = <<"reducePhase", r>>
      <4>1. c \in TaskOf("reducePhase") /\ results'[r] = ReduceOutput(r)
        BY Zenon, <1>10, <3>1, TaskFacts DEF Phase
      <4>2. \A m \in 0 .. NMap - 1 : files[<<m, r>>] = MapOutput(m, r)
        BY Zenon, <1>1, <4>1, MapComplete
      <4>3. ReduceOutput(r) = FullOutput(r)
        BY Zenon, <4>2 DEF ReduceOutput, FullOutput
      <4> QED  BY Zenon, <4>1, <4>3
    <3>2. CASE c # <<"reducePhase", r>>
      <4>1. ~(c[1] = "reducePhase" /\ r = c[2])
        BY <3>2, TaskFacts
      <4>2. results'[r] = results[r]
        BY Zenon, <1>10, <4>1
      <4> QED  BY Zenon, <2>1, <3>2, <4>2 DEF DiskInv, JobInv, Phase, NTasks
    <3> QED  BY Zenon, <3>1, <3>2
  <2> QED  BY Zenon, <2>2, <2>3 DEF DiskInv
<1>14. OutputComplete'
  BY Zenon, <1>3, <1>8 DEF JobInv, OutputComplete
<1> QED  BY Zenon, <1>7, <1>11, <1>12, <1>13, <1>14, ProgressKeeps DEF JobInv

-----------------------------------------------------------------------------
(* The steps of the master and of schedule(). *)

(* They touch no file, and a task that was not finished is not either      *)
(* afterwards.                                                             *)
LEMMA JobStepKeeps ==
    ASSUME JobInv, UNCHANGED <<concurrent, files, results, output>>,
           pc' = "done" => pc = "done",
           \A c \in Task : call'[c].status = "running" => call'[c] = call[c],
           \A p \in Phase : \A t \in 0 .. NTasks(p) - 1 :
              Unfinished(p, t) => Unfinished(p, t)'
    PROVE  RunInv' /\ DiskInv' /\ OutputComplete'
<1>1. RunInv'
  <2> SUFFICES ASSUME NEW c \in Task, call'[c].status = "running"
               PROVE  concurrent[call'[c].worker] >= 1
    BY Zenon DEF RunInv
  <2>1. call'[c] = call[c]
    BY Zenon
  <2> QED  BY Zenon, <2>1 DEF JobInv, RunInv
<1>2. /\ \A m \in 0 .. NMap - 1 : Unfinished("mapPhase", m) => Unfinished("mapPhase", m)'
      /\ \A r \in 0 .. NReduce - 1 :
            Unfinished("reducePhase", r) => Unfinished("reducePhase", r)'
  BY Zenon DEF Phase, NTasks
<1>3. DiskInv'
  BY Zenon, <1>2 DEF DiskInv, JobInv
<1> QED  BY Zenon, <1>1, <1>3 DEF JobInv, OutputComplete

(* Workers are offered and called. *)
LEMMA UsedWorkers ==
    ASSUME JobTypeOK, NEW p \in Phase
    PROVE  /\ \A o \in offers[p] : o[3] \in Worker
           /\ \A c \in Active(p) :
                 c \in Callee /\ call[c] # Idle /\ call[c].worker \in Worker
<1>1. offers[p] \subseteq {"worker", "task"} \X Nat \X Worker
  BY Zenon DEF JobTypeOK
<1>2. \A c \in Active(p) : c \in Callee /\ call[c] \in CallState /\ call[c] # Idle
  BY Zenon, TaskFacts DEF JobTypeOK, Active, Callee
<1> QED  BY Zenon, <1>1, <1>2, CallForm

(* A registration keeps the invariant: the worker is new. *)
LEMMA RegisterKeeps ==
    ASSUME JobInv, NEW w \in Worker, Register(w)
    PROVE  JobInv'
<1>1. /\ JobTypeOK /\ loop[w] = "new" /\ pc # "killWorkers"
      /\ loop' = [loop EXCEPT ![w] = "check"]
      /\ workers' = Append(workers, w) \/ workers' = workers
      /\ UNCHANGED <<pc, forwarded, offers, taskChan, held, wg, killed, call,
                     nRPC, nTasks, concurrent, files, results, output>>
  BY Zenon DEF JobInv, Register, Locked, disk
<1>2. workers \in Seq(Worker) /\ loop \in [Worker -> {"new", "check", "accept", "closed", "crashed"}]
  BY Zenon, <1>1 DEF JobTypeOK
<1>3. Len(workers) \in Nat /\ \A i \in 1 .. Len(workers) : workers[i] \in Worker
  BY Zenon, <1>2, SeqElements
<1>4. /\ workers' \in Seq(Worker) /\ Len(workers') \in Nat /\ Len(workers') >= Len(workers)
      /\ \A i \in 1 .. Len(workers') :
            \/ i \in 1 .. Len(workers) /\ workers'[i] = workers[i]
            \/ i = Len(workers) + 1 /\ workers'[i] = w /\ Len(workers') = Len(workers) + 1
  <2>1. CASE workers' = workers
    BY <1>2, <1>3, <2>1
  <2>2. CASE workers' = Append(workers, w)
    BY <1>2, <1>3, <2>2
  <2> QED  BY Zenon, <1>1, <2>1, <2>2
<1>5. \A v \in Worker : loop'[v] # "new" <=> (loop[v] # "new" \/ v = w)
  BY Zenon, <1>1, <1>2
<1>6. JobTypeOK'
  <2>1. \A p \in Phase : forwarded[p] <= Len(workers')
    BY <1>1, <1>3, <1>4 DEF JobTypeOK
  <2>2. killed <= Len(workers')
    BY <1>1, <1>3, <1>4 DEF JobTypeOK
  <2>3. loop' \in [Worker -> {"new", "check", "accept", "closed", "crashed"}]
    BY Zenon, <1>1, <1>2
  <2> QED  BY Zenon, <1>1, <1>4, <2>1, <2>2, <2>3 DEF JobTypeOK
<1>7. ASSUME NEW p \in Phase PROVE Accounting(p)' /\ Uses(p)'
  <2>1. Active(p)' = Active(p) /\ HeldCount(p)' = HeldCount(p)
    BY Zenon, <1>1 DEF Active, HeldCount
  <2>2. Accounting(p)'
    BY Zenon, <1>1, <2>1 DEF Accounting, JobInv
  <2>3. Uses(p)
    BY Zenon DEF JobInv
  <2>4. /\ \A o \in offers[p] : o[3] \in Worker
        /\ \A c \in Active(p) : call[c].worker \in Worker
    BY Zenon, <1>1, UsedWorkers
  <2>5. /\ \A o \in offers[p] : loop'[o[3]] # "new" /\ o[3] # w
        /\ \A c \in Active(p) : loop'[call[c].worker] # "new" /\ call[c].worker # w
    BY Zenon, <1>1, <1>5, <2>3, <2>4 DEF Uses
  <2>6. Uses(p)'
    BY Zenon, <1>1, <1>4, <2>1, <2>3, <2>5 DEF Uses
  <2> QED  BY Zenon, <2>2, <2>6
<1>8. RegisteredOnce'
  <2>1. RegisteredOnce /\ \A i \in 1 .. Len(workers) : workers[i] # w
    BY Zenon, <1>1 DEF JobInv, RegisteredOnce
  <2> QED  BY Zenon, <1>3, <1>4, <1>5, <2>1 DEF RegisteredOnce
<1>9. PhaseInv'
  <2>1. Active("reducePhase")' = Active("reducePhase")
    BY Zenon, <1>1 DEF Active
  <2> QED  BY Zenon, <1>1, <2>1 DEF PhaseInv, JobInv
<1>10. RunInv' /\ DiskInv' /\ OutputComplete'
  <2>1. \A p \in Phase : \A t \in 0 .. NTasks(p) - 1 : Unfinished(p, t) => Unfinished(p, t)'
    BY Zenon, <1>1 DEF Unfinished
  <2> QED  BY Zenon, <1>1, <2>1, JobStepKeeps
<1> QED  BY Zenon, <1>6, <1>7, <1>8, <1>9, <1>10 DEF JobInv

(* A turn of forwardRegistrations keeps the invariant: the worker is one   *)
(* that this phase has not used yet.                                       *)
LEMMA ForwardKeeps ==
    ASSUME JobInv, NEW p \in Phase, ForwardRegistration(p)
    PROVE  JobInv'
<1> DEFINE i == forwarded[p]
           o == <<"worker", i, workers[i + 1]>>
<1>1. /\ JobTypeOK /\ i < Len(workers)
      /\ forwarded' = [forwarded EXCEPT ![p] = i + 1]
      /\ offers' = [offers EXCEPT ![p] = @ \cup {o}]
      /\ UNCHANGED <<pc, workers, taskChan, held, wg, killed, call, loop, nRPC, nTasks,
                     concurrent, files, results, output>>
  BY Zenon DEF JobInv, ForwardRegistration, worker, disk
<1>2. /\ forwarded \in [Phase -> Nat] /\ workers \in Seq(Worker)
      /\ offers \in [Phase -> SUBSET ({"worker", "task"} \X Nat \X Worker)]
  BY Zenon, <1>1 DEF JobTypeOK
<1>3. Len(workers) \in Nat /\ \A j \in 1 .. Len(workers) : workers[j] \in Worker
  BY Zenon, <1>2, SeqElements
<1>4. i \in Nat /\ i + 1 \in 1 .. Len(workers) /\ workers[i + 1] \in Worker
  BY <1>1, <1>2, <1>3
<1>5. o \in {"worker", "task"} \X Nat \X Worker /\ o[3] = workers[i + 1]
  BY Zenon, <1>4
<1> HIDE DEF o
<1>6. /\ forwarded' \in [Phase -> Nat] /\ forwarded'[p] = i + 1
      /\ \A q \in Phase : q # p => forwarded'[q] = forwarded[q]
      /\ offers'[p] = offers[p] \cup {o}
      /\ \A q \in Phase : q # p => offers'[q] = offers[q]
      /\ offers' \in [Phase -> SUBSET ({"worker", "task"} \X Nat \X Worker)]
  BY <1>1, <1>2, <1>4, <1>5
<1>7. JobTypeOK'
  <2>1. \A q \in Phase : forwarded'[q] <= Len(workers)
    BY <1>1, <1>4, <1>6 DEF JobTypeOK
  <2> QED  BY Zenon, <1>1, <1>6, <2>1 DEF JobTypeOK
<1>8. ASSUME NEW q \in Phase PROVE Accounting(q)' /\ Uses(q)'
  <2>1. Active(q)' = Active(q) /\ HeldCount(q)' = HeldCount(q)
    BY Zenon, <1>1 DEF Active, HeldCount
  <2>2. Accounting(q)'
    BY Zenon, <1>1, <2>1 DEF Accounting, JobInv
  <2>3. Uses(q) /\ RegisteredOnce
    BY Zenon DEF JobInv
  <2>4. CASE q # p
    BY <1>1, <1>6, <2>1, <2>2, <2>3, <2>4 DEF Uses
  <2>5. CASE q = p
    <3>1. /\ \A x \in offers[p] : x[3] # o[3]
          /\ \A c \in Active(p) : call[c].worker # o[3]
          /\ loop[o[3]] # "new"
      BY <1>4, <1>5, <2>3, <2>5 DEF Uses, RegisteredOnce
    <3>2. \A j \in 1 .. Len(workers) : j > i + 1 => workers[j] # o[3]
      BY <1>4, <1>5, <2>3 DEF RegisteredOnce
    <3>3. \A j \in 1 .. Len(workers) : j > forwarded'[p] => j > i
      BY <1>3, <1>4, <1>6
    <3>4. Uses(p)'
      BY <1>1, <1>6, <2>1, <2>3, <2>5, <3>1, <3>2, <3>3 DEF Uses
    <3> QED  BY Zenon, <2>2, <2>5, <3>4
  <2> QED  BY Zenon, <2>4, <2>5
<1>9. RegisteredOnce' /\ PhaseInv'
  <2>1. Active("reducePhase")' = Active("reducePhase")
    BY Zenon, <1>1 DEF Active
  <2> QED  BY Zenon, <1>1, <2>1 DEF PhaseInv, JobInv, RegisteredOnce
<1>10. RunInv' /\ DiskInv' /\ OutputComplete'
  <2>1. \A q \in Phase : \A t \in 0 .. NTasks(q) - 1 : Unfinished(q, t) => Unfinished(q, t)'
    BY Zenon, <1>1 DEF Unfinished
  <2> QED  BY Zenon, <1>1, <2>1, JobStepKeeps
<1> QED  BY Zenon, <1>7, <1>8, <1>9, <1>10 DEF JobInv

(* The rest of a sequence. *)
LEMMA TailFacts ==
    ASSUME NEW S, NEW s \in Seq(S), s # <<>>
    PROVE  /\ Tail(s) \in Seq(S) /\ Len(s) \in Nat \ {0} /\ Len(Tail(s)) = Len(s) - 1
           /\ Head(s) = s[1] /\ Head(s) \in S
           /\ \A i \in 1 .. Len(s) - 1 : Tail(s)[i] = s[i + 1]
OBVIOUS

(* A sequence and one more element. *)
LEMMA AppendFacts ==
    ASSUME NEW S, NEW s \in Seq(S), NEW x \in S
    PROVE  /\ Append(s, x) \in Seq(S) /\ Len(s) \in Nat /\ Len(Append(s, x)) = Len(s) + 1
           /\ Append(s, x)[Len(s) + 1] = x
           /\ \A i \in 1 .. Len(s) : Append(s, x)[i] = s[i]
OBVIOUS

(* The dispatcher takes a task: it moves from task_chan to the dispatcher. *)
LEMMA TakeTaskKeeps ==
    ASSUME JobInv, NEW p \in Phase, TakeTask(p)
    PROVE  JobInv'
<1> DEFINE N == 0 .. NTasks(p) - 1
           s == taskChan[p]
           h == Head(s)
<1>1. /\ JobTypeOK /\ held[p] = Select /\ s # <<>>
      /\ held' = [held EXCEPT ![p] = h]
      /\ taskChan' = [taskChan EXCEPT ![p] = Tail(s)]
      /\ UNCHANGED <<pc, workers, forwarded, offers, wg, killed, call, loop, nRPC, nTasks,
                     concurrent, files, results, output>>
  BY Zenon DEF JobInv, TakeTask, worker, disk
<1>2. /\ held \in [Phase -> Int] /\ taskChan \in [Phase -> Seq(Nat)] /\ s \in Seq(N)
      /\ s \in Seq(Nat)
  BY Zenon, <1>1 DEF JobTypeOK
<1>3. /\ Tail(s) \in Seq(N) /\ Tail(s) \in Seq(Nat) /\ h = s[1] /\ h \in N
      /\ Len(s) \in Nat \ {0} /\ Len(Tail(s)) = Len(s) - 1
      /\ \A i \in 1 .. Len(s) - 1 : Tail(s)[i] = s[i + 1]
  BY Zenon, <1>1, <1>2, TailFacts
<1>4. NTasks(p) \in Nat
  BY Zenon, TaskFacts
<1> HIDE DEF h
<1>5. /\ held' \in [Phase -> Int] /\ held'[p] = h
      /\ \A q \in Phase : q # p => held'[q] = held[q]
  BY <1>1, <1>2, <1>3, <1>4
<1>6. /\ taskChan' \in [Phase -> Seq(Nat)] /\ taskChan'[p] = Tail(s)
      /\ \A q \in Phase : q # p => taskChan'[q] = taskChan[q]
  BY Zenon, <1>1, <1>2, <1>3
<1>7. JobTypeOK'
  <2>1. \A q \in Phase : taskChan'[q] \in Seq(0 .. NTasks(q) - 1)
    BY Zenon, <1>1, <1>3, <1>6 DEF JobTypeOK
  <2>2. \A q \in Phase : held'[q] \in {Select, Ended} \cup 0 .. NTasks(q) - 1
    BY Zenon, <1>1, <1>3, <1>5 DEF JobTypeOK
  <2> QED  BY Zenon, <1>1, <1>5, <1>6, <2>1, <2>2 DEF JobTypeOK
<1>8. ASSUME NEW q \in Phase PROVE Accounting(q)'
  <2>1. Active(q)' = Active(q) /\ Accounting(q) /\ Cardinality(Active(q)) \in Nat
    BY Zenon, <1>1, ActiveFinite DEF Active, JobInv
  <2>2. CASE q # p
    BY Zenon, <1>1, <1>5, <1>6, <2>1, <2>2 DEF Accounting, HeldCount
  <2>3. CASE q = p
    <3>1. HeldCount(p) = 0 /\ HeldCount(p)' = 1
      BY <1>1, <1>3, <1>4, <1>5 DEF HeldCount, Select
    <3>2. wg'[p] = Len(taskChan'[p]) + HeldCount(p)' + Cardinality(Active(p))
      BY <1>1, <1>3, <1>6, <2>1, <2>3, <3>1 DEF Accounting
    <3>3. /\ \A i \in 1 .. Len(s) : call[<<p, s[i]>>] = Idle
          /\ \A i, j \in 1 .. Len(s) : s[i] = s[j] => i = j
      BY Zenon, <2>1, <2>3 DEF Accounting
    <3>4. ASSUME NEW i \in 1 .. Len(s) - 1
          PROVE  /\ i + 1 \in 1 .. Len(s) /\ taskChan'[p][i] = s[i + 1]
                 /\ taskChan'[p][i] # h
      <4>1. i + 1 \in 1 .. Len(s) /\ 1 \in 1 .. Len(s) /\ i + 1 # 1
        BY <1>3
      <4>2. s[i + 1] # s[1]
        BY Zenon, <3>3, <4>1
      <4> QED  BY Zenon, <1>3, <1>6, <4>1, <4>2
    <3>5. call'[<<p, h>>] = Idle
      <4>1. 1 \in 1 .. Len(s)
        BY <1>3
      <4> QED  BY Zenon, <1>1, <1>3, <3>3, <4>1
    <3> HIDE DEF s
    <3>6. /\ \A i, j \in 1 .. Len(taskChan'[p]) : taskChan'[p][i] = taskChan'[p][j] => i = j
          /\ \A i \in 1 .. Len(taskChan'[p]) :
                taskChan'[p][i] # held'[p] /\ call'[<<p, taskChan'[p][i]>>] = Idle
      BY <1>1, <1>3, <1>5, <1>6, <3>3, <3>4
    <3> QED  BY Zenon, <1>5, <2>1, <2>3, <3>2, <3>5, <3>6 DEF Accounting
  <2> QED  BY Zenon, <2>2, <2>3
<1>9. ASSUME NEW q \in Phase PROVE Uses(q)'
  <2>1. Active(q)' = Active(q)
    BY Zenon, <1>1 DEF Active
  <2> QED  BY <1>1, <2>1 DEF Uses, JobInv
<1>10. RegisteredOnce' /\ PhaseInv'
  <2>1. Active("reducePhase")' = Active("reducePhase")
    BY Zenon, <1>1 DEF Active
  <2>2. pc = p
    BY <1>1 DEF JobInv, PhaseInv, Phase, Select, Ended
  <2>3. RegisteredOnce' /\ PhaseInv
    BY Zenon, <1>1 DEF JobInv, RegisteredOnce
  <2> QED  BY Zenon, <1>1, <1>5, <2>1, <2>2, <2>3 DEF PhaseInv, Phase
<1>11. RunInv' /\ DiskInv' /\ OutputComplete'
  <2>1. ASSUME NEW q \in Phase, NEW t \in 0 .. NTasks(q) - 1, Unfinished(q, t)
        PROVE  Unfinished(q, t)'
    <3>1. CASE q # p
      BY Zenon, <1>1, <1>5, <1>6, <2>1, <3>1 DEF Unfinished
    <3>2. CASE q = p
      <4>1. CASE \E i \in 1 .. Len(s) : s[i] = t
        <5>1. PICK i \in 1 .. Len(s) : s[i] = t
          BY Zenon, <4>1
        <5>2. CASE i = 1
          BY Zenon, <1>3, <1>5, <3>2, <5>1, <5>2 DEF Unfinished
        <5>3. CASE i # 1
          <6>1. i - 1 \in 1 .. Len(s) - 1 /\ (i - 1) + 1 = i
            BY <1>3, <5>3
          <6>2. taskChan'[p][i - 1] = t /\ i - 1 \in 1 .. Len(taskChan'[p])
            BY Zenon, <1>3, <1>6, <5>1, <6>1
          <6> QED  BY Zenon, <3>2, <6>2 DEF Unfinished
        <5> QED  BY Zenon, <5>2, <5>3
      <4>2. CASE held[p] = t
        BY <1>1, <1>4, <3>2, <4>2 DEF Select
      <4>3. CASE call[<<p, t>>].status \in {"dial", "queued", "served", "running", "failed"}
        BY Zenon, <1>1, <3>2, <4>3 DEF Unfinished
      <4> QED  BY Zenon, <2>1, <3>2, <4>1, <4>2, <4>3 DEF Unfinished
    <3> QED  BY Zenon, <3>1, <3>2
  <2> QED  BY Zenon, <1>1, <2>1, JobStepKeeps
<1> QED  BY Zenon, <1>7, <1>8, <1>9, <1>10, <1>11 DEF JobInv

(* The dispatcher starts a call: the task moves to the call, and the       *)
(* worker from the offer to the call.                                      *)
LEMMA AssignKeeps ==
    ASSUME JobInv, NEW p \in Phase, NEW o \in offers[p], Assign(p, o)
    PROVE  JobInv'
<1> DEFINE N == 0 .. NTasks(p) - 1
           c == <<p, held[p]>>
           w == o[3]
<1>1. /\ JobTypeOK /\ held[p] >= 0
      /\ offers' = [offers EXCEPT ![p] = @ \ {o}]
      /\ call' = [call EXCEPT ![c] = [status |-> "dial", worker |-> w]]
      /\ held' = [held EXCEPT ![p] = Select]
      /\ UNCHANGED <<pc, workers, forwarded, taskChan, wg, killed, loop, nRPC, nTasks,
                     concurrent, files, results, output>>
  BY Zenon DEF JobInv, Assign, worker, disk
<1>2. /\ held \in [Phase -> Int]
      /\ offers \in [Phase -> SUBSET ({"worker", "task"} \X Nat \X Worker)]
      /\ call \in [Callee -> CallState]
  BY Zenon, <1>1 DEF JobTypeOK, Callee
<1>3. held[p] \in N /\ w \in Worker /\ c \in TaskOf(p) /\ c \in Task /\ c \in Callee
  BY Zenon, <1>1, TaskNumbers, UsedWorkers, TaskFacts DEF Callee
<1>4. call[c] = Idle
  BY Zenon, <1>1 DEF JobInv, Accounting
<1> HIDE DEF c, w
<1>5. /\ call' \in [Callee -> CallState] /\ call'[c] # Idle /\ call'[c].worker = w
      /\ call'[c].status = "dial"
      /\ \A d \in Callee : d # c => call'[d] = call[d]
  BY Zenon, <1>1, <1>2, <1>3, BusyStarts
<1>6. /\ held' \in [Phase -> Int] /\ held'[p] = Select
      /\ \A q \in Phase : q # p => held'[q] = held[q]
  BY <1>1, <1>2 DEF Select
<1>7. /\ offers' \in [Phase -> SUBSET ({"worker", "task"} \X Nat \X Worker)]
      /\ offers'[p] = offers[p] \ {o}
      /\ \A q \in Phase : q # p => offers'[q] = offers[q]
  BY Zenon, <1>1, <1>2
<1>8. Active(p)' = Active(p) \cup {c} /\ c \notin Active(p)
  BY <1>3, <1>4, <1>5, TaskFacts DEF Active, Callee
<1>9. \A q \in Phase : q # p => Active(q)' = Active(q)
  BY <1>3, <1>5, TaskFacts DEF Active, Callee
<1>10. JobTypeOK'
  <2>1. \A q \in Phase : held'[q] \in {Select, Ended} \cup 0 .. NTasks(q) - 1
    BY Zenon, <1>1, <1>6 DEF JobTypeOK
  <2> QED  BY Zenon, <1>1, <1>5, <1>6, <1>7, <2>1 DEF JobTypeOK, Callee
<1>11. ASSUME NEW q \in Phase PROVE Accounting(q)'
  <2>1. Accounting(q) /\ Cardinality(Active(q)) \in Nat
    BY Zenon, ActiveFinite DEF JobInv
  <2>2. \A i \in 1 .. Len(taskChan[q]) :
           /\ taskChan[q][i] \in 0 .. NTasks(q) - 1 /\ <<q, taskChan[q][i]>> \in Callee
           /\ <<q, taskChan[q][i]>> # c
    BY Zenon, <1>1, <2>1, TaskNumbers, TaskFacts DEF Callee, Accounting, c
  <2>3. CASE q # p
    <3>1. held'[q] >= 0 => <<q, held'[q]>> \in Callee /\ <<q, held'[q]>> # c
      BY Zenon, <1>1, <1>6, <2>3, TaskNumbers, TaskFacts DEF Callee, c
    <3> QED  BY Zenon, <1>1, <1>5, <1>6, <1>9, <2>1, <2>2, <2>3, <3>1 DEF Accounting, HeldCount
  <2>4. CASE q = p
    <3>1. HeldCount(p) = 1 /\ HeldCount(p)' = 0 /\ ~(held'[p] >= 0)
      BY <1>1, <1>6 DEF HeldCount, Select
    <3>2. Cardinality(Active(p)') = Cardinality(Active(p)) + 1
      BY Zenon, <1>8, ActiveFinite, FS_AddElement
    <3>3. wg'[p] = Len(taskChan'[p]) + HeldCount(p)' + Cardinality(Active(p)')
      <4>1. wg[p] = Len(taskChan[p]) + 1 + Cardinality(Active(p)) /\ Len(taskChan[p]) \in Nat
        BY Zenon, <1>1, <2>1, <2>4, <3>1, TaskNumbers DEF Accounting
      <4> QED  BY <1>1, <2>1, <2>4, <3>1, <3>2, <4>1
    <3>4. \A i \in 1 .. Len(taskChan[p]) :
             taskChan[p][i] # held'[p] /\ call'[<<p, taskChan[p][i]>>] = Idle
      <4>1. \A i \in 1 .. Len(taskChan[p]) : call[<<p, taskChan[p][i]>>] = Idle
        BY Zenon, <2>1, <2>4 DEF Accounting
      <4> QED  BY <1>5, <1>6, <2>2, <2>4, <4>1 DEF Select
    <3>5. Accounting(p) /\ taskChan' = taskChan
      BY Zenon, <1>1, <2>1, <2>4
    <3>6. Accounting(p)'
      BY Zenon, <3>1, <3>3, <3>4, <3>5 DEF Accounting
    <3> QED  BY Zenon, <2>4, <3>6
  <2> QED  BY Zenon, <2>3, <2>4
<1>12. ASSUME NEW q \in Phase PROVE Uses(q)'
  <2>1. Uses(q) /\ \A d \in Active(q) : d \in Callee /\ d # c => call'[d] = call[d]
    BY Zenon, <1>5 DEF JobInv
  <2>2. \A d \in Active(q) : d \in Callee
    BY Zenon, <1>1, UsedWorkers
  <2>3. CASE q # p
    <3>1. c \notin Active(q)
      BY Zenon, <2>3, TaskFacts DEF Active, c
    <3>2. \A d \in Active(q) : call'[d] = call[d]
      BY Zenon, <2>1, <2>2, <3>1
    <3> QED  BY <1>1, <1>7, <1>9, <2>1, <2>3, <3>2 DEF Uses
  <2>4. CASE q = p
    <3>1. \A d \in Active(p) : call'[d] = call[d]
      BY Zenon, <1>8, <2>1, <2>2, <2>4
    <3>2. /\ \A x \in offers'[p] : x \in offers[p] /\ x[3] # w
          /\ \A d \in Active(p) : call[d].worker # w
          /\ loop[w] # "new"
          /\ \A i \in 1 .. Len(workers) : i > forwarded[p] => w # workers[i]
      BY Zenon, <1>7, <2>1, <2>4 DEF Uses, w
    <3> QED  BY <1>1, <1>5, <1>8, <2>1, <2>4, <3>1, <3>2 DEF Uses
  <2> QED  BY Zenon, <2>3, <2>4
<1>13. RegisteredOnce' /\ PhaseInv'
  <2>1. pc = p
    BY <1>1 DEF JobInv, PhaseInv, Phase, Ended
  <2>2. RegisteredOnce' /\ PhaseInv
    BY Zenon, <1>1 DEF JobInv, RegisteredOnce
  <2>3. call'[Shutdown] = call[Shutdown]
    BY Zenon, <1>3, <1>5, TaskFacts DEF Callee
  <2> QED  BY Zenon, <1>1, <1>6, <1>9, <2>1, <2>2, <2>3 DEF PhaseInv, Phase
<1>14. RunInv' /\ DiskInv' /\ OutputComplete'
  <2>1. ASSUME NEW q \in Phase, NEW t \in 0 .. NTasks(q) - 1, Unfinished(q, t)
        PROVE  Unfinished(q, t)'
    <3>1. <<q, t>> \in Callee
      BY Zenon, TaskFacts DEF Callee
    <3>2. CASE <<q, t>> = c
      BY Zenon, <1>5, <3>2 DEF Unfinished
    <3>3. CASE <<q, t>> # c
      <4>1. call'[<<q, t>>] = call[<<q, t>>] /\ taskChan' = taskChan
        BY Zenon, <1>1, <1>5, <3>1, <3>3
      <4>2. held[q] = t => held'[q] = t
        BY Zenon, <1>6, <3>3 DEF c
      <4> QED  BY Zenon, <2>1, <4>1, <4>2 DEF Unfinished
    <3> QED  BY Zenon, <3>2, <3>3
  <2>2. \A d \in Task : call'[d].status = "running" => call'[d] = call[d]
    BY Zenon, <1>5 DEF Callee
  <2> QED  BY Zenon, <1>1, <2>1, <2>2, JobStepKeeps
<1> QED  BY Zenon, <1>10, <1>11, <1>12, <1>13, <1>14 DEF JobInv

(* A call that ended: the calls of the other tasks are what they were. *)
LEMMA CallEnds ==
    ASSUME JobInv, NEW p \in Phase, NEW c \in TaskOf(p), call[c].status \in {"ok", "failed"},
           call' = [call EXCEPT ![c] = Idle]
    PROVE  /\ c[1] = p /\ c[2] \in 0 .. NTasks(p) - 1 /\ c = <<p, c[2]>> /\ pc = p
           /\ c \in Active(p) /\ call[c].worker \in Worker
           /\ call' \in [Callee -> CallState] /\ call'[c] = Idle
           /\ \A d \in Callee : d # c => call'[d] = call[d]
           /\ call'[Shutdown] = call[Shutdown]
           /\ Active(p)' = Active(p) \ {c}
           /\ \A q \in Phase : q # p => Active(q)' = Active(q)
           /\ Cardinality(Active(p)') = Cardinality(Active(p)) - 1
           /\ Cardinality(Active(p)) \in Nat
<1>1. /\ c[1] = p /\ c[2] \in 0 .. NTasks(p) - 1 /\ c = <<p, c[2]>> /\ c \in Callee
      /\ c \in Task
  BY Zenon, TaskFacts DEF Callee
<1>2. JobTypeOK /\ call \in [Callee -> CallState] /\ call[c] # Idle
  <2>1. JobTypeOK /\ call \in [Callee -> CallState]
    BY Zenon DEF JobInv, JobTypeOK, Callee
  <2>2. call[c] # Idle
    BY DEF Idle
  <2> QED  BY Zenon, <2>1, <2>2
<1>3. c \in Active(p) /\ call[c].worker \in Worker
  BY Zenon, <1>1, <1>2, CallForm DEF Active
<1>4. pc = p
  <2>1. \A q \in Phase : wg[q] = 0 => Active(q) = {}
    BY Zenon, NothingLeft DEF JobInv
  <2> QED  BY Zenon, <1>1, <1>3, <2>1 DEF JobInv, PhaseInv, Phase
<1>5. Idle \in CallState
  BY Zenon DEF Idle, CallState
<1>6. /\ call' \in [Callee -> CallState] /\ call'[c] = Idle
      /\ \A d \in Callee : d # c => call'[d] = call[d]
  BY Zenon, <1>1, <1>2, <1>5
<1>7. call'[Shutdown] = call[Shutdown]
  BY <1>6, TaskFacts DEF Callee
<1>8. Active(p)' = Active(p) \ {c}
  BY Zenon, <1>1, <1>6, TaskFacts DEF Active, Callee
<1>9. \A q \in Phase : q # p => Active(q)' = Active(q)
  BY <1>1, <1>6, TaskFacts DEF Active, Callee
<1>10. IsFiniteSet(Active(p)) /\ Cardinality(Active(p)) \in Nat
  BY Zenon, <1>1, ActiveFinite
<1>11. Cardinality(Active(p)') = Cardinality(Active(p)) - 1
  <2>1. Cardinality(Active(p) \ {c}) = Cardinality(Active(p)) - 1
    BY Zenon, <1>3, <1>10, FS_RemoveElement
  <2> QED  BY Zenon, <1>8, <2>1
<1> QED  BY Zenon, <1>1, <1>3, <1>4, <1>6, <1>7, <1>8, <1>9, <1>10, <1>11

(* A call succeeded: the WaitGroup counts one less, and its worker is      *)
(* offered instead of called.                                              *)
LEMMA TaskDoneKeeps ==
    ASSUME JobInv, NEW p \in Phase, NEW c \in TaskOf(p), TaskDone(c)
    PROVE  JobInv'
<1> DEFINE o == <<"task", c[2], call[c].worker>>
<1>1. /\ JobTypeOK /\ call[c].status = "ok"
      /\ wg' = [wg EXCEPT ![p] = @ - 1]
      /\ offers' = [offers EXCEPT ![p] = @ \cup {o}]
      /\ call' = [call EXCEPT ![c] = Idle]
      /\ UNCHANGED <<pc, workers, forwarded, taskChan, held, killed, loop, nRPC, nTasks,
                     concurrent, files, results, output>>
  BY Zenon, TaskFacts DEF JobInv, TaskDone, worker, disk
<1>2. /\ c[1] = p /\ c[2] \in 0 .. NTasks(p) - 1 /\ c = <<p, c[2]>> /\ pc = p
      /\ c \in Active(p) /\ call[c].worker \in Worker
      /\ call' \in [Callee -> CallState] /\ call'[c] = Idle
      /\ \A d \in Callee : d # c => call'[d] = call[d]
      /\ call'[Shutdown] = call[Shutdown]
      /\ Active(p)' = Active(p) \ {c}
      /\ \A q \in Phase : q # p => Active(q)' = Active(q)
      /\ Cardinality(Active(p)') = Cardinality(Active(p)) - 1
      /\ Cardinality(Active(p)) \in Nat
  BY Zenon, <1>1, CallEnds
<1>3. /\ wg \in [Phase -> Int] /\ NTasks(p) \in Nat
      /\ offers \in [Phase -> SUBSET ({"worker", "task"} \X Nat \X Worker)]
  BY Zenon, <1>1, <1>2, TaskFacts DEF JobTypeOK
<1>4. o \in {"worker", "task"} \X Nat \X Worker /\ o[3] = call[c].worker
  BY <1>2, <1>3
<1> HIDE DEF o
<1>5. /\ wg' \in [Phase -> Int] /\ wg'[p] = wg[p] - 1
      /\ \A q \in Phase : q # p => wg'[q] = wg[q]
  BY <1>1, <1>2, <1>3
<1>6. /\ offers' \in [Phase -> SUBSET ({"worker", "task"} \X Nat \X Worker)]
      /\ offers'[p] = offers[p] \cup {o}
      /\ \A q \in Phase : q # p => offers'[q] = offers[q]
  BY Zenon, <1>1, <1>2, <1>3, <1>4
<1>7. JobTypeOK'
  BY Zenon, <1>1, <1>2, <1>5, <1>6 DEF JobTypeOK, Callee
<1>8. ASSUME NEW d \in Callee, call[d] = Idle PROVE call'[d] = Idle
  BY Zenon, <1>2, <1>8
<1>9. ASSUME NEW q \in Phase PROVE Accounting(q)'
  <2>1. Accounting(q) /\ HeldCount(q)' = HeldCount(q) /\ HeldCount(q) \in Nat
    BY Zenon, <1>1 DEF JobInv, HeldCount
  <2>2. /\ Len(taskChan[q]) \in Nat
        /\ \A i \in 1 .. Len(taskChan[q]) : <<q, taskChan[q][i]>> \in Callee
        /\ held[q] >= 0 => <<q, held[q]>> \in Callee
    BY Zenon, <1>1, TaskNumbers, TaskFacts DEF Callee
  <2>3. wg'[q] = Len(taskChan[q]) + HeldCount(q) + Cardinality(Active(q)')
    <3>1. wg[q] = Len(taskChan[q]) + HeldCount(q) + Cardinality(Active(q))
      BY Zenon, <2>1 DEF Accounting
    <3>2. CASE q = p
      <4>1. wg'[p] = Len(taskChan[p]) + HeldCount(p) + (Cardinality(Active(p)) - 1)
        <5>1. /\ Cardinality(Active(p)) \in Nat /\ wg'[p] = wg[p] - 1
              /\ Len(taskChan[p]) \in Nat /\ HeldCount(p) \in Nat
          BY Zenon, <1>2, <1>5, <2>1, <2>2, <3>2
        <5>2. wg[p] = Len(taskChan[p]) + HeldCount(p) + Cardinality(Active(p))
          BY Zenon, <3>1, <3>2
        <5> QED  BY <5>1, <5>2
      <4> QED  BY Zenon, <1>2, <3>2, <4>1
    <3>3. CASE q # p
      BY Zenon, <1>2, <1>5, <3>1, <3>3
    <3> QED  BY Zenon, <3>2, <3>3
  <2> QED  BY Zenon, <1>1, <1>8, <2>1, <2>2, <2>3 DEF Accounting
<1>10. ASSUME NEW q \in Phase PROVE Uses(q)'
  <2>1. Uses(q) /\ \A d \in Active(q) : d # c => call'[d] = call[d]
    BY Zenon, <1>1, <1>2, UsedWorkers DEF JobInv
  <2>2. CASE q # p
    <3>1. \A d \in Active(q) : call'[d] = call[d]
      BY <1>2, <2>1, <2>2, TaskFacts DEF Active
    <3> QED  BY <1>1, <1>2, <1>6, <2>1, <2>2, <3>1 DEF Uses
  <2>3. CASE q = p
    <3>1. /\ \A x \in offers[p] : x[3] # o[3]
          /\ \A d \in Active(p)' : d \in Active(p) /\ call'[d] = call[d]
                                   /\ call[d].worker # o[3]
          /\ loop[o[3]] # "new"
          /\ \A i \in 1 .. Len(workers) : i > forwarded[p] => o[3] # workers[i]
      BY <1>2, <1>4, <2>1, <2>3 DEF Uses
    <3> QED  BY <1>1, <1>6, <2>1, <2>3, <3>1 DEF Uses
  <2> QED  BY Zenon, <2>2, <2>3
<1>11. RegisteredOnce' /\ PhaseInv'
  <2>1. RegisteredOnce' /\ PhaseInv
    BY Zenon, <1>1 DEF JobInv, RegisteredOnce
  <2> QED  BY Zenon, <1>1, <1>2, <1>5, <2>1 DEF PhaseInv, Phase
<1>12. RunInv' /\ DiskInv' /\ OutputComplete'
  <2>1. ASSUME NEW q \in Phase, NEW t \in 0 .. NTasks(q) - 1, Unfinished(q, t)
        PROVE  Unfinished(q, t)'
    <3>1. <<q, t>> \in Callee
      BY Zenon, TaskFacts DEF Callee
    <3> QED  BY Zenon, <1>1, <1>2, <2>1, <3>1 DEF Unfinished
  <2>2. \A d \in Task : call'[d].status = "running" => call'[d] = call[d]
    BY <1>2 DEF Callee, Idle
  <2> QED  BY Zenon, <1>1, <2>1, <2>2, JobStepKeeps
<1> QED  BY Zenon, <1>7, <1>9, <1>10, <1>11, <1>12 DEF JobInv

(* What one place loses another gains.                                     *)
LEMMA OneMoves ==
    ASSUME NEW n \in Nat, NEW k \in Nat, NEW m \in Nat
    PROVE  n + k + m = (n + 1) + k + (m - 1)
OBVIOUS

(* A call failed: the task goes back to task_chan. *)
LEMMA TaskFailedKeeps ==
    ASSUME JobInv, NEW p \in Phase, NEW c \in TaskOf(p), TaskFailed(c)
    PROVE  JobInv'
<1> DEFINE s == taskChan[p]
<1>1. /\ JobTypeOK /\ call[c].status = "failed"
      /\ taskChan' = [taskChan EXCEPT ![p] = Append(s, c[2])]
      /\ call' = [call EXCEPT ![c] = Idle]
      /\ UNCHANGED <<pc, workers, forwarded, offers, held, wg, killed, loop, nRPC, nTasks,
                     concurrent, files, results, output>>
  BY Zenon, TaskFacts DEF JobInv, TaskFailed, worker, disk
<1>2. /\ c[1] = p /\ c[2] \in 0 .. NTasks(p) - 1 /\ c = <<p, c[2]>> /\ pc = p
      /\ c \in Active(p) /\ call[c].worker \in Worker
      /\ call' \in [Callee -> CallState] /\ call'[c] = Idle
      /\ \A d \in Callee : d # c => call'[d] = call[d]
      /\ call'[Shutdown] = call[Shutdown]
      /\ Active(p)' = Active(p) \ {c}
      /\ \A q \in Phase : q # p => Active(q)' = Active(q)
      /\ Cardinality(Active(p)') = Cardinality(Active(p)) - 1
      /\ Cardinality(Active(p)) \in Nat
  BY Zenon, <1>1, CallEnds
<1>3. /\ taskChan \in [Phase -> Seq(Nat)] /\ NTasks(p) \in Nat
      /\ s \in Seq(0 .. NTasks(p) - 1) /\ s \in Seq(Nat) /\ c[2] \in Nat
  BY <1>1, <1>2, TaskFacts DEF JobTypeOK
<1>4. /\ Append(s, c[2]) \in Seq(0 .. NTasks(p) - 1) /\ Append(s, c[2]) \in Seq(Nat)
      /\ Len(s) \in Nat /\ Len(Append(s, c[2])) = Len(s) + 1
      /\ Append(s, c[2])[Len(s) + 1] = c[2]
      /\ \A i \in 1 .. Len(s) : Append(s, c[2])[i] = s[i]
  BY <1>2, <1>3, AppendFacts
<1>5. /\ taskChan' \in [Phase -> Seq(Nat)] /\ taskChan'[p] = Append(s, c[2])
      /\ \A q \in Phase : q # p => taskChan'[q] = taskChan[q]
  BY Zenon, <1>1, <1>2, <1>3, <1>4
<1>6. JobTypeOK'
  <2>1. \A q \in Phase : taskChan'[q] \in Seq(0 .. NTasks(q) - 1)
    BY Zenon, <1>1, <1>4, <1>5 DEF JobTypeOK
  <2> QED  BY Zenon, <1>1, <1>2, <1>5, <2>1 DEF JobTypeOK, Callee
<1>7. ASSUME NEW d \in Callee, call[d] = Idle PROVE call'[d] = Idle
  BY Zenon, <1>2, <1>7
<1>8. ASSUME NEW q \in Phase PROVE Accounting(q)'
  <2>1. Accounting(q) /\ HeldCount(q)' = HeldCount(q) /\ HeldCount(q) \in Nat
    BY Zenon, <1>1 DEF JobInv, HeldCount
  <2>2. /\ Len(taskChan[q]) \in Nat
        /\ \A i \in 1 .. Len(taskChan[q]) : <<q, taskChan[q][i]>> \in Callee
        /\ held[q] >= 0 => <<q, held[q]>> \in Callee
    BY Zenon, <1>1, TaskNumbers, TaskFacts DEF Callee
  <2>3. CASE q # p
    BY Zenon, <1>1, <1>2, <1>5, <1>7, <2>1, <2>2, <2>3 DEF Accounting
  <2>4. CASE q = p
    <3>1. wg[p] = Len(s) + HeldCount(p) + Cardinality(Active(p))
      BY Zenon, <2>1, <2>4 DEF Accounting
    <3>2. wg'[p] = Len(taskChan'[p]) + HeldCount(p)' + Cardinality(Active(p)')
      <4>1. Cardinality(Active(p)) \in Nat /\ wg'[p] = wg[p] /\ Len(taskChan'[p]) = Len(s) + 1
            /\ HeldCount(p)' = HeldCount(p) /\ HeldCount(p) \in Nat /\ Len(s) \in Nat
        BY Zenon, <1>1, <1>2, <1>4, <1>5, <2>1, <2>4
      <4>2. wg'[p] = Len(taskChan'[p]) + HeldCount(p)' + (Cardinality(Active(p)) - 1)
        <5>1. Len(s) + HeldCount(p) + Cardinality(Active(p))
                = (Len(s) + 1) + HeldCount(p) + (Cardinality(Active(p)) - 1)
          BY Zenon, <4>1, OneMoves
        <5> QED  BY Zenon, <3>1, <4>1, <5>1
      <4> QED  BY Zenon, <1>2, <4>2
    <3>3. call[c] # Idle
      BY Zenon, <1>2 DEF Active
    <3>4. /\ \A i, j \in 1 .. Len(s) : s[i] = s[j] => i = j
          /\ \A i \in 1 .. Len(s) :
                s[i] # held[p] /\ call[<<p, s[i]>>] = Idle /\ s[i] # c[2]
          /\ held[p] >= 0 => call[<<p, held[p]>>] = Idle /\ held[p] # c[2]
          /\ held[p] # c[2]
      <4>1. held[p] >= 0 => call[<<p, held[p]>>] = Idle /\ held[p] # c[2]
        BY <1>2, <2>1, <2>4, <3>3 DEF Accounting
      <4>2. /\ \A i, j \in 1 .. Len(s) : s[i] = s[j] => i = j
            /\ \A i \in 1 .. Len(s) : s[i] # held[p] /\ call[<<p, s[i]>>] = Idle
        BY Zenon, <2>1, <2>4 DEF Accounting
      <4>3. \A i \in 1 .. Len(s) : s[i] # c[2]
        BY <1>2, <3>3, <4>2
      <4>4. held[p] # c[2]
        BY <1>2, <1>3, <4>1
      <4> QED  BY Zenon, <4>1, <4>2, <4>3, <4>4
    <3>5. \A i \in 1 .. Len(taskChan'[p]) :
             \/ i \in 1 .. Len(s) /\ taskChan'[p][i] = s[i]
             \/ i = Len(s) + 1 /\ taskChan'[p][i] = c[2]
      BY <1>4, <1>5
    <3>6. /\ \A i \in 1 .. Len(s) : call'[<<p, s[i]>>] = Idle
          /\ call'[<<p, c[2]>>] = Idle
          /\ held[p] >= 0 => call'[<<p, held[p]>>] = Idle
      BY Zenon, <1>2, <1>7, <2>2, <2>4, <3>4
    <3> HIDE DEF s
    <3>7. /\ \A i, j \in 1 .. Len(taskChan'[p]) : taskChan'[p][i] = taskChan'[p][j] => i = j
          /\ \A i \in 1 .. Len(taskChan'[p]) :
                taskChan'[p][i] # held'[p] /\ call'[<<p, taskChan'[p][i]>>] = Idle
      <4>1. ASSUME NEW i \in 1 .. Len(taskChan'[p]), NEW j \in 1 .. Len(taskChan'[p]),
                   taskChan'[p][i] = taskChan'[p][j]
            PROVE  i = j
        <5>1. CASE i = Len(s) + 1
          BY <3>4, <3>5, <4>1, <5>1
        <5>2. CASE i \in 1 .. Len(s) /\ taskChan'[p][i] = s[i]
          <6>1. CASE j \in 1 .. Len(s) /\ taskChan'[p][j] = s[j]
            BY Zenon, <3>4, <4>1, <5>2, <6>1
          <6>2. CASE j = Len(s) + 1 /\ taskChan'[p][j] = c[2]
            BY Zenon, <3>4, <4>1, <5>2, <6>2
          <6> QED  BY Zenon, <3>5, <6>1, <6>2
        <5> QED  BY Zenon, <3>5, <5>1, <5>2
      <4>2. ASSUME NEW i \in 1 .. Len(taskChan'[p])
            PROVE  taskChan'[p][i] # held'[p] /\ call'[<<p, taskChan'[p][i]>>] = Idle
        BY Zenon, <1>1, <3>4, <3>5, <3>6
      <4> QED  BY Zenon, <4>1, <4>2
    <3> QED  BY <1>1, <2>4, <3>2, <3>6, <3>7 DEF Accounting
  <2> QED  BY Zenon, <2>3, <2>4
<1>9. ASSUME NEW q \in Phase PROVE Uses(q)'
  <2>1. Uses(q) /\ Active(q)' \subseteq Active(q)
    BY Zenon, <1>2 DEF JobInv
  <2>2. \A d \in Active(q)' : call'[d] = call[d]
    BY Zenon, <1>1, <1>2, <2>1, UsedWorkers, TaskFacts DEF Active
  <2> QED  BY <1>1, <2>1, <2>2 DEF Uses
<1>10. RegisteredOnce' /\ PhaseInv'
  <2>1. RegisteredOnce' /\ PhaseInv
    BY Zenon, <1>1 DEF JobInv, RegisteredOnce
  <2> QED  BY Zenon, <1>1, <1>2, <2>1 DEF PhaseInv, Phase
<1>11. RunInv' /\ DiskInv' /\ OutputComplete'
  <2>1. ASSUME NEW q \in Phase, NEW t \in 0 .. NTasks(q) - 1, Unfinished(q, t)
        PROVE  Unfinished(q, t)'
    <3>1. <<q, t>> \in Callee
      BY Zenon, TaskFacts DEF Callee
    <3>2. CASE <<q, t>> = c
      <4>1. q = p /\ t = c[2] /\ Len(s) + 1 \in 1 .. Len(taskChan'[p])
        BY <1>2, <1>4, <1>5, <3>2
      <4> QED  BY Zenon, <1>4, <1>5, <4>1 DEF Unfinished
    <3>3. CASE <<q, t>> # c
      <4>1. call'[<<q, t>>] = call[<<q, t>>] /\ held'[q] = held[q]
        BY Zenon, <1>1, <1>2, <3>1, <3>3
      <4>2. \A i \in 1 .. Len(taskChan[q]) :
               i \in 1 .. Len(taskChan'[q]) /\ taskChan'[q][i] = taskChan[q][i]
        <5>1. \A i \in 1 .. Len(s) : i \in 1 .. Len(taskChan'[p])
          BY <1>4, <1>5
        <5>2. \A i \in 1 .. Len(s) : taskChan'[p][i] = s[i]
          BY Zenon, <1>4, <1>5
        <5>3. CASE q = p
          BY Zenon, <5>1, <5>2, <5>3
        <5>4. CASE q # p
          BY Zenon, <1>5, <5>4
        <5> QED  BY Zenon, <5>3, <5>4
      <4> QED  BY Zenon, <2>1, <4>1, <4>2 DEF Unfinished
    <3> QED  BY Zenon, <3>2, <3>3
  <2>2. \A d \in Task : call'[d].status = "running" => call'[d] = call[d]
    BY <1>2 DEF Callee, Idle
  <2> QED  BY Zenon, <1>1, <2>1, <2>2, JobStepKeeps
<1> QED  BY Zenon, <1>6, <1>8, <1>9, <1>10, <1>11 DEF JobInv

(* schedule() returns and the next phase begins: nothing of this phase is  *)
(* left.                                                                   *)
LEMMA ScheduleReturnsKeeps ==
    ASSUME JobInv, NEW p \in Phase, ScheduleReturns(p)
    PROVE  JobInv'
<1>1. /\ JobTypeOK /\ pc = p /\ wg[p] = 0 /\ held[p] = Select
      /\ pc' = IF p = "mapPhase" THEN "reducePhase" ELSE "killWorkers"
      /\ held' = [q \in Phase |-> IF p = "mapPhase" /\ q # p THEN Select ELSE Ended]
      /\ UNCHANGED <<workers, forwarded, offers, taskChan, wg, killed, call, loop, nRPC,
                     nTasks, concurrent, files, results, output>>
  BY Zenon DEF JobInv, ScheduleReturns, worker, disk
<1>2. PhaseInv /\ RegisteredOnce
  BY Zenon DEF JobInv
<1>3. \A q \in Phase : held[q] \in {Select, Ended}
  BY Zenon, <1>1, <1>2 DEF PhaseInv, Phase
<1>4. held' \in [Phase -> {Select, Ended}]
  BY Zenon, <1>1
<1>5. \A q \in Phase : Active(q)' = Active(q)
  BY Zenon, <1>1 DEF Active
<1>6. JobTypeOK'
  <2>1. pc' \in Phase \cup {"killWorkers", "stopRPCServer", "merge", "done"}
    BY Zenon, <1>1 DEF Phase
  <2>2. held' \in [Phase -> Int]
    BY <1>4 DEF Select, Ended
  <2>3. \A q \in Phase : held'[q] \in {Select, Ended} \cup 0 .. NTasks(q) - 1
    BY Zenon, <1>4
  <2> QED  BY Zenon, <1>1, <2>1, <2>2, <2>3 DEF JobTypeOK
<1>7. ASSUME NEW q \in Phase PROVE Accounting(q)'
  <2>1. ~(held[q] >= 0) /\ ~(held'[q] >= 0)
    BY <1>3, <1>4 DEF Select, Ended
  <2>2. HeldCount(q)' = HeldCount(q) /\ Accounting(q)
    BY Zenon, <2>1 DEF HeldCount, JobInv
  <2>3. \A i \in 1 .. Len(taskChan[q]) : taskChan[q][i] # held'[q]
    BY <1>1, <2>1, TaskNumbers, TaskFacts
  <2> QED  BY Zenon, <1>1, <1>5, <2>1, <2>2, <2>3 DEF Accounting
<1>8. ASSUME NEW q \in Phase PROVE Uses(q)'
  BY <1>1, <1>5 DEF Uses, JobInv
<1>9. PhaseInv' /\ RegisteredOnce'
  <2>1. CASE p = "mapPhase"
    BY <1>1, <1>2, <2>1 DEF PhaseInv, RegisteredOnce, Phase
  <2>2. CASE p = "reducePhase"
    BY <1>1, <1>2, <2>2 DEF PhaseInv, RegisteredOnce, Phase
  <2> QED  BY Zenon, <2>1, <2>2 DEF Phase
<1>10. RunInv' /\ DiskInv' /\ OutputComplete'
  <2>1. ASSUME NEW q \in Phase, NEW t \in 0 .. NTasks(q) - 1, Unfinished(q, t)
        PROVE  Unfinished(q, t)'
    <3>1. held[q] # t
      BY <1>3, TaskFacts DEF Select, Ended
    <3> QED  BY Zenon, <1>1, <2>1, <3>1 DEF Unfinished
  <2> QED  BY Zenon, <1>1, <2>1, JobStepKeeps
<1> QED  BY Zenon, <1>6, <1>7, <1>8, <1>9, <1>10 DEF JobInv

(* The steps of killWorkers change the call of Shutdown only. *)
LEMMA ShutdownCallKeeps ==
    ASSUME JobInv, UNCHANGED <<workers, forwarded, offers, taskChan, held, wg, loop, nRPC,
                               nTasks, concurrent, files, results, output, pc>>,
           call' \in [Callee -> CallState], \A c \in Task : call'[c] = call[c],
           killed' \in Nat, killed' <= Len(workers),
           call'[Shutdown] # Idle => pc = "killWorkers" /\ killed' < Len(workers)
    PROVE  JobInv'
<1>1. JobTypeOK /\ JobTypeOK'
  BY Zenon DEF JobInv, JobTypeOK, Callee
<1>2. \A q \in Phase : /\ Active(q)' = Active(q)
                       /\ \A c \in Active(q) : call'[c] = call[c]
  BY TaskFacts DEF Active
<1>3. ASSUME NEW q \in Phase PROVE Accounting(q)' /\ Uses(q)'
  <2>1. Accounting(q) /\ Uses(q) /\ HeldCount(q)' = HeldCount(q)
    BY Zenon DEF JobInv, HeldCount
  <2>2. /\ \A i \in 1 .. Len(taskChan[q]) : <<q, taskChan[q][i]>> \in Task
        /\ held[q] >= 0 => <<q, held[q]>> \in Task
    BY Zenon, <1>1, TaskNumbers, TaskFacts
  <2>3. Accounting(q)'
    BY Zenon, <1>2, <2>1, <2>2 DEF Accounting
  <2>4. Uses(q)'
    BY <1>2, <2>1 DEF Uses
  <2> QED  BY Zenon, <2>3, <2>4
<1>4. PhaseInv' /\ RegisteredOnce'
  BY Zenon, <1>2 DEF JobInv, PhaseInv, RegisteredOnce, Phase
<1>5. RunInv' /\ DiskInv' /\ OutputComplete'
  <2>1. \A q \in Phase : \A t \in 0 .. NTasks(q) - 1 : Unfinished(q, t) => Unfinished(q, t)'
    BY Zenon, TaskFacts DEF Unfinished
  <2> QED  BY Zenon, <2>1, JobStepKeeps
<1> QED  BY Zenon, <1>1, <1>3, <1>4, <1>5 DEF JobInv

(* killWorkers starts a call of Shutdown. *)
LEMMA KillWorkerKeeps ==
    ASSUME JobInv, KillWorker
    PROVE  JobInv'
<1>1. /\ JobTypeOK /\ pc = "killWorkers" /\ killed < Len(workers)
      /\ call' = [call EXCEPT ![Shutdown] = [status |-> "dial",
                                             worker |-> workers[killed + 1]]]
      /\ UNCHANGED <<workers, forwarded, offers, taskChan, held, wg, loop, nRPC,
                     nTasks, concurrent, files, results, output, pc, killed>>
  BY Zenon DEF JobInv, KillWorker, job, worker, disk
<1>2. /\ workers \in Seq(Worker) /\ killed \in Nat /\ killed <= Len(workers)
      /\ call \in [Callee -> CallState]
  BY Zenon, <1>1 DEF JobTypeOK, Callee
<1>3. workers[killed + 1] \in Worker
  <2>1. Len(workers) \in Nat /\ \A i \in 1 .. Len(workers) : workers[i] \in Worker
    BY Zenon, <1>2, SeqElements
  <2> QED  BY <1>1, <1>2, <2>1
<1>4. [status |-> "dial", worker |-> workers[killed + 1]] \in CallState
  BY Zenon, <1>3 DEF CallState
<1>5. call' \in [Callee -> CallState] /\ \A c \in Task : call'[c] = call[c]
  BY Zenon, <1>1, <1>2, <1>4, TaskFacts DEF Callee
<1> QED  BY Zenon, <1>1, <1>2, <1>5, ShutdownCallKeeps

(* The call of Shutdown ends. *)
LEMMA WorkerKilledKeeps ==
    ASSUME JobInv, WorkerKilled
    PROVE  JobInv'
<1>1. /\ JobTypeOK /\ call[Shutdown] # Idle
      /\ call' = [call EXCEPT ![Shutdown] = Idle] /\ killed' = killed + 1
      /\ UNCHANGED <<workers, forwarded, offers, taskChan, held, wg, loop, nRPC,
                     nTasks, concurrent, files, results, output, pc>>
  <2>1. call[Shutdown] # Idle
    BY DEF WorkerKilled, Idle
  <2> QED  BY Zenon, <2>1 DEF JobInv, WorkerKilled, worker, disk
<1>2. killed \in Nat /\ killed < Len(workers) /\ workers \in Seq(Worker)
  BY Zenon, <1>1 DEF JobInv, PhaseInv, JobTypeOK
<1>3. Len(workers) \in Nat
  BY <1>2
<1>4. killed' \in Nat /\ killed' <= Len(workers)
  BY <1>1, <1>2, <1>3
<1>5. call \in [Callee -> CallState] /\ Idle \in CallState
  BY Zenon, <1>1 DEF JobTypeOK, Callee, Idle, CallState
<1>6. /\ call' \in [Callee -> CallState] /\ \A c \in Task : call'[c] = call[c]
      /\ call'[Shutdown] = Idle
  BY Zenon, <1>1, <1>5, TaskFacts DEF Callee
<1> QED  BY Zenon, <1>1, <1>4, <1>6, ShutdownCallKeeps

(* A step of Master.run after schedule() that touches neither the calls    *)
(* nor the files.                                                          *)
LEMMA RunStepKeeps ==
    ASSUME JobInv, UNCHANGED <<workers, forwarded, offers, taskChan, held, wg, killed, call,
                               loop, nRPC, nTasks, concurrent, files, results>>,
           pc \notin Phase, pc' \in {"stopRPCServer", "merge", "done"},
           call[Shutdown] = Idle, OutputComplete'
    PROVE  JobInv'
<1>1. JobTypeOK'
  BY Zenon DEF JobInv, JobTypeOK
<1>2. \A q \in Phase : Active(q)' = Active(q) /\ HeldCount(q)' = HeldCount(q)
  BY Zenon DEF Active, HeldCount
<1>3. \A q \in Phase : Accounting(q)'
  BY Zenon, <1>2 DEF JobInv, Accounting
<1>u. ASSUME NEW q \in Phase PROVE Uses(q)'
  <2>1. Uses(q) /\ Active(q)' = Active(q)
    BY Zenon, <1>2 DEF JobInv
  <2> QED  BY Zenon, <2>1 DEF Uses
<1>4. PhaseInv' /\ RegisteredOnce'
  BY Zenon DEF JobInv, PhaseInv, RegisteredOnce, Phase
<1>5. RunInv' /\ DiskInv'
  BY Zenon DEF JobInv, RunInv, DiskInv, Unfinished
<1> QED  BY Zenon, <1>1, <1>3, <1>u, <1>4, <1>5 DEF JobInv

-----------------------------------------------------------------------------
(* What merge writes. *)

(* ihash names a reduce task for every key. *)
LEMMA ReduceOfKey ==
    ASSUME NEW m \in 0 .. NMap - 1, NEW k \in Keys(Contents[m])
    PROVE  ReduceOf(k) \in 0 .. NReduce - 1
<1>1. IHash[k] \in Nat /\ NReduce \in Nat \ {0}
  BY Zenon, JobAssumption DEF Keys
<1> QED  BY <1>1 DEF ReduceOf

(* A key of the input is in the file of its reduce task and in no other,   *)
(* with all the values it has in the input file.                           *)
LEMMA KeyPlace ==
    ASSUME NEW m, NEW r
    PROVE  /\ \A k : k \in Keys(MapOutput(m, r)) <=>
                        k \in Keys(Contents[m]) /\ ReduceOf(k) = r
           /\ \A k : ReduceOf(k) = r =>
                        ValuesOf(k, MapOutput(m, r)) = ValuesOf(k, Contents[m])
<1> DEFINE D == {i \in DOMAIN Contents[m] : ReduceOf(Contents[m][i][1]) = r}
<1>1. MapOutput(m, r) = [i \in D |-> Contents[m][i]]
  BY Zenon DEF MapOutput, RestrictValues, Restrict
<1>2. ASSUME NEW k
      PROVE  k \in Keys(MapOutput(m, r)) <=> k \in Keys(Contents[m]) /\ ReduceOf(k) = r
  BY <1>1 DEF Keys
<1>3. ASSUME NEW k, ReduceOf(k) = r
      PROVE  ValuesOf(k, MapOutput(m, r)) = ValuesOf(k, Contents[m])
  <2> DEFINE E == {i \in DOMAIN Contents[m] : Contents[m][i][1] = k}
  <2>1. ValuesOf(k, Contents[m]) = [i \in E |-> Contents[m][i]]
    BY Zenon DEF ValuesOf, RestrictValues, Restrict
  <2>2. {i \in D : Contents[m][i][1] = k} = E
    BY Zenon, <1>3
  <2>3. DOMAIN MapOutput(m, r) = D /\ \A i \in D : MapOutput(m, r)[i] = Contents[m][i]
    BY Zenon, <1>1
  <2> HIDE DEF D, E
  <2>4. {i \in DOMAIN MapOutput(m, r) : MapOutput(m, r)[i][1] = k} = E
    BY Zenon, <2>2, <2>3
  <2>5. E \subseteq D
    BY Zenon, <2>2
  <2>6. ValuesOf(k, MapOutput(m, r)) = [i \in E |-> MapOutput(m, r)[i]]
    BY Zenon, <2>4 DEF ValuesOf, RestrictValues, Restrict
  <2> QED  BY Zenon, <2>1, <2>3, <2>5, <2>6
<1> QED  BY Zenon, <1>2, <1>3

(* merge puts complete outputs together to the complete output: no key has *)
(* two reduce tasks.                                                       *)
LEMMA MergeComplete ==
    ASSUME JobInv, Merge
    PROVE  OutputComplete'
<1> DEFINE R == 0 .. NReduce - 1
           M == 0 .. NMap - 1
           all == UNION {Keys(Contents[m]) : m \in M}
           keys == UNION {DOMAIN results[r] : r \in DOMAIN results}
           last(k) == CHOOSE r \in DOMAIN results :
                         /\ k \in DOMAIN results[r]
                         /\ \A s \in DOMAIN results : s > r => k \notin DOMAIN results[s]
<1>1. output' = [k \in keys |-> results[last(k)][k]]
  BY Zenon DEF Merge
<1>2. JobTypeOK /\ DOMAIN results = R
  BY Zenon DEF JobInv, JobTypeOK
<1>3. \A r \in R : results[r] = FullOutput(r)
  <2>1. "reducePhase" \in Phase /\ wg["reducePhase"] = 0 /\ NTasks("reducePhase") = NReduce
    BY Zenon DEF JobInv, PhaseInv, Merge, Phase, NTasks
  <2>2. \A r \in R : ~Unfinished("reducePhase", r)
    BY Zenon, <2>1, NothingLeft DEF JobInv
  <2> QED  BY Zenon, <2>2 DEF JobInv, DiskInv
<1>4. ASSUME NEW r \in R
      PROVE  /\ DOMAIN results[r] = {k \in all : ReduceOf(k) = r}
             /\ \A k \in DOMAIN results[r] :
                   results[r][k] = [m \in M |-> ValuesOf(k, Contents[m])]
  <2>1. results[r] = FullOutput(r)
    BY Zenon, <1>3
  <2>2. DOMAIN results[r] = UNION {Keys(MapOutput(m, r)) : m \in M}
    BY Zenon, <2>1 DEF FullOutput
  <2>3. DOMAIN results[r] = {k \in all : ReduceOf(k) = r}
    BY <2>2, KeyPlace
  <2>4. ASSUME NEW k \in DOMAIN results[r]
        PROVE  results[r][k] = [m \in M |-> ValuesOf(k, Contents[m])]
    <3>1. ReduceOf(k) = r
      BY Zenon, <2>3
    <3>2. results[r][k] = [m \in M |-> ValuesOf(k, MapOutput(m, r))]
      BY Zenon, <2>1, <2>2 DEF FullOutput
    <3>3. \A m \in M : ValuesOf(k, MapOutput(m, r)) = ValuesOf(k, Contents[m])
      BY Zenon, <3>1, KeyPlace
    <3> QED  BY Zenon, <3>2, <3>3
  <2> QED  BY Zenon, <2>3, <2>4
<1>5. \A k \in all : ReduceOf(k) \in R
  BY Zenon, ReduceOfKey
<1> HIDE DEF all, R, M
<1>6. keys = all
  BY <1>2, <1>4, <1>5
<1>7. ASSUME NEW k \in all
      PROVE  results[last(k)][k] = [m \in M |-> ValuesOf(k, Contents[m])]
  <2>1. ReduceOf(k) \in R /\ \A r \in R : k \in DOMAIN results[r] <=> r = ReduceOf(k)
    BY Zenon, <1>4, <1>5
  <2>2. ReduceOf(k) \in Int
    BY <2>1 DEF R
  <2>3. \E r \in DOMAIN results :
           /\ k \in DOMAIN results[r]
           /\ \A s \in DOMAIN results : s > r => k \notin DOMAIN results[s]
    BY <1>2, <2>1, <2>2
  <2>4. last(k) \in DOMAIN results /\ k \in DOMAIN results[last(k)]
    BY Zenon, <2>3
  <2> QED  BY Zenon, <1>2, <1>4, <2>4
<1> HIDE DEF keys, last
<1>8. output' = [k \in all |-> [m \in M |-> ValuesOf(k, Contents[m])]]
  BY Zenon, <1>1, <1>6, <1>7
<1> QED  BY Zenon, <1>8 DEF OutputComplete, all, M

(* The steps of Master.run after schedule() keep the invariant. *)
LEMMA RunKeeps ==
    ASSUME JobInv, KillWorkersReturns \/ StopRPCServer \/ Merge
    PROVE  JobInv'
<1>1. CASE KillWorkersReturns
  BY Zenon, <1>1, RunStepKeeps DEF KillWorkersReturns, worker, disk, Phase, OutputComplete
<1>2. CASE StopRPCServer
  <2>1. call[Shutdown] = Idle
    BY Zenon, <1>2 DEF JobInv, PhaseInv, StopRPCServer
  <2> QED  BY Zenon, <1>2, <2>1, RunStepKeeps
           DEF StopRPCServer, worker, disk, Phase, OutputComplete
<1>3. CASE Merge
  <2>1. call[Shutdown] = Idle /\ OutputComplete'
    BY Zenon, <1>3, MergeComplete DEF JobInv, PhaseInv, Merge
  <2>2. /\ pc = "merge" /\ pc' = "done"
        /\ UNCHANGED <<workers, forwarded, offers, taskChan, held, wg, killed, call, loop,
                       nRPC, nTasks, concurrent, files, results>>
    BY Zenon, <1>3 DEF Merge, worker
  <2> QED  BY Zenon, <2>1, <2>2, RunStepKeeps DEF Phase
<1> QED  BY Zenon, <1>1, <1>2, <1>3

-----------------------------------------------------------------------------
(* The theorems. *)

(* task_chan at first: the tasks in order. *)
LEMMA FirstQueue ==
    ASSUME NEW n \in Nat, NEW s, s = [i \in 1 .. n |-> i - 1]
    PROVE  /\ s \in Seq(0 .. n - 1) /\ s \in Seq(Nat) /\ Len(s) = n
           /\ \A i \in 1 .. n : s[i] = i - 1
           /\ \A t \in 0 .. n - 1 : t + 1 \in 1 .. n /\ s[t + 1] = t
<1>1. \A i \in 1 .. n : i - 1 \in 0 .. n - 1 /\ i - 1 \in Nat
  OBVIOUS
<1>2. s \in [1 .. n -> 0 .. n - 1] /\ s \in [1 .. n -> Nat]
  BY Zenon, <1>1
<1>3. s \in Seq(0 .. n - 1) /\ s \in Seq(Nat) /\ Len(s) = n
  BY <1>2
<1>4. \A i \in 1 .. n : s[i] = i - 1
  BY Zenon
<1>5. \A t \in 0 .. n - 1 : t + 1 \in 1 .. n /\ s[t + 1] = t
  BY <1>4
<1> QED  BY Zenon, <1>3, <1>4, <1>5

(* The job starts with the invariant. *)
LEMMA JobInit == Init => JobInv
<1> SUFFICES ASSUME Init PROVE JobInv
  BY Zenon
<1>1. /\ pc = "mapPhase" /\ workers = <<>> /\ killed = 0
      /\ forwarded = [p \in Phase |-> 0] /\ offers = [p \in Phase |-> {}]
      /\ taskChan = [p \in Phase |-> [i \in 1 .. NTasks(p) |-> i - 1]]
      /\ held = [p \in Phase |-> IF p = "mapPhase" THEN Select ELSE Ended]
      /\ wg = [p \in Phase |-> NTasks(p)]
      /\ call = [c \in Callee |-> Idle]
      /\ loop = [w \in Worker |-> "new"] /\ nRPC = NRPC
      /\ nTasks = [w \in Worker |-> 0] /\ concurrent = [w \in Worker |-> 0]
      /\ files = [f \in (0 .. NMap - 1) \X (0 .. NReduce - 1) |-> NoFile]
      /\ results = [r \in 0 .. NReduce - 1 |-> NoFile]
  BY Zenon DEF Init, Callee
<1>2. \A p \in Phase : /\ NTasks(p) \in Nat /\ held[p] \in {Select, Ended}
                       /\ taskChan[p] = [i \in 1 .. NTasks(p) |-> i - 1]
                       /\ wg[p] = NTasks(p)
  BY Zenon, <1>1, TaskFacts
<1>3. ASSUME NEW p \in Phase
      PROVE  /\ taskChan[p] \in Seq(0 .. NTasks(p) - 1) /\ taskChan[p] \in Seq(Nat)
             /\ Len(taskChan[p]) = NTasks(p)
             /\ \A i \in 1 .. NTasks(p) : taskChan[p][i] = i - 1
             /\ \A t \in 0 .. NTasks(p) - 1 :
                   t + 1 \in 1 .. NTasks(p) /\ taskChan[p][t + 1] = t
  <2>1. NTasks(p) \in Nat /\ taskChan[p] = [i \in 1 .. NTasks(p) |-> i - 1]
    BY Zenon, <1>2
  <2> QED  BY ONLY <2>1, FirstQueue, Zenon
<1>4. \A p \in Phase : Active(p) = {}
  BY Zenon, <1>1, TaskFacts DEF Active, Callee
<1>5. JobTypeOK
  <2>1. taskChan \in [Phase -> Seq(Nat)] /\ wg \in [Phase -> Int]
    <3>1. taskChan = [p \in Phase |-> taskChan[p]] /\ wg = [p \in Phase |-> wg[p]]
      BY Zenon, <1>1
    <3>2. \A p \in Phase : taskChan[p] \in Seq(Nat) /\ wg[p] \in Int
      BY <1>2, <1>3
    <3> QED  BY ONLY Zenon, <3>1, <3>2
  <2>2. held \in [Phase -> Int] /\ \A p \in Phase : held[p] \in {Select, Ended}
    BY <1>1, <1>2 DEF Select, Ended
  <2>3. call \in [Callee -> CallState]
    BY Zenon, <1>1 DEF CallState, Idle
  <2>4. /\ workers \in Seq(Worker) /\ Len(workers) = 0
        /\ forwarded \in [Phase -> Nat] /\ \A p \in Phase : forwarded[p] <= Len(workers)
        /\ offers \in [Phase -> SUBSET ({"worker", "task"} \X Nat \X Worker)]
    BY <1>1
  <2>5. /\ loop \in [Worker -> {"new", "check", "accept", "closed", "crashed"}]
        /\ nRPC \in [Worker -> Int]
        /\ nTasks \in [Worker -> Nat] /\ concurrent \in [Worker -> Nat]
    BY Zenon, <1>1, JobAssumption
  <2>6. /\ files = [f \in (0 .. NMap - 1) \X (0 .. NReduce - 1) |-> files[f]]
        /\ results = [r \in 0 .. NReduce - 1 |-> results[r]]
    BY Zenon, <1>1
  <2> QED  BY Zenon, <1>1, <1>3, <2>1, <2>2, <2>3, <2>4, <2>5, <2>6 DEF JobTypeOK, Callee, Phase
<1>6. ASSUME NEW p \in Phase PROVE Accounting(p)
  <2>1. ~(held[p] >= 0) /\ HeldCount(p) = 0
    <3>1. held[p] \in {Select, Ended}
      BY Zenon, <1>2
    <3>2. ~(held[p] >= 0)
      BY ONLY <3>1 DEF Select, Ended
    <3> QED  BY Zenon, <3>2 DEF HeldCount
  <2>2. Cardinality(Active(p)) = 0
    BY Zenon, <1>4, FS_EmptySet
  <2>3. \A i \in 1 .. NTasks(p) : taskChan[p][i] # held[p]
    BY <1>2, <1>3, <2>1
  <2>4. \A i \in 1 .. NTasks(p) : call[<<p, taskChan[p][i]>>] = Idle
    BY Zenon, <1>1, <1>5, <1>3, TaskNumbers, TaskFacts DEF Callee
  <2>5. \A i, j \in 1 .. NTasks(p) : taskChan[p][i] = taskChan[p][j] => i = j
    <3>1. \A i, j \in 1 .. NTasks(p) : i - 1 = j - 1 => i = j
      OBVIOUS
    <3>2. \A i \in 1 .. NTasks(p) : taskChan[p][i] = i - 1
      BY Zenon, <1>3
    <3> QED  BY ONLY Zenon, <3>1, <3>2
  <2> QED  BY <1>2, <1>3, <2>1, <2>2, <2>3, <2>4, <2>5 DEF Accounting
<1>7. (\A p \in Phase : Uses(p)) /\ RegisteredOnce
  BY <1>1, <1>4 DEF Uses, RegisteredOnce
<1>8. PhaseInv
  BY Zenon, <1>1, <1>4 DEF PhaseInv, Phase, Callee
<1>9. RunInv
  BY Zenon, <1>1 DEF RunInv, Callee, Idle
<1>10. \A p \in Phase : \A t \in 0 .. NTasks(p) - 1 : Unfinished(p, t)
  <2> SUFFICES ASSUME NEW p \in Phase, NEW t \in 0 .. NTasks(p) - 1
               PROVE  \E i \in 1 .. Len(taskChan[p]) : taskChan[p][i] = t
    BY Zenon DEF Unfinished
  <2>1. t + 1 \in 1 .. Len(taskChan[p]) /\ taskChan[p][t + 1] = t
    BY Zenon, <1>3
  <2> QED  BY Zenon, <2>1
<1>11. DiskInv
  BY Zenon, <1>10 DEF DiskInv, Phase, NTasks
<1>12. OutputComplete
  BY Zenon, <1>1 DEF OutputComplete
<1> QED  BY Zenon, <1>5, <1>6, <1>7, <1>8, <1>9, <1>11, <1>12 DEF JobInv

(* Every step keeps the invariant. *)
LEMMA JobNext ==
    ASSUME JobInv, [Next]_vars
    PROVE  JobInv'
<1>1. ASSUME NEW w \in Worker, Register(w) \/ CheckNRPC(w) \/ Crash(w) PROVE JobInv'
  <2>1. CASE Crash(w)
    <3>1. /\ nTasks' \in [Worker -> Nat] /\ concurrent' \in [Worker -> Nat]
          /\ \A v \in Worker : concurrent'[v] >= concurrent[v]
      <4>1. concurrent \in [Worker -> Nat] /\ concurrent' = concurrent
            /\ nTasks \in [Worker -> Nat] /\ nTasks' = nTasks
        BY Zenon, <2>1 DEF Crash, JobInv, JobTypeOK
      <4> QED  BY ONLY <4>1
    <3> QED  BY Zenon, <2>1, <3>1, CrashedKeeps DEF Crash
  <2> QED  BY Zenon, <1>1, <2>1, RegisterKeeps, CheckKeeps
<1>2. ASSUME NEW w \in Worker, NEW c \in Task \cup {Shutdown}, Accept(w, c) PROVE JobInv'
  BY Zenon, <1>2, AcceptKeeps DEF Callee
<1>3. ASSUME NEW p \in Phase, ForwardRegistration(p) \/ TakeTask(p) \/ ScheduleReturns(p)
      PROVE  JobInv'
  BY Zenon, <1>3, ForwardKeeps, TakeTaskKeeps, ScheduleReturnsKeeps
<1>4. ASSUME NEW p \in Phase, NEW o \in offers[p], Assign(p, o) PROVE JobInv'
  BY Zenon, <1>4, AssignKeeps
<1>5. ASSUME NEW c \in Task, TaskDone(c) \/ TaskFailed(c) \/ DoTask(c) \/ DoTaskReturns(c)
      PROVE  JobInv'
  <2>1. c[1] \in Phase /\ c \in TaskOf(c[1])
    BY Zenon, TaskFacts
  <2> QED  BY Zenon, <1>5, <2>1, TaskDoneKeeps, TaskFailedKeeps, DoTaskKeeps, DoTaskReturnsKeeps
<1>6. ASSUME NEW c \in Task \cup {Shutdown}, Dial(c) PROVE JobInv'
  BY Zenon, <1>6, DialKeeps DEF Callee
<1>7. CASE KillWorker \/ WorkerKilled \/ DoShutdown
  BY Zenon, <1>7, KillWorkerKeeps, WorkerKilledKeeps, DoShutdownKeeps
<1>8. CASE KillWorkersReturns \/ StopRPCServer \/ Merge
  BY Zenon, <1>8, RunKeeps
<1>9. CASE UNCHANGED vars
  <2>1. UNCHANGED <<pc, workers, forwarded, offers, taskChan, held, wg, killed, call,
                    loop, nRPC, nTasks, concurrent, files, results, output>>
    BY Zenon, <1>9 DEF vars, job, worker, disk
  <2>2. JobTypeOK'
    BY Zenon, <2>1 DEF JobInv, JobTypeOK
  <2>3. \A q \in Phase : Active(q)' = Active(q) /\ HeldCount(q)' = HeldCount(q)
    BY Zenon, <2>1 DEF Active, HeldCount
  <2>4. \A q \in Phase : Accounting(q)' /\ Uses(q)'
    BY <2>1, <2>3 DEF JobInv, Accounting, Uses
  <2>5. PhaseInv' /\ RegisteredOnce'
    BY Zenon, <2>1, <2>3 DEF JobInv, PhaseInv, RegisteredOnce, Phase
  <2>6. RunInv' /\ DiskInv' /\ OutputComplete'
    BY Zenon, <2>1 DEF JobInv, RunInv, DiskInv, Unfinished, OutputComplete
  <2> QED  BY Zenon, <2>2, <2>4, <2>5, <2>6 DEF JobInv
<1> QED  BY Zenon, <1>1, <1>2, <1>3, <1>4, <1>5, <1>6, <1>7, <1>8, <1>9 DEF Next

(* The invariant holds of every reachable state. *)
LEMMA JobInvariant == Spec => []JobInv
  BY JobInit, JobNext, PTL DEF Spec

(* Types, among them: the WaitGroup is never negative, on which Go panics, *)
(* and task_chan, with room for every task of the phase, never overflows.  *)
THEOREM JobTypeCorrect == Spec => []TypeOK
<1>1. JobInv => TypeOK
  <2> SUFFICES ASSUME JobInv PROVE TypeOK
    BY Zenon
  <2>1. ASSUME NEW p \in Phase
        PROVE  /\ forwarded[p] \in 0 .. Len(workers)
               /\ wg[p] \in 0 .. NTasks(p) /\ Len(taskChan[p]) <= NTasks(p)
    <3>1. forwarded[p] \in Nat /\ forwarded[p] <= Len(workers) /\ workers \in Seq(Worker)
      BY Zenon DEF JobInv, JobTypeOK
    <3> QED  BY <3>1, PendingCounted DEF JobInv
  <2>2. killed \in 0 .. Len(workers)
    BY DEF JobInv, JobTypeOK
  <2> QED  BY Zenon, <2>1, <2>2 DEF JobInv, JobTypeOK, TypeOK
<1> QED  BY <1>1, JobInvariant, PTL

(* No task is lost and none doubled, whatever calls fail: the WaitGroup on *)
(* which schedule() waits counts the tasks that are pending, each of them  *)
(* in one place.                                                           *)
THEOREM NoTaskLost == Spec => []TasksAccountedFor
<1>1. JobInv => TasksAccountedFor
  BY Zenon, PendingCounted DEF JobInv, TasksAccountedFor, Accounting, Active, HeldCount
<1> QED  BY <1>1, JobInvariant, PTL

(* No worker has two RPCs at a time, the case in which DoTask exits with   *)
(* log.Fatal.                                                              *)
THEOREM WorkersNotShared == Spec => []OneRpcPerWorker
<1>1. JobInv => OneRpcPerWorker
  <2> SUFFICES ASSUME JobInv, NEW w \in Worker
               PROVE  Cardinality(At(w, {"queued", "served", "running"})) <= 1
    BY Zenon DEF OneRpcPerWorker
  <2> DEFINE A == At(w, {"queued", "served", "running"})
  <2>1. \A c \in A : c \in Callee /\ call[c] # Idle /\ call[c].worker = w
    BY DEF At, Idle, JobInv, JobTypeOK, Callee
  <2>2. \A c, d \in A : c = d
    BY Zenon, <2>1, OneCall
  <2> HIDE DEF A
  <2>3. A = {} \/ \E c : A = {c}
    BY <2>2
  <2>4. Cardinality(A) \in {0, 1}
    BY Zenon, <2>3, FS_EmptySet, FS_Singleton
  <2> QED  BY <2>4 DEF A
<1> QED  BY <1>1, JobInvariant, PTL

(* A reduce task never reads a file that is missing, half written or being *)
(* written again by a retried map task.                                    *)
THEOREM ReduceReadsComplete == Spec => []ReduceInputsComplete
<1>1. JobInv => ReduceInputsComplete
  <2> SUFFICES ASSUME JobInv, NEW r \in 0 .. NReduce - 1,
                      call[<<"reducePhase", r>>].status = "running"
               PROVE  \A m \in 0 .. NMap - 1 : files[<<m, r>>] = MapOutput(m, r)
    BY Zenon DEF ReduceInputsComplete
  <2>1. <<"reducePhase", r>> \in TaskOf("reducePhase")
    BY Zenon, TaskFacts DEF Phase, NTasks
  <2>2. call[<<"reducePhase", r>>] # Idle
    BY DEF Idle
  <2> QED  BY Zenon, <2>1, <2>2, MapComplete
<1> QED  BY <1>1, JobInvariant, PTL

(* When the job is done its output has every key of the input with all its *)
(* values, whatever workers crashed, quit or registered late.              *)
THEOREM JobOutputComplete == Spec => []OutputComplete
<1>1. JobInv => OutputComplete
  BY Zenon DEF JobInv
<1> QED  BY <1>1, JobInvariant, PTL

=============================================================================
