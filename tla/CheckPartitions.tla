--------------------------- MODULE CheckPartitions ---------------------------
(* CheckOperationsTimeout of linearizability/linearizability.go (and          *)
(* CheckEventsTimeout, which differs in how the entries are made): one        *)
(* goroutine per key runs checkSingle and sends its answer on an unbuffered   *)
(* channel; the caller collects the answers until one is false, all are in,   *)
(* or the timeout fires.                                                      *)
EXTENDS Integers, FiniteSets

\* The keys of the history, and whether a timeout was asked for.
CONSTANTS Partition, HasTimeout

ASSUME PartitionAssumption == IsFiniteSet(Partition) /\ HasTimeout \in BOOLEAN

VARIABLES
    linearizable,  \* what checkSingle finds for each key, if left to finish
    routine,       \* the goroutine: "searching", "sending" or "done"
    answer,        \* the answer it sends
    kill, ok, count,
    pc             \* the caller: "loop", "returned" or "timed out"

checkVars == <<linearizable, routine, answer, kill, ok, count, pc>>

CheckInit ==
    /\ linearizable \in [Partition -> BOOLEAN]
    /\ routine = [p \in Partition |-> "searching"]
    /\ answer = [p \in Partition |-> TRUE]
    /\ kill = FALSE
    /\ ok = TRUE
    /\ count = 0
    /\ pc = "loop"

Answer(p, result) ==
    /\ routine[p] = "searching"
    /\ routine' = [routine EXCEPT ![p] = "sending"]
    /\ answer' = [answer EXCEPT ![p] = result]
    /\ UNCHANGED <<linearizable, kill, ok, count, pc>>

\* checkSingle returns what CheckSingle says it returns.
Finish(p) == Answer(p, linearizable[p])

\* checkSingle finds kill set at the head of its loop.
Killed(p) == kill /\ Answer(p, FALSE)

BugReceive(p) ==
    /\ pc = "loop"
    /\ routine[p] = "sending"
    /\ routine' = [routine EXCEPT ![p] = "done"]
    /\ ok' = answer[p]
    /\ count' = count + 1
    /\ pc' = IF count' >= Cardinality(Partition) THEN "returned" ELSE "loop"
    /\ UNCHANGED <<linearizable, answer, kill>>

\* The comparison is made before the count is raised.
BugLateCount(p) ==
    /\ pc = "loop"
    /\ routine[p] = "sending"
    /\ routine' = [routine EXCEPT ![p] = "done"]
    /\ ok' = (ok /\ answer[p])
    /\ kill' = ~ok'
    /\ count' = IF ok' THEN count + 1 ELSE count
    /\ pc' = IF ~ok' \/ count >= Cardinality(Partition) THEN "returned" ELSE "loop"
    /\ UNCHANGED <<linearizable, answer>>

\* Every key is killed by the first one that is received.
BugEagerKill(p) ==
    /\ pc = "loop"
    /\ routine[p] = "sending"
    /\ routine' = [routine EXCEPT ![p] = "done"]
    /\ ok' = (ok /\ answer[p])
    /\ kill' = TRUE
    /\ count' = IF ok' THEN count + 1 ELSE count
    /\ pc' = IF ~ok' \/ count' >= Cardinality(Partition) THEN "returned" ELSE "loop"
    /\ UNCHANGED <<linearizable, answer>>

\* case result := <-results
Receive(p) ==
    /\ pc = "loop"
    /\ routine[p] = "sending"
    /\ routine' = [routine EXCEPT ![p] = "done"]
    /\ ok' = (ok /\ answer[p])
    /\ kill' = ~ok'
    /\ count' = IF ok' THEN count + 1 ELSE count
    /\ pc' = IF ~ok' \/ count' >= Cardinality(Partition) THEN "returned" ELSE "loop"
    /\ UNCHANGED <<linearizable, answer>>

\* case <-timeoutChan
TimeOut ==
    /\ HasTimeout
    /\ pc = "loop"
    /\ pc' = "timed out"
    /\ UNCHANGED <<linearizable, routine, answer, kill, ok, count>>

Runs == \E p \in Partition : Finish(p) \/ Killed(p) \/ Receive(p)

CheckNext == Runs \/ TimeOut

CheckSpec == CheckInit /\ [][CheckNext]_checkVars

\* Goroutines run, and checkSingle ends (Terminates of CheckSingleLinked).
CheckFairSpec == CheckSpec /\ WF_checkVars(Runs)

-----------------------------------------------------------------------------

(* A false verdict is never the work of the kill flag or of the timeout: some *)
(* key's history is not linearizable (CheckOperationsTimeout returns ok).     *)
FalseIsReal ==
    (pc # "loop" /\ ~ok) => \E p \in Partition : ~linearizable[p]

(* A true verdict reached without the timeout is about every key; with it, a  *)
(* false positive is possible, as the comment at 234 says.                    *)
TrueIsComplete ==
    (pc = "returned" /\ ok) => \A p \in Partition : linearizable[p]

(* The caller returns; a history with no operation has no key, and then only  *)
(* the timeout ends the loop.                                                 *)
Returns == Partition # {} => <>(pc # "loop")
=============================================================================
