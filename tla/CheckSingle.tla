----------------------------- MODULE CheckSingle -----------------------------
(* checkSingle of linearizability/linearizability.go: the search for a        *)
(* linearization of the history of one key.  The history is the list          *)
(* makeLinkedEntries is given: a call entry and a return entry per operation, *)
(* in time order.  Here the list the search walks is what it stands for, the  *)
(* entries of the operations not linearized yet, in order;                    *)
(* CheckSingleLinked has the pointers.  One action per branch of the loop.    *)
EXTENDS Integers, Sequences

\* The number of operations and what an operation may be: records with
\* fields op, value (of the input) and output.  A string is a sequence.
CONSTANTS N, Operation

ASSUME HistoryAssumption ==
    /\ N \in Nat
    /\ \A o \in Operation : o.op \in {"get", "put", "append"}
                            /\ o.value \in Seq(Nat) /\ o.output \in Seq(Nat)

VARIABLES
    hist,        \* the entries, in time order
    ops,         \* input and output of each operation
    entry,       \* the entry the loop looks at; End is nil
    state,       \* the value of the key after the linearized operations
    linearized,  \* the bitset of the operations linearized
    cache,       \* the configurations tried so far
    calls,       \* the stack of the operations linearized
    result       \* "searching", or what checkSingle returned

vars == <<hist, ops, entry, state, linearized, cache, calls, result>>

Id == 1..N
Position == 1..(2 * N)
End == 2 * N + 1

(* A bitset, by its members. *)
Bitset == SUBSET Id

(* Histories of N complete operations: every identifier is called once and   *)
(* returns once, later.                                                       *)
Histories ==
    {h \in [Position -> [kind : {"call", "return"}, id : Id]] :
        /\ \A x, y \in Position : h[x] = h[y] => x = y
        /\ \A id \in Id : \E x, y \in Position :
              /\ x < y
              /\ h[x] = [kind |-> "call", id |-> id]
              /\ h[y] = [kind |-> "return", id |-> id]}

(* KvModel.Step: whether the output is the one the model gives in state s,    *)
(* and the state after the operation.                                         *)
StepOk(s, o) == o.op = "get" => o.output = s

NewState(s, o) ==
    CASE o.op = "get" -> s
      [] o.op = "put" -> o.value
      [] o.op = "append" -> s \o o.value

(* The entry after x in the list of the operations outside lin.               *)
EntryAfter(x, lin) ==
    LET rest == {y \in Position : y > x /\ hist[y].id \notin lin}
    IN IF rest = {} THEN End ELSE CHOOSE y \in rest : \A z \in rest : y <= z

HeadEntry(lin) == EntryAfter(0, lin)

Init ==
    /\ hist \in Histories
    /\ ops \in [Id -> Operation]
    /\ entry = IF N = 0 THEN End ELSE 1
    /\ state = <<>>
    /\ linearized = {}
    /\ cache = {}
    /\ calls = <<>>
    /\ result = "searching"

-----------------------------------------------------------------------------

(* The loop goes on while the list has an entry: head is headEntry.next.      *)
Searching(head, kind) ==
    /\ result = "searching"
    /\ head # End
    /\ hist[entry].kind = kind

BugConfiguration(id) == linearized \cup {id}

Configuration(id) == <<linearized \cup {id}, NewState(state, ops[id])>>

(* cacheContains; the hash only narrows the search in the map.                *)
CacheContains(config) == config \in cache

\* A call whose output fits, in a configuration not met before.
Linearize(head, to) ==
    /\ Searching(head, "call")
    /\ LET id == hist[entry].id IN
       /\ StepOk(state, ops[id])
       /\ ~CacheContains(Configuration(id))
       /\ cache' = cache \cup {Configuration(id)}
       /\ calls' = Append(calls, [entry |-> entry, state |-> state])
       /\ state' = NewState(state, ops[id])
       /\ linearized' = linearized \cup {id}
       /\ entry' = to
    /\ UNCHANGED <<hist, ops, result>>

\* A call that cannot come next, or need not be tried again.
Skip(head, to) ==
    /\ Searching(head, "call")
    /\ LET id == hist[entry].id
       IN StepOk(state, ops[id]) => CacheContains(Configuration(id))
    /\ entry' = to
    /\ UNCHANGED <<hist, ops, state, linearized, cache, calls, result>>

BugBacktrack(head, to) ==
    /\ Searching(head, "return")
    /\ calls # <<>>
    /\ linearized' = linearized \ {hist[calls[Len(calls)].entry].id}
    /\ calls' = SubSeq(calls, 1, Len(calls) - 1)
    /\ entry' = to
    /\ UNCHANGED <<hist, ops, state, cache, result>>

\* A return: some operation had to come before this point and could not.
Backtrack(head, to) ==
    /\ Searching(head, "return")
    /\ calls # <<>>
    /\ LET top == calls[Len(calls)] IN
       /\ state' = top.state
       /\ linearized' = linearized \ {hist[top.entry].id}
       /\ calls' = SubSeq(calls, 1, Len(calls) - 1)
       /\ entry' = to
    /\ UNCHANGED <<hist, ops, cache, result>>

ReturnFalse(head) ==
    /\ Searching(head, "return")
    /\ calls = <<>>
    /\ result' = "false"
    /\ UNCHANGED <<hist, ops, entry, state, linearized, cache, calls>>

ReturnTrue(head) ==
    /\ result = "searching"
    /\ head = End
    /\ result' = "true"
    /\ UNCHANGED <<hist, ops, entry, state, linearized, cache, calls>>

Next ==
    \/ LET id == hist[entry].id
       IN Linearize(HeadEntry(linearized), HeadEntry(linearized \cup {id}))
    \/ Skip(HeadEntry(linearized), EntryAfter(entry, linearized))
    \/ LET top == calls[Len(calls)].entry
       IN Backtrack(HeadEntry(linearized),
                    EntryAfter(top, linearized \ {hist[top].id}))
    \/ ReturnFalse(HeadEntry(linearized))
    \/ ReturnTrue(HeadEntry(linearized))

Spec == Init /\ [][Next]_vars

-----------------------------------------------------------------------------
\* What linearizable means.

Before(a, b) ==
    \E x, y \in Position : /\ x < y
                           /\ hist[x] = [kind |-> "return", id |-> a]
                           /\ hist[y] = [kind |-> "call", id |-> b]

(* The operations order[1], ..., order[n], through the values st[0] (the     *)
(* empty string), ..., st[n]: each once, legal, and in real-time order.       *)
IsLinearization(order, n, st) ==
    /\ \A id \in Id : \E i \in 1..n : order[i] = id
    /\ \A i, j \in 1..n : i < j => /\ order[i] # order[j]
                                   /\ ~Before(order[j], order[i])
    /\ st[0] = <<>>
    /\ \A i \in 1..n : /\ StepOk(st[i - 1], ops[order[i]])
                       /\ st[i] = NewState(st[i - 1], ops[order[i]])

Linearizable ==
    \E order \in [1..N -> Id] :
        LET st[i \in 0..N] == IF i = 0 THEN <<>>
                              ELSE NewState(st[i - 1], ops[order[i]])
        IN IsLinearization(order, N, st)

-----------------------------------------------------------------------------
\* Properties.

\* The stack holds configurations of the history (callsEntry, 142-145).
TypeOK ==
    /\ hist \in Histories
    /\ ops \in [Id -> Operation]
    /\ entry \in 1..End
    /\ state \in Seq(Nat)
    /\ linearized \in Bitset
    /\ cache \subseteq Bitset \X Seq(Nat)
    /\ calls \in Seq([entry : Position, state : Seq(Nat)])
    /\ result \in {"searching", "true", "false"}

OpAt(i) == hist[calls[i].entry].id

StateAt(i) == IF i = Len(calls) + 1 THEN state ELSE calls[i].state

(* At any moment of the search the stack is a legal way to start: the        *)
(* linearized operations are those on it, each once, the states saved on it   *)
(* follow from one another up to the current one, and when an operation was   *)
(* chosen no operation left out had returned before it was called.            *)
StackInv ==
    /\ linearized = {OpAt(i) : i \in 1..Len(calls)}
    /\ StateAt(1) = <<>>
    /\ \A i \in 1..Len(calls) :
          /\ hist[calls[i].entry].kind = "call"
          /\ StepOk(StateAt(i), ops[OpAt(i)])
          /\ StateAt(i + 1) = NewState(StateAt(i), ops[OpAt(i)])
          /\ \A j \in 1..(i - 1) : OpAt(j) # OpAt(i)
          /\ \A x \in Position :
                (x < calls[i].entry /\ hist[x].kind = "return") =>
                    \E j \in 1..(i - 1) : OpAt(j) = hist[x].id

\* The loop stands in the list, and since its last restart has passed calls only.
ScanInv ==
    /\ \A x \in Position : (x < entry /\ hist[x].kind = "return") =>
                                hist[x].id \in linearized
    /\ entry \in Position => hist[entry].id \notin linearized
    /\ entry = End => \A x \in Position : hist[x].id \in linearized

(* The two together: what the loop of checkSingle keeps true.                 *)
SearchInv == StackInv /\ ScanInv

StackOrder == [i \in 1..Len(calls) |-> OpAt(i)]

StackStates == [i \in 0..Len(calls) |-> StateAt(i + 1)]

(* When checkSingle returns true, the stack it built is a linearization of    *)
(* the whole history.                                                         *)
TrueHasWitness ==
    result = "true" => IsLinearization(StackOrder, Len(calls), StackStates)

(* checkSingle returns true exactly when the history is linearizable: neither *)
(* the cache nor backtracking at the first return entry loses a solution.     *)
ResultCorrect ==
    /\ result = "true" => Linearizable
    /\ result = "false" => ~Linearizable
=============================================================================
