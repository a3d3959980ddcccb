------------------------ MODULE LinearizabilityProofs ------------------------
(***************************************************************************)
(* checkSingle says true of the linearizable histories and false of the    *)
(* others, for every number of operations.  True: the stack it has built   *)
(* is a linearization.  False: by CompleteInv no configuration that the    *)
(* search gave up can be completed to one.  Last, the pointers of its      *)
(* list: lift and unlift keep the list of the entries left (LinkInv), and  *)
(* every step of checkSingle is a step of the search over those entries.   *)
(*                                                                         *)
(* At the end, CheckOperationsTimeout, which runs one checkSingle per key: *)
(* for any number of keys neither the kill flag nor the order of the       *)
(* answers changes the verdict.                                            *)
(***************************************************************************)
EXTENDS CheckSingleLinked, CheckPartitions, TLAPS, WellFoundedInduction

CInv == TypeOK /\ SearchInv

-----------------------------------------------------------------------------
(* The list. *)

LEMMA HistoryType ==
    ASSUME TypeOK
    PROVE  /\ \A x \in Position : /\ hist[x].kind \in {"call", "return"}
                                  /\ hist[x].id \in Id
           /\ \A x \in Position : hist[x].kind = "call" =>
                 \E y \in Position : /\ y > x
                                     /\ hist[y].id = hist[x].id
                                     /\ hist[y].kind = "return"
<1>1. hist \in [Position -> [kind : {"call", "return"}, id : Id]]
  BY DEF TypeOK, Histories
<1>2. \A x, y \in Position : hist[x] = hist[y] => x = y
  BY DEF TypeOK, Histories
<1>3. \A id \in Id : \E x, y \in Position :
         /\ x < y
         /\ hist[x] = [kind |-> "call", id |-> id]
         /\ hist[y] = [kind |-> "return", id |-> id]
  BY DEF TypeOK, Histories
<1>5. ASSUME NEW x \in Position, hist[x].kind = "call"
      PROVE  \E y \in Position : /\ y > x
                                 /\ hist[y].id = hist[x].id
                                 /\ hist[y].kind = "return"
  <2>1. PICK z, y \in Position : /\ z < y
                                 /\ hist[z] = [kind |-> "call", id |-> hist[x].id]
                                 /\ hist[y] = [kind |-> "return", id |-> hist[x].id]
    BY <1>1, <1>3
  <2>2. hist[z] = hist[x]
    BY <1>1, <1>5, <2>1
  <2>3. z = x
    BY <1>2, <2>2
  <2>. QED
    BY <2>1, <2>3 DEF Position
<1>. QED
  BY <1>1, <1>5

LEMMA LeastExists ==
    ASSUME NEW S \in SUBSET Nat, S # {}
    PROVE  \E y \in S : \A z \in S : y <= z
<1>1. PICK y \in S : \A z \in S : ~(<<z, y>> \in OpToRel(<, Nat))
  BY NatLessThanWellFounded, WFMin
<1>2. \A z \in S : ~(z < y)
  BY <1>1 DEF OpToRel
<1>. QED
  BY <1>2

LEMMA EntryAfterIs ==
    ASSUME NEW x \in Int, NEW lin
    PROVE  LET e == EntryAfter(x, lin) IN
           /\ e \in 1..End
           /\ e = End => \A y \in Position : y > x => hist[y].id \in lin
           /\ e \in Position => e > x /\ hist[e].id \notin lin
           /\ \A y \in Position : (y > x /\ y < e) => hist[y].id \in lin
<1>. DEFINE rest == {y \in Position : y > x /\ hist[y].id \notin lin}
<1>0. N \in Nat /\ Position \subseteq Nat /\ End \in Nat /\ End > 0
      /\ \A y \in Position : y \in 1..End /\ y < End /\ y # End
  BY HistoryAssumption DEF Position, End
<1>1. CASE rest = {}
  <2>1. EntryAfter(x, lin) = End
    BY <1>1 DEF EntryAfter
  <2>2. End \in 1..End /\ End \notin Position
    BY <1>0
  <2>. QED
    BY <1>1, <2>1, <2>2
<1>2. CASE rest # {}
  <2>1. \E y \in rest : \A z \in rest : y <= z
    BY <1>0, <1>2, LeastExists
  <2>2. EntryAfter(x, lin) = CHOOSE y \in rest : \A z \in rest : y <= z
    BY <1>2 DEF EntryAfter
  <2>3. /\ EntryAfter(x, lin) \in rest
        /\ \A z \in rest : EntryAfter(x, lin) <= z
    BY <2>1, <2>2
  <2>4. ASSUME NEW y \in Position, y > x, y < EntryAfter(x, lin)
        PROVE  hist[y].id \in lin
    <3>1. SUFFICES ASSUME y \in rest PROVE FALSE
      BY <2>4
    <3>2. EntryAfter(x, lin) <= y
      BY <2>3, <3>1
    <3>3. EntryAfter(x, lin) \in Nat /\ y \in Nat
      BY <1>0, <2>3
    <3>. QED
      BY <2>4, <3>2, <3>3
  <2>. QED
    BY <1>0, <2>3, <2>4
<1>. QED
  BY <1>1, <1>2

LEMMA NewStateType ==
    ASSUME NEW s \in Seq(Nat), NEW o \in Operation
    PROVE  NewState(s, o) \in Seq(Nat)
<1>1. o.op \in {"get", "put", "append"} /\ o.value \in Seq(Nat)
  BY HistoryAssumption
<1>. QED
  BY <1>1 DEF NewState

LEMMA SeqElement ==
    ASSUME NEW S, NEW s \in Seq(S), NEW i \in 1..Len(s)
    PROVE  s[i] \in S
OBVIOUS

LEMMA PopIs ==
    ASSUME NEW S, NEW s \in Seq(S), NEW n \in Nat, Len(s) = n + 1
    PROVE  /\ SubSeq(s, 1, n) \in Seq(S)
           /\ Len(SubSeq(s, 1, n)) = n
           /\ \A i \in 1..n : SubSeq(s, 1, n)[i] = s[i]
OBVIOUS

LEMMA CallsType ==
    ASSUME CInv, NEW i \in 1..Len(calls)
    PROVE  calls[i].entry \in Position /\ calls[i].state \in Seq(Nat)
<1>1. calls \in Seq([entry : Position, state : Seq(Nat)])
  BY Zenon DEF CInv, TypeOK
<1>2. calls[i] \in [entry : Position, state : Seq(Nat)]
  BY Zenon, <1>1, SeqElement
<1>. QED
  BY <1>2

(* Steps that leave the search alone.                                      *)
LEMMA SearchUnchanged ==
    ASSUME CInv, result' \in {"searching", "true", "false"},
           UNCHANGED <<hist, ops, entry, state, linearized, cache, calls>>
    PROVE  CInv'
<1>1. TypeOK'
  BY DEF CInv, TypeOK, Bitset, Position, Id, End
<1>2. StackInv'
  BY DEF CInv, SearchInv, StackInv, OpAt, StateAt
<1>3. ScanInv'
  BY DEF CInv, SearchInv, ScanInv
<1>. QED
  BY <1>1, <1>2, <1>3 DEF CInv, SearchInv

(* Where the loop stands when it looks at an entry.                        *)
LEMMA AtEntry ==
    ASSUME CInv, NEW k, Searching(HeadEntry(linearized), k)
    PROVE  entry \in Position /\ hist[entry].id \notin linearized
<1>1. entry \in 1..End
  BY DEF CInv, TypeOK, Bitset
<1>2. entry # End
  <2>1. SUFFICES ASSUME entry = End PROVE FALSE
    OBVIOUS
  <2>2. \A x \in Position : hist[x].id \in linearized
    BY <2>1 DEF CInv, SearchInv, ScanInv
  <2>3. HeadEntry(linearized) \in 1..End /\ HeadEntry(linearized) # End
    BY EntryAfterIs, 0 \in Int DEF Searching, HeadEntry
  <2>4. HeadEntry(linearized) \in Position
    BY HistoryAssumption, <2>3 DEF Position, End
  <2>5. hist[HeadEntry(linearized)].id \notin linearized
    BY EntryAfterIs, 0 \in Int, <2>4 DEF HeadEntry
  <2>. QED
    BY <2>2, <2>4, <2>5
<1>3. entry \in Position
  BY HistoryAssumption, <1>1, <1>2 DEF Position, End
<1>. QED
  BY <1>3 DEF CInv, SearchInv, ScanInv

(* Restarting after a call entry whose operation is still in the list.     *)
LEMMA ScanFrom ==
    ASSUME TypeOK, NEW x \in Position, hist[x].kind = "call", NEW lin,
           hist[x].id \notin lin, NEW e, e = EntryAfter(x, lin),
           \A y \in Position : (y < x /\ hist[y].kind = "return") => hist[y].id \in lin
    PROVE  /\ e \in Position
           /\ hist[e].id \notin lin
           /\ \A y \in Position : (y < e /\ hist[y].kind = "return") => hist[y].id \in lin
<1>0. x \in Int /\ \A y \in Position : y \in Int
  BY DEF Position
<1>1. PICK r \in Position : r > x /\ hist[r].id = hist[x].id
  BY HistoryType
<1>2. /\ e \in 1..End
      /\ e = End => \A y \in Position : y > x => hist[y].id \in lin
      /\ e \in Position => e > x /\ hist[e].id \notin lin
      /\ \A y \in Position : (y > x /\ y < e) => hist[y].id \in lin
  BY <1>0, EntryAfterIs
<1>3. e # End
  BY <1>1, <1>2
<1>4. e \in Position
  BY HistoryAssumption, <1>2, <1>3 DEF Position, End
<1>5. ASSUME NEW y \in Position, y < e, hist[y].kind = "return"
      PROVE  hist[y].id \in lin
  <2>1. y < x \/ y = x \/ y > x
    BY DEF Position
  <2>2. y # x
    BY <1>5
  <2>. QED
    BY <1>2, <1>5, <2>1, <2>2
<1>. QED
  BY <1>2, <1>4, <1>5

-----------------------------------------------------------------------------
(* The invariant. *)

LEMMA InitCInv == Init => CInv
<1>. SUFFICES ASSUME Init PROVE CInv
  OBVIOUS
<1>1. TypeOK
  <2>1. calls \in Seq([entry : Position, state : Seq(Nat)]) /\ state \in Seq(Nat)
    BY DEF Init
  <2>2. entry \in 1..End
    BY HistoryAssumption DEF Init, End
  <2>. QED
    BY <2>1, <2>2 DEF Init, TypeOK, Bitset
<1>2. Len(calls) = 0
  BY DEF Init
<1>3. StackInv
  BY <1>2 DEF Init, StackInv, StateAt
<1>4. ScanInv
  BY HistoryAssumption DEF Init, ScanInv, Position, End
<1>. QED
  BY <1>1, <1>3, <1>4 DEF CInv, SearchInv

LEMMA LinearizeKeeps ==
    ASSUME CInv, Linearize(HeadEntry(linearized), HeadEntry(linearized \cup {hist[entry].id}))
    PROVE  CInv'
<1>0. entry \in Position /\ hist[entry].id \notin linearized
  BY AtEntry DEF Linearize
<1>id. PICK id \in Id : id = hist[entry].id
  BY <1>0, HistoryType DEF CInv
<1>n. PICK n \in Nat : n = Len(calls)
  BY DEF CInv, TypeOK, Bitset
<1>1. /\ hist' = hist /\ ops' = ops /\ result' = result
      /\ Searching(HeadEntry(linearized), "call") /\ hist[entry].kind = "call"
      /\ StepOk(state, ops[id])
      /\ cache' = cache \cup {<<linearized \cup {id}, NewState(state, ops[id])>>}
      /\ calls' = Append(calls, [entry |-> entry, state |-> state])
      /\ state' = NewState(state, ops[id])
      /\ linearized' = linearized \cup {id}
      /\ entry' = EntryAfter(0, linearized \cup {id})
  BY <1>id DEF Linearize, Searching, Configuration, HeadEntry
<1>2. entry \in Position /\ id \notin linearized
  BY <1>0, <1>id
<1>4. /\ Len(calls') = n + 1
      /\ calls'[n + 1] = [entry |-> entry, state |-> state]
      /\ \A i \in 1..n : calls'[i] = calls[i]
  BY <1>1, <1>n DEF CInv, TypeOK, Bitset
<1>5. /\ entry' \in 1..End
      /\ entry' = End => \A y \in Position : y > 0 => hist[y].id \in linearized'
      /\ entry' \in Position => hist[entry'].id \notin linearized'
      /\ \A y \in Position : (y > 0 /\ y < entry') => hist[y].id \in linearized'
  BY <1>1, EntryAfterIs, 0 \in Int
<1>6. TypeOK'
  <2>1. state' \in Seq(Nat)
    BY <1>1, NewStateType DEF CInv, TypeOK, Bitset
  <2>2. calls' \in Seq([entry : Position, state : Seq(Nat)])
    BY <1>1, <1>2 DEF CInv, TypeOK, Bitset
  <2>3. linearized' \in SUBSET Id
    BY <1>1 DEF CInv, TypeOK, Bitset
  <2>4. cache' \subseteq (SUBSET Id) \X Seq(Nat)
    BY <1>1, <2>1, <2>3 DEF CInv, TypeOK, Bitset
  <2>. QED
    BY <1>1, <1>5, <2>1, <2>2, <2>3, <2>4 DEF CInv, TypeOK, Bitset, Position, Id, End
<1>7. \A i \in 1..n : OpAt(i)' = OpAt(i)
  BY <1>1, <1>4 DEF OpAt
<1>8. OpAt(n + 1)' = id
  BY <1>1, <1>4, <1>id DEF OpAt
<1>9. \A i \in 1..(n + 1) : StateAt(i)' = StateAt(i)
  BY <1>4, <1>n DEF StateAt
<1>10. StateAt(n + 2)' = state' /\ StateAt(n + 1) = state
  BY <1>4, <1>n DEF StateAt
<1>11. linearized = {OpAt(i) : i \in 1..n} /\ StateAt(1) = <<>>
  BY <1>n DEF CInv, SearchInv, StackInv
<1>12. ASSUME NEW i \in 1..n
       PROVE  /\ hist[calls[i].entry].kind = "call"
              /\ StepOk(StateAt(i), ops[OpAt(i)])
              /\ StateAt(i + 1) = NewState(StateAt(i), ops[OpAt(i)])
              /\ \A j \in 1..(i - 1) : OpAt(j) # OpAt(i)
              /\ \A x \in Position :
                    (x < calls[i].entry /\ hist[x].kind = "return") =>
                        \E j \in 1..(i - 1) : OpAt(j) = hist[x].id
  BY <1>n DEF CInv, SearchInv, StackInv
<1>13. StackInv'
  <2>1. linearized' = {OpAt(i)' : i \in 1..(n + 1)}
    <3>1. 1..(n + 1) = 1..n \cup {n + 1}
      BY <1>4
    <3>. QED
      BY <1>1, <1>7, <1>8, <1>11, <3>1
  <2>2. StateAt(1)' = <<>>
    BY <1>4, <1>9, <1>11
  <2>3. ASSUME NEW i \in 1..n
        PROVE  /\ hist'[calls'[i].entry].kind = "call"
               /\ StepOk(StateAt(i)', ops'[OpAt(i)'])
               /\ StateAt(i + 1)' = NewState(StateAt(i)', ops'[OpAt(i)'])
               /\ \A j \in 1..(i - 1) : OpAt(j)' # OpAt(i)'
               /\ \A x \in Position :
                     (x < calls'[i].entry /\ hist'[x].kind = "return") =>
                         \E j \in 1..(i - 1) : OpAt(j)' = hist'[x].id
    <3>1. i \in 1..(n + 1) /\ i + 1 \in 1..(n + 1) /\ 1..(i - 1) \subseteq 1..n
      BY <1>4
    <3>2. /\ hist' = hist /\ ops' = ops /\ calls'[i] = calls[i] /\ OpAt(i)' = OpAt(i)
          /\ StateAt(i)' = StateAt(i) /\ StateAt(i + 1)' = StateAt(i + 1)
      BY Zenon, <1>1, <1>4, <1>7, <1>9, <3>1
    <3>3. \A j \in 1..(i - 1) : OpAt(j)' = OpAt(j)
      BY Zenon, <1>7, <3>1
    <3>. QED
      BY <1>12, <3>2, <3>3
  <2>4. /\ hist'[calls'[n + 1].entry].kind = "call"
        /\ StepOk(StateAt(n + 1)', ops'[OpAt(n + 1)'])
        /\ StateAt(n + 2)' = NewState(StateAt(n + 1)', ops'[OpAt(n + 1)'])
        /\ \A j \in 1..n : OpAt(j)' # OpAt(n + 1)'
        /\ \A x \in Position :
              (x < calls'[n + 1].entry /\ hist'[x].kind = "return") =>
                  \E j \in 1..n : OpAt(j)' = hist'[x].id
    <3>1. n + 1 \in 1..(n + 1)
      BY <1>4
    <3>2. StateAt(n + 1)' = state
      BY <1>9, <1>10, <3>1
    <3>3. \A j \in 1..n : OpAt(j)' # OpAt(n + 1)'
      BY <1>2, <1>7, <1>8, <1>11
    <3>4. \A x \in Position : (x < entry /\ hist[x].kind = "return") =>
                                   hist[x].id \in linearized
      BY DEF CInv, SearchInv, ScanInv
    <3>5. \A x \in Position :
              (x < calls'[n + 1].entry /\ hist'[x].kind = "return") =>
                  \E j \in 1..n : OpAt(j)' = hist'[x].id
      BY <1>1, <1>4, <1>7, <1>11, <3>4
    <3>. QED
      BY <1>1, <1>4, <1>8, <1>10, <3>2, <3>3, <3>5
  <2>5. \A i \in 1..(n + 1) : i \in 1..n \/ i = n + 1
    BY <1>4
  <2>6. (n + 1) + 1 = n + 2 /\ (n + 1) - 1 = n
    BY <1>4
  <2>7. \A i \in 1..(n + 1) :
           /\ hist'[calls'[i].entry].kind = "call"
           /\ StepOk(StateAt(i)', ops'[OpAt(i)'])
           /\ StateAt(i + 1)' = NewState(StateAt(i)', ops'[OpAt(i)'])
           /\ \A j \in 1..(i - 1) : OpAt(j)' # OpAt(i)'
           /\ \A x \in Position :
                 (x < calls'[i].entry /\ hist'[x].kind = "return") =>
                     \E j \in 1..(i - 1) : OpAt(j)' = hist'[x].id
    BY <2>3, <2>4, <2>5, <2>6
  <2>. QED
    BY <1>4, <2>1, <2>2, <2>7 DEF StackInv, StepOk, NewState, Position
<1>14. ScanInv'
  <2>1. \A y \in Position : y > 0
    BY DEF Position
  <2>2. \A x \in Position : x < entry' => hist'[x].id \in linearized'
    BY <1>1, <1>5, <2>1
  <2>. QED
    BY <1>1, <1>5, <2>1, <2>2 DEF ScanInv, Position, End
<1>. QED
  BY <1>6, <1>13, <1>14 DEF CInv, SearchInv

LEMMA SkipKeeps ==
    ASSUME CInv, Skip(HeadEntry(linearized), EntryAfter(entry, linearized))
    PROVE  CInv'
<1>1. /\ UNCHANGED <<hist, ops, state, linearized, cache, calls, result>>
      /\ Searching(HeadEntry(linearized), "call") /\ hist[entry].kind = "call"
      /\ entry' = EntryAfter(entry, linearized)
  BY DEF Skip, Searching
<1>2. entry \in Position /\ hist[entry].id \notin linearized
  BY <1>1, AtEntry
<1>3. /\ entry' \in Position
      /\ hist[entry'].id \notin linearized
      /\ \A y \in Position : (y < entry' /\ hist[y].kind = "return") =>
                                 hist[y].id \in linearized
  <2>1. \A y \in Position : (y < entry /\ hist[y].kind = "return") =>
                                hist[y].id \in linearized
    BY DEF CInv, SearchInv, ScanInv
  <2>. QED
    BY <1>1, <1>2, <2>1, ScanFrom DEF CInv
<1>4. entry' \in 1..End /\ entry' # End
  BY HistoryAssumption, <1>3 DEF Position, End
<1>5. TypeOK'
  BY SMTT(20), <1>1, <1>4 DEF CInv, TypeOK, Bitset, Position, Id, End
<1>6. StackInv'
  <2>1. \A i : OpAt(i)' = OpAt(i) /\ StateAt(i)' = StateAt(i)
    BY <1>1 DEF OpAt, StateAt
  <2>2. StackInv
    BY DEF CInv, SearchInv
  <2>. QED
    BY Zenon, <1>1, <2>1, <2>2 DEF StackInv, Position
<1>7. ScanInv'
  BY <1>1, <1>3, <1>4 DEF ScanInv, Position, End
<1>. QED
  BY <1>5, <1>6, <1>7 DEF CInv, SearchInv

LEMMA BacktrackKeeps ==
    ASSUME CInv,
           LET top == calls[Len(calls)].entry
           IN Backtrack(HeadEntry(linearized), EntryAfter(top, linearized \ {hist[top].id}))
    PROVE  CInv'
<1>0. calls # <<>>
  BY DEF Backtrack
<1>n. PICK n \in Nat : Len(calls) = n + 1
  <2>1. Len(calls) \in Nat /\ Len(calls) # 0
    BY <1>0 DEF CInv, TypeOK, Bitset
  <2>. QED
    BY <2>1
<1>top. PICK top \in Position : top = calls[n + 1].entry
  <2>1. n + 1 \in 1..Len(calls)
    BY <1>n
  <2>. QED
    BY <2>1, CallsType
<1>id. PICK id \in Id : id = hist[top].id
  BY HistoryType DEF CInv
<1>1. /\ hist' = hist /\ ops' = ops /\ result' = result /\ cache' = cache
      /\ state' = calls[n + 1].state
      /\ linearized' = linearized \ {id}
      /\ calls' = SubSeq(calls, 1, n)
      /\ entry' = EntryAfter(top, linearized')
  BY <1>n, <1>top, <1>id DEF Backtrack
<1>2. /\ Len(calls') = n
      /\ \A i \in 1..n : calls'[i] = calls[i]
      /\ calls' \in Seq([entry : Position, state : Seq(Nat)])
  BY <1>1, <1>n, PopIs DEF CInv, TypeOK, Bitset
<1>3. \A i \in 1..n : OpAt(i)' = OpAt(i)
  BY SMTT(20), <1>1, <1>2 DEF OpAt
<1>4. OpAt(n + 1) = id
  BY <1>top, <1>id DEF OpAt
<1>5. \A i \in 1..(n + 1) : StateAt(i)' = StateAt(i)
  BY <1>1, <1>2, <1>n DEF StateAt
<1>6. linearized = {OpAt(i) : i \in 1..(n + 1)} /\ StateAt(1) = <<>>
  BY <1>n DEF CInv, SearchInv, StackInv
<1>7. ASSUME NEW i \in 1..(n + 1)
      PROVE  /\ hist[calls[i].entry].kind = "call"
             /\ StepOk(StateAt(i), ops[OpAt(i)])
             /\ StateAt(i + 1) = NewState(StateAt(i), ops[OpAt(i)])
             /\ \A j \in 1..(i - 1) : OpAt(j) # OpAt(i)
             /\ \A x \in Position :
                   (x < calls[i].entry /\ hist[x].kind = "return") =>
                       \E j \in 1..(i - 1) : OpAt(j) = hist[x].id
  BY SMTT(20), <1>n DEF CInv, SearchInv, StackInv
<1>8. n + 1 \in 1..(n + 1) /\ (n + 1) - 1 = n /\ 1 \in 1..(n + 1)
      /\ 1..(n + 1) = 1..n \cup {n + 1} /\ n + 1 \notin 1..n
  OBVIOUS
<1>9. linearized' = {OpAt(i) : i \in 1..n}
  <2>1. \A j \in 1..n : OpAt(j) # id
    BY <1>4, <1>7, <1>8
  <2>. QED
    BY <1>1, <1>4, <1>6, <1>8, <2>1
<1>10. /\ entry' \in Position
       /\ hist[entry'].id \notin linearized'
       /\ \A y \in Position : (y < entry' /\ hist[y].kind = "return") =>
                                  hist[y].id \in linearized'
  <2>1. hist[top].kind = "call" /\ hist[top].id \notin linearized'
    BY SMTT(20), <1>1, <1>7, <1>8, <1>top, <1>id
  <2>2. \A y \in Position : (y < top /\ hist[y].kind = "return") =>
                                hist[y].id \in linearized'
    BY <1>7, <1>8, <1>9, <1>top
  <2>. QED
    BY <1>1, <2>1, <2>2, ScanFrom DEF CInv
<1>11. entry' \in 1..End /\ entry' # End
  BY HistoryAssumption, <1>10 DEF Position, End
<1>12. TypeOK'
  <2>1. state' \in Seq(Nat)
    BY <1>1, <1>8, <1>n, CallsType
  <2>. QED
    BY <1>1, <1>2, <1>11, <2>1 DEF CInv, TypeOK, Bitset, Position, Id, End
<1>13. StackInv'
  <2>1. linearized' = {OpAt(i)' : i \in 1..n}
    BY <1>3, <1>9
  <2>2. StateAt(1)' = <<>>
    BY <1>5, <1>6, <1>8
  <2>3. ASSUME NEW i \in 1..n
        PROVE  /\ hist'[calls'[i].entry].kind = "call"
               /\ StepOk(StateAt(i)', ops'[OpAt(i)'])
               /\ StateAt(i + 1)' = NewState(StateAt(i)', ops'[OpAt(i)'])
               /\ \A j \in 1..(i - 1) : OpAt(j)' # OpAt(i)'
               /\ \A x \in Position :
                     (x < calls'[i].entry /\ hist'[x].kind = "return") =>
                         \E j \in 1..(i - 1) : OpAt(j)' = hist'[x].id
    <3>1. i \in 1..(n + 1) /\ i + 1 \in 1..(n + 1) /\ 1..(i - 1) \subseteq 1..n
      OBVIOUS
    <3>2. /\ hist[calls[i].entry].kind = "call"
          /\ StepOk(StateAt(i), ops[OpAt(i)])
          /\ StateAt(i + 1) = NewState(StateAt(i), ops[OpAt(i)])
          /\ \A j \in 1..(i - 1) : OpAt(j) # OpAt(i)
          /\ \A x \in Position :
                (x < calls[i].entry /\ hist[x].kind = "return") =>
                    \E j \in 1..(i - 1) : OpAt(j) = hist[x].id
      BY <1>7, <3>1
    <3>. QED
      BY <1>1, <1>2, <1>3, <1>5, <3>1, <3>2
  <2>. QED
    BY <1>2, <2>1, <2>2, <2>3 DEF StackInv, StepOk, NewState, Position
<1>14. ScanInv'
  BY <1>1, <1>10, <1>11 DEF ScanInv, Position, End
<1>. QED
  BY <1>12, <1>13, <1>14 DEF CInv, SearchInv

(* The stack when nothing is left in the list.                             *)
LEMMA StackIsLinearization ==
    ASSUME CInv, HeadEntry(linearized) = End
    PROVE  IsLinearization(StackOrder, Len(calls), StackStates)
<1>. DEFINE n == Len(calls)
            order == [i \in 1..n |-> OpAt(i)]
            st == [i \in 0..n |-> StateAt(i + 1)]
<1>1. n \in Nat
  BY DEF CInv, TypeOK, Bitset
<1>2. \A i \in 1..n : /\ order[i] = OpAt(i)
                      /\ st[i] = StateAt(i + 1)
                      /\ st[i - 1] = StateAt(i)
  BY <1>1
<1>3. st[0] = <<>>
  BY <1>1 DEF CInv, SearchInv, StackInv
<1>4. linearized = {OpAt(i) : i \in 1..n}
  BY DEF CInv, SearchInv, StackInv
<1>5. ASSUME NEW i \in 1..n
      PROVE  /\ hist[calls[i].entry].kind = "call"
             /\ StepOk(StateAt(i), ops[OpAt(i)])
             /\ StateAt(i + 1) = NewState(StateAt(i), ops[OpAt(i)])
             /\ \A j \in 1..(i - 1) : OpAt(j) # OpAt(i)
             /\ \A x \in Position :
                   (x < calls[i].entry /\ hist[x].kind = "return") =>
                       \E j \in 1..(i - 1) : OpAt(j) = hist[x].id
  BY DEF CInv, SearchInv, StackInv
<1>6. \A i \in 1..n : calls[i].entry \in Position
  BY CallsType
<1>. HIDE DEF n, order, st
<1>7. ASSUME NEW id \in Id
      PROVE  \E i \in 1..n : order[i] = id
  <2>1. PICK x \in Position : hist[x].id = id
    <3>1. \E x, y \in Position : hist[x] = [kind |-> "call", id |-> id]
      BY DEF CInv, TypeOK, Bitset, Histories
    <3>. QED
      BY <3>1
  <2>2. x > 0
    BY DEF Position
  <2>3. id \in linearized
    BY EntryAfterIs, 0 \in Int, <2>1, <2>2 DEF HeadEntry
  <2>. QED
    BY <1>2, <1>4, <2>3
<1>8. ASSUME NEW i \in 1..n, NEW j \in 1..n, i < j
      PROVE  order[i] # order[j] /\ ~Before(order[j], order[i])
  <2>0. i \in 1..(j - 1) /\ (\A k \in 1..(i - 1) : k \in 1..(j - 1))
    BY <1>1, <1>8
  <2>1. order[i] # order[j]
    BY <1>2, <1>5, <2>0
  <2>2. SUFFICES ASSUME Before(order[j], order[i]) PROVE FALSE
    BY <2>1
  <2>3. PICK x, y \in Position : /\ x < y
                                 /\ hist[x] = [kind |-> "return", id |-> OpAt(j)]
                                 /\ hist[y] = [kind |-> "call", id |-> OpAt(i)]
    BY <1>2, <2>2 DEF Before
  <2>4. hist[x].kind = "return" /\ hist[x].id = OpAt(j)
    BY <2>3
  <2>5. y = calls[i].entry
    <3>1. /\ \A u \in Position : hist[u] \in [kind : {"call", "return"}, id : Id]
          /\ \A u, v \in Position : hist[u] = hist[v] => u = v
      BY DEF CInv, TypeOK, Histories
    <3>2. /\ calls[i].entry \in Position
          /\ hist[calls[i].entry].kind = "call" /\ hist[calls[i].entry].id = OpAt(i)
      BY <1>5, <1>6 DEF OpAt
    <3>3. hist[calls[i].entry] = hist[y]
      BY <2>3, <3>1, <3>2
    <3>. QED BY Zenon, <2>3, <3>1, <3>2, <3>3
  <2>6. PICK k \in 1..(i - 1) : OpAt(k) = OpAt(j)
    BY <1>5, <2>3, <2>4, <2>5
  <2>. QED
    BY <1>5, <2>0, <2>6
<1>9. \A i \in 1..n : /\ StepOk(st[i - 1], ops[order[i]])
                      /\ st[i] = NewState(st[i - 1], ops[order[i]])
  BY <1>2, <1>5
<1>10. IsLinearization(order, n, st)
  BY <1>3, <1>7, <1>8, <1>9 DEF IsLinearization
<1>. QED
  BY <1>10 DEF order, n, st, StackOrder, StackStates

-----------------------------------------------------------------------------

WInv == CInv /\ TrueHasWitness

LEMMA WitnessUnchanged ==
    ASSUME UNCHANGED <<hist, ops, calls, state>>,
           IsLinearization(StackOrder, Len(calls), StackStates)
    PROVE  IsLinearization(StackOrder, Len(calls), StackStates)'
<1>1. /\ hist' = hist /\ ops' = ops /\ calls' = calls /\ state' = state
  OBVIOUS
<1>2. \A i : OpAt(i)' = OpAt(i) /\ StateAt(i)' = StateAt(i)
  BY <1>1 DEF OpAt, StateAt
<1>3. StackOrder' = StackOrder /\ StackStates' = StackStates
  BY <1>1, <1>2 DEF StackOrder, StackStates
<1>. QED
  BY <1>1, <1>3 DEF IsLinearization, Before

LEMMA StepKeeps == WInv /\ [Next]_vars => WInv'
<1>. SUFFICES ASSUME WInv, [Next]_vars PROVE WInv'
  OBVIOUS
<1>0. CInv
  BY DEF WInv
<1>1. CASE LET id == hist[entry].id IN Linearize(HeadEntry(linearized), HeadEntry(linearized \cup {id}))
  <2>1. result' = "searching"
    BY <1>1 DEF Linearize, Searching
  <2>2. CInv'
    BY <1>0, <1>1, LinearizeKeeps
  <2>. QED
    BY <2>1, <2>2 DEF WInv, TrueHasWitness
<1>2. CASE Skip(HeadEntry(linearized), EntryAfter(entry, linearized))
  <2>1. result' = "searching"
    BY <1>2 DEF Skip, Searching
  <2>2. CInv'
    BY <1>0, <1>2, SkipKeeps
  <2>. QED
    BY <2>1, <2>2 DEF WInv, TrueHasWitness
<1>3. CASE LET top == calls[Len(calls)].entry
           IN Backtrack(HeadEntry(linearized), EntryAfter(top, linearized \ {hist[top].id}))
  <2>1. result' = "searching"
    BY <1>3 DEF Backtrack, Searching
  <2>2. CInv'
    BY <1>0, <1>3, BacktrackKeeps
  <2>. QED
    BY <2>1, <2>2 DEF WInv, TrueHasWitness
<1>4. CASE ReturnFalse(HeadEntry(linearized))
  <2>1. CInv'
    BY <1>0, <1>4, SearchUnchanged DEF ReturnFalse
  <2>. QED
    BY <1>4, <2>1 DEF ReturnFalse, WInv, TrueHasWitness
<1>5. CASE ReturnTrue(HeadEntry(linearized))
  <2>1. CInv'
    BY <1>0, <1>5, SearchUnchanged DEF ReturnTrue
  <2>2. IsLinearization(StackOrder, Len(calls), StackStates)
    BY <1>0, <1>5, StackIsLinearization DEF ReturnTrue
  <2>3. UNCHANGED <<hist, ops, calls, state>>
    BY <1>5 DEF ReturnTrue
  <2>. QED
    BY <2>1, <2>2, <2>3, WitnessUnchanged DEF WInv, TrueHasWitness
<1>6. CASE UNCHANGED vars
  <2>1. UNCHANGED <<hist, ops, calls, state>> /\ result' = result
    BY <1>6 DEF vars
  <2>2. CInv'
    BY <1>0, <1>6, SearchUnchanged DEF vars, CInv, TypeOK, Bitset
  <2>. QED
    BY <2>1, <2>2, WitnessUnchanged DEF WInv, TrueHasWitness
<1>. QED
  BY <1>1, <1>2, <1>3, <1>4, <1>5, <1>6 DEF Next

LEMMA InitWInv == Init => WInv
<1>1. Init => TrueHasWitness
  BY DEF Init, TrueHasWitness
<1>. QED
  BY Zenon, <1>1, InitCInv DEF WInv

(* For every number of operations and every history, the stack of          *)
(* checkSingle is always a legal start of a linearization (callsEntry,     *)
(* lift, unlift).                                                          *)
THEOREM StackIsLegal == Spec => []SearchInv
<1>1. WInv => SearchInv
  BY Zenon DEF WInv, CInv
<1>. QED
  BY <1>1, InitWInv, StepKeeps, PTL DEF Spec

(* When checkSingle returns true its stack is a linearization of the whole *)
(* history.                                                                *)
THEOREM TrueOnlyIfLinearizable == Spec => []TrueHasWitness
<1>1. WInv => TrueHasWitness
  BY Zenon DEF WInv
<1>. QED
  BY <1>1, InitWInv, StepKeeps, PTL DEF Spec

-----------------------------------------------------------------------------
(* What is left to linearize. *)

(* a returned before b was called, in the history h.                       *)
Precedes(h, a, b) ==
    \E x, y \in Position : /\ x < y
                           /\ h[x] = [kind |-> "return", id |-> a]
                           /\ h[y] = [kind |-> "call", id |-> b]

(* order[1], ..., order[n] are the operations outside S, each once, legal  *)
(* from the value v on through st[1], ..., st[n], and in real-time order.  *)
Completes(h, o, S, v, n, order, st) ==
    /\ n \in Nat
    /\ \A i \in 1..n : order[i] \in Id /\ order[i] \notin S
    /\ \A id \in Id : id \notin S => \E i \in 1..n : order[i] = id
    /\ \A i, j \in 1..n : i < j => /\ order[i] # order[j]
                                   /\ ~Precedes(h, order[j], order[i])
    /\ st[0] = v
    /\ \A i \in 1..n : /\ StepOk(st[i - 1], o[order[i]])
                       /\ st[i] = NewState(st[i - 1], o[order[i]])

(* The configuration <<S, v>> can be completed to a linearization.         *)
Completable(h, o, S, v) == \E n, order, st : Completes(h, o, S, v, n, order, st)

(* No completion of <<S, v>> begins with an operation called before c.     *)
Tried(h, o, S, v, c) ==
    \A x \in Position :
        /\ x < c /\ h[x].kind = "call" /\ h[x].id \notin S
        /\ StepOk(v, o[h[x].id])
        => ~Completable(h, o, S \cup {h[x].id}, NewState(v, o[h[x].id]))

(* A linearization completes the empty configuration.                      *)
LEMMA LinearizableCompletes ==
    ASSUME Linearizable
    PROVE  Completable(hist, ops, {}, <<>>)
<1>0. PICK order \in [1..N -> Id] : \E st : IsLinearization(order, N, st)
  BY Zenon DEF Linearizable
<1>1. PICK st : IsLinearization(order, N, st)
  BY Zenon, <1>0
<1>2. \A i \in 1..N : order[i] \in Id /\ order[i] \notin {}
  BY Zenon
<1>3. Completes(hist, ops, {}, <<>>, N, order, st)
  BY Zenon, <1>1, <1>2, HistoryAssumption
  DEF IsLinearization, Completes, Before, Precedes
<1>. QED
  BY Zenon, <1>3 DEF Completable

(* After the first operation of a completion the others are left.          *)
LEMMA CompletesTail ==
    ASSUME NEW h, NEW o, NEW S, NEW v, NEW n, NEW order, NEW st,
           Completes(h, o, S, v, n, order, st), n > 0
    PROVE  Completable(h, o, S \cup {order[1]}, NewState(v, o[order[1]]))
<1>. DEFINE m == n - 1
            a == order[1]
            order2 == [i \in 1..m |-> order[i + 1]]
            st2 == [i \in 0..m |-> st[i + 1]]
<1>1. /\ m \in Nat /\ n \in Nat /\ 1 \in 1..n /\ 0 \in 0..m
      /\ \A i \in 1..m : i + 1 \in 1..n /\ 1 < i + 1 /\ i \in 0..m /\ i - 1 \in 0..m
      /\ \A i \in 1..m : (i + 1) - 1 = i /\ (i - 1) + 1 = i
      /\ \A i \in 1..n : i = 1 \/ (i - 1 \in 1..m /\ (i - 1) + 1 = i)
      /\ \A i, j \in 1..m : i < j => i + 1 < j + 1
      /\ 0 + 1 = 1 /\ 1 - 1 = 0
  BY DEF Completes
<1>2. /\ \A i \in 1..m : order2[i] = order[i + 1]
      /\ \A i \in 0..m : st2[i] = st[i + 1]
  BY Zenon
<1>. HIDE DEF m, order2, st2
<1>3. ASSUME NEW i \in 1..m
      PROVE  order2[i] \in Id /\ order2[i] \notin S \cup {a}
  <2>1. order2[i] = order[i + 1] /\ i + 1 \in 1..n /\ 1 < i + 1 /\ 1 \in 1..n
    BY Zenon, <1>1, <1>2
  <2>. QED
    BY Zenon, <2>1 DEF Completes
<1>4. ASSUME NEW id \in Id, id \notin S \cup {a}
      PROVE  \E i \in 1..m : order2[i] = id
  <2>1. PICK i \in 1..n : order[i] = id
    BY Zenon, <1>4 DEF Completes
  <2>2. i - 1 \in 1..m /\ (i - 1) + 1 = i
    BY Zenon, <1>1, <1>4, <2>1
  <2>. QED
    BY Zenon, <1>2, <2>1, <2>2
<1>5. ASSUME NEW i \in 1..m, NEW j \in 1..m, i < j
      PROVE  order2[i] # order2[j] /\ ~Precedes(h, order2[j], order2[i])
  <2>1. /\ order2[i] = order[i + 1] /\ order2[j] = order[j + 1]
        /\ i + 1 \in 1..n /\ j + 1 \in 1..n /\ i + 1 < j + 1
    BY Zenon, <1>1, <1>2, <1>5
  <2>. QED
    BY Zenon, <2>1 DEF Completes
<1>6. st2[0] = NewState(v, o[a])
  BY Zenon, <1>1, <1>2 DEF Completes
<1>7. ASSUME NEW i \in 1..m
      PROVE  /\ StepOk(st2[i - 1], o[order2[i]])
             /\ st2[i] = NewState(st2[i - 1], o[order2[i]])
  <2>1. st2[i - 1] = st[i] /\ st2[i] = st[i + 1] /\ order2[i] = order[i + 1]
    BY Zenon, <1>1, <1>2
  <2>2. /\ StepOk(st[(i + 1) - 1], o[order[i + 1]])
        /\ st[i + 1] = NewState(st[(i + 1) - 1], o[order[i + 1]])
    BY Zenon, <1>1 DEF Completes
  <2>. QED
    BY Zenon, <1>1, <2>1, <2>2
<1>8. Completes(h, o, S \cup {a}, NewState(v, o[a]), m, order2, st2)
  BY Zenon, <1>1, <1>3, <1>4, <1>5, <1>6, <1>7 DEF Completes
<1>. QED
  BY Zenon, <1>8 DEF Completable

(* A completion begins with an operation called before the first return    *)
(* of an operation that is left.                                           *)
LEMMA FirstOfCompletion ==
    ASSUME NEW h \in Histories, NEW o, NEW S, NEW v, Completable(h, o, S, v),
           NEW e \in Position, h[e].kind = "return", h[e].id \notin S
    PROVE  \E x \in Position :
              /\ x < e /\ h[x].kind = "call" /\ h[x].id \notin S
              /\ StepOk(v, o[h[x].id])
              /\ Completable(h, o, S \cup {h[x].id}, NewState(v, o[h[x].id]))
<1>1. PICK n, order, st : Completes(h, o, S, v, n, order, st)
  BY Zenon DEF Completable
<1>2. /\ h \in [Position -> [kind : {"call", "return"}, id : Id]]
      /\ \A x, y \in Position : h[x] = h[y] => x = y
      /\ \A id \in Id : \E x, y \in Position :
            /\ x < y
            /\ h[x] = [kind |-> "call", id |-> id]
            /\ h[y] = [kind |-> "return", id |-> id]
  BY Zenon DEF Histories
<1>3. PICK b \in Id : b = h[e].id /\ h[e] = [kind |-> "return", id |-> b]
  BY <1>2
<1>4. PICK k \in 1..n : order[k] = b
  BY Zenon, <1>1, <1>3 DEF Completes
<1>5. n \in Nat /\ n > 0 /\ 1 \in 1..n /\ (k = 1 \/ 1 < k) /\ 1 - 1 = 0
  BY <1>1, <1>4 DEF Completes
<1>6. PICK a \in Id : a = order[1] /\ a \notin S /\ StepOk(v, o[a])
  BY Zenon, <1>1, <1>5 DEF Completes
<1>7. PICK x, y \in Position : /\ x < y
                               /\ h[x] = [kind |-> "call", id |-> a]
                               /\ h[y] = [kind |-> "return", id |-> a]
  BY Zenon, <1>2
<1>8. h[x].kind = "call" /\ h[x].id = a
  BY <1>7
<1>9. ~(e < x)
  <2>. SUFFICES ASSUME e < x PROVE FALSE
    BY Zenon
  <2>1. CASE k = 1
    <3>1. a = b
      BY Zenon, <1>4, <1>6, <2>1
    <3>2. h[e] = h[y]
      BY Zenon, <1>3, <1>7, <3>1
    <3>3. e = y
      BY Zenon, <1>2, <3>2
    <3>. QED
      BY <1>7, <3>3 DEF Position
  <2>2. CASE 1 < k
    <3>1. Precedes(h, b, a)
      BY Zenon, <1>3, <1>7 DEF Precedes
    <3>2. ~Precedes(h, order[k], order[1])
      BY Zenon, <1>1, <1>4, <1>5, <2>2 DEF Completes
    <3>. QED
      BY Zenon, <1>4, <1>6, <3>1, <3>2
  <2>. QED
    BY Zenon, <1>5, <2>1, <2>2
<1>10. x # e
  BY Zenon, <1>8
<1>11. x < e
  BY <1>9, <1>10 DEF Position
<1>12. Completable(h, o, S \cup {a}, NewState(v, o[a]))
  BY Zenon, <1>1, <1>5, <1>6, CompletesTail
<1>. QED
  BY Zenon, <1>6, <1>8, <1>11, <1>12

(* Where only operations that were tried are called before an entry that   *)
(* is the return of an operation that is left, nothing can be completed.   *)
LEMMA DeadEnd ==
    ASSUME NEW h \in Histories, NEW o, NEW S, NEW v, NEW e \in Position,
           h[e].kind = "return", h[e].id \notin S, Tried(h, o, S, v, e)
    PROVE  ~Completable(h, o, S, v)
BY Zenon, FirstOfCompletion DEF Tried

(* The scan passes a call that cannot come next.                           *)
LEMMA TriedOn ==
    ASSUME NEW h, NEW o, NEW S, NEW v, NEW c \in Position, NEW e \in 1..End,
           Tried(h, o, S, v, c),
           \A y \in Position : (y > c /\ y < e) => h[y].id \in S,
           StepOk(v, o[h[c].id])
              => ~Completable(h, o, S \cup {h[c].id}, NewState(v, o[h[c].id]))
    PROVE  Tried(h, o, S, v, e)
<1>1. \A y \in Position : y < c \/ y = c \/ y > c
  BY DEF Position
<1>. QED
  BY Zenon, <1>1 DEF Tried

-----------------------------------------------------------------------------
(* The search loses no linearization. *)

(* The operations of the first i calls of the stack.                       *)
Below(i) == {OpAt(j) : j \in 1..i}

(* How far the scan went with the first i calls of the stack made.         *)
Cursor(i) == IF i = Len(calls) THEN entry ELSE calls[i + 1].entry

(* What is in the cache and can be completed is on the stack; and at every *)
(* level of the stack the calls passed by the scan cannot come next.       *)
CompleteInv ==
    /\ \A c \in cache : Completable(hist, ops, c[1], c[2]) =>
          \E i \in 1..Len(calls) : c = <<Below(i), StateAt(i + 1)>>
    /\ \A i \in 0..Len(calls) :
          Tried(hist, ops, Below(i), StateAt(i + 1), Cursor(i))
    /\ result = "false" => ~Completable(hist, ops, {}, <<>>)

LEMMA TopLevel ==
    ASSUME CInv
    PROVE  /\ Len(calls) \in Nat /\ Len(calls) \in 0..Len(calls)
           /\ Below(Len(calls)) = linearized
           /\ StateAt(Len(calls) + 1) = state
           /\ Cursor(Len(calls)) = entry
<1>1. Len(calls) \in Nat
  BY DEF CInv, TypeOK
<1>2. Len(calls) \in 0..Len(calls)
  BY <1>1
<1>. QED
  BY Zenon, <1>1, <1>2 DEF CInv, SearchInv, StackInv, Below, StateAt, Cursor

LEMMA InitComplete == Init => CompleteInv
<1>. SUFFICES ASSUME Init PROVE CompleteInv
  BY Zenon
<1>1. Len(calls) = 0 /\ cache = {} /\ result = "searching"
  BY DEF Init
<1>2. \A x \in Position : ~(x < entry)
  BY HistoryAssumption DEF Init, Position
<1>3. \A i \in 0..Len(calls) : Cursor(i) = entry
  BY <1>1 DEF Cursor
<1>4. \A i \in 0..Len(calls) :
         Tried(hist, ops, Below(i), StateAt(i + 1), Cursor(i))
  BY Zenon, <1>2, <1>3 DEF Tried
<1>5. result # "false"
  BY <1>1
<1>. QED
  BY Zenon, <1>1, <1>4, <1>5 DEF CompleteInv

LEMMA LinearizeComplete ==
    ASSUME CInv, CInv', CompleteInv,
           Linearize(HeadEntry(linearized), HeadEntry(linearized \cup {hist[entry].id}))
    PROVE  CompleteInv'
<1>0. entry \in Position /\ hist[entry].id \notin linearized
  BY Zenon, AtEntry DEF Linearize
<1>c. calls \in Seq([entry : Position, state : Seq(Nat)])
  BY Zenon DEF CInv, TypeOK
<1>n. PICK n \in Nat : n = Len(calls)
  BY <1>c
<1>1. /\ hist' = hist /\ ops' = ops /\ result' = "searching"
      /\ cache' = cache \cup {<<linearized', state'>>}
      /\ calls' = Append(calls, [entry |-> entry, state |-> state])
      /\ entry' = EntryAfter(0, linearized') /\ linearized' = linearized \cup {hist[entry].id}
  BY Zenon DEF Linearize, Searching, Configuration, HeadEntry
<1>2. /\ Len(calls') = n + 1
      /\ calls'[n + 1] = [entry |-> entry, state |-> state]
      /\ \A i \in 1..n : calls'[i] = calls[i]
  BY <1>1, <1>n DEF CInv, TypeOK
<1>3. /\ \A i \in 0..n : /\ 1..i \subseteq 1..n /\ i + 1 \in 1..(n + 1)
                         /\ i # n + 1 /\ (i # n => i + 1 \in 1..n)
                         /\ i + 1 # n + 2
      /\ \A i \in 0..(n + 1) : i \in 0..n \/ i = n + 1
      /\ \A i \in 1..n : i \in 0..n /\ i \in 1..(n + 1)
      /\ n + 1 \in 1..(n + 1) /\ (n + 1) + 1 = n + 2 /\ n \in 0..n
  OBVIOUS
<1>4. \A i \in 1..n : OpAt(i)' = OpAt(i)
  BY Zenon, <1>1, <1>2 DEF OpAt
<1>5. \A i \in 0..n : Below(i)' = Below(i)
  BY Zenon, <1>3, <1>4 DEF Below
<1>6. \A i \in 0..n : StateAt(i + 1)' = StateAt(i + 1)
  <2>1. calls'[n + 1].state = state
    BY <1>2
  <2>. QED
    BY Zenon, <1>2, <1>3, <1>n, <2>1 DEF StateAt
<1>7. \A i \in 0..n : Cursor(i)' = Cursor(i)
  <2>1. calls'[n + 1].entry = entry
    BY <1>2
  <2>. QED
    BY Zenon, <1>2, <1>3, <1>n, <2>1 DEF Cursor
<1>8. /\ Below(n + 1)' = linearized' /\ StateAt(n + 2)' = state'
      /\ Cursor(n + 1)' = entry'
  BY Zenon, <1>2, <1>3 DEF CInv, SearchInv, StackInv, Below, StateAt, Cursor
<1>9. ASSUME NEW c \in cache', Completable(hist, ops, c[1], c[2])
      PROVE  \E i \in 1..(n + 1) : c = <<Below(i)', StateAt(i + 1)'>>
  <2>1. CASE c \in cache
    <3>1. PICK i \in 1..n : c = <<Below(i), StateAt(i + 1)>>
      BY Zenon, <1>9, <1>n, <2>1 DEF CompleteInv
    <3>. QED
      BY Zenon, <1>3, <1>5, <1>6, <3>1
  <2>2. CASE c = <<linearized', state'>>
    BY Zenon, <1>3, <1>8, <2>2
  <2>. QED
    BY Zenon, <1>1, <2>1, <2>2
<1>10. ASSUME NEW i \in 0..(n + 1)
       PROVE  Tried(hist, ops, Below(i)', StateAt(i + 1)', Cursor(i)')
  <2>1. CASE i \in 0..n
    BY Zenon, <1>5, <1>6, <1>7, <1>n, <2>1 DEF CompleteInv
  <2>2. CASE i = n + 1
    <3>0. 0 \in Int
      OBVIOUS
    <3>1. \A y \in Position : (y > 0 /\ y < entry') => hist[y].id \in linearized'
      BY Zenon, <1>1, <3>0, EntryAfterIs
    <3>2. \A y \in Position : y > 0
      BY DEF Position
    <3>3. Tried(hist, ops, linearized', state', entry')
      BY Zenon, <3>1, <3>2 DEF Tried
    <3>. QED
      BY Zenon, <1>3, <1>8, <2>2, <3>3
  <2>. QED
    BY Zenon, <1>3, <2>1, <2>2
<1>11. result' # "false"
  BY <1>1
<1>. QED
  BY Zenon, <1>1, <1>2, <1>9, <1>10, <1>11 DEF CompleteInv

LEMMA SkipComplete ==
    ASSUME CInv, CompleteInv, Skip(HeadEntry(linearized), EntryAfter(entry, linearized))
    PROVE  CompleteInv'
<1>1. /\ UNCHANGED <<hist, ops, state, linearized, cache, calls, result>>
      /\ Searching(HeadEntry(linearized), "call") /\ result # "false"
      /\ entry' = EntryAfter(entry, linearized)
      /\ StepOk(state, ops[hist[entry].id])
            => <<linearized \cup {hist[entry].id},
                 NewState(state, ops[hist[entry].id])>> \in cache
  BY DEF Skip, Searching, CacheContains, Configuration
<1>2. entry \in Position /\ entry \in Int /\ hist[entry].id \notin linearized
  BY <1>1, AtEntry DEF Position
<1>n. PICK n \in Nat : n = Len(calls)
  BY Zenon, TopLevel
<1>3. \A i : Below(i)' = Below(i) /\ StateAt(i)' = StateAt(i)
  BY Zenon, <1>1 DEF Below, OpAt, StateAt
<1>4. ASSUME StepOk(state, ops[hist[entry].id])
      PROVE  ~Completable(hist, ops, linearized \cup {hist[entry].id},
                          NewState(state, ops[hist[entry].id]))
  <2>. DEFINE S == linearized \cup {hist[entry].id}
              v == NewState(state, ops[hist[entry].id])
              c == <<S, v>>
  <2>1. c \in cache /\ c[1] = S /\ c[2] = v
    BY Zenon, <1>1, <1>4
  <2>2. ASSUME NEW i \in 1..n PROVE c # <<Below(i), StateAt(i + 1)>>
    <3>1. Below(i) \subseteq Below(n)
      BY DEF Below
    <3>2. Below(n) = linearized
      BY Zenon, <1>n, TopLevel
    <3>3. S # Below(i)
      BY Zenon, <1>2, <3>1, <3>2
    <3>. QED
      BY Zenon, <3>3
  <2>. HIDE DEF S, v, c
  <2>3. ~Completable(hist, ops, S, v)
    BY Zenon, <1>n, <2>1, <2>2 DEF CompleteInv
  <2>. QED
    BY Zenon, <2>3 DEF S, v
<1>5. Tried(hist, ops, linearized, state, entry')
  <2>1. Tried(hist, ops, linearized, state, entry)
    BY Zenon, TopLevel DEF CompleteInv
  <2>2. entry' \in 1..End /\ \A y \in Position : (y > entry /\ y < entry') => hist[y].id \in linearized
    BY Zenon, <1>1, <1>2, EntryAfterIs
  <2>. QED
    BY Zenon, <1>2, <1>4, <2>1, <2>2, TriedOn
<1>6. ASSUME NEW i \in 0..n
      PROVE  Tried(hist, ops, Below(i), StateAt(i + 1), Cursor(i)')
  <2>1. CASE i = n
    <3>1. Cursor(i)' = entry' /\ Below(i) = linearized /\ StateAt(i + 1) = state
      BY Zenon, <1>1, <1>n, <2>1, TopLevel DEF Cursor
    <3>. QED
      BY Zenon, <1>5, <3>1
  <2>2. CASE i # n
    <3>1. Cursor(i)' = Cursor(i)
      BY Zenon, <1>1, <1>n, <2>2 DEF Cursor
    <3>. QED
      BY Zenon, <1>n, <3>1 DEF CompleteInv
  <2>. QED
    BY Zenon, <2>1, <2>2
<1>. QED
  BY Zenon, <1>1, <1>3, <1>6, <1>n DEF CompleteInv

(* At a return entry the configuration cannot be completed.                *)
LEMMA TopIsDead ==
    ASSUME CInv, CompleteInv, Searching(HeadEntry(linearized), "return")
    PROVE  ~Completable(hist, ops, linearized, state)
<1>1. entry \in Position /\ hist[entry].id \notin linearized
  BY Zenon, AtEntry
<1>2. hist \in Histories /\ hist[entry].kind = "return"
  BY Zenon DEF CInv, TypeOK, Searching
<1>3. Tried(hist, ops, linearized, state, entry)
  BY Zenon, TopLevel DEF CompleteInv
<1>. QED
  BY Zenon, <1>1, <1>2, <1>3, DeadEnd

LEMMA BacktrackComplete ==
    ASSUME CInv, CInv', CompleteInv,
           LET top == calls[Len(calls)].entry
           IN Backtrack(HeadEntry(linearized), EntryAfter(top, linearized \ {hist[top].id}))
    PROVE  CompleteInv'
<1>0. calls # <<>> /\ Searching(HeadEntry(linearized), "return") /\ result = "searching"
  BY Zenon DEF Backtrack, Searching
<1>n. PICK n \in Nat : Len(calls) = n + 1
  <2>1. Len(calls) \in Nat /\ Len(calls) # 0
    BY <1>0 DEF CInv, TypeOK
  <2>. QED
    BY <2>1
<1>i. /\ \A i \in 0..n : /\ 1..i \subseteq 1..n /\ i + 1 \in 1..(n + 1)
                         /\ i # n + 1 /\ i \in 0..(n + 1) /\ (i # n => i + 1 \in 1..n)
                         /\ i + 1 # n + 2
      /\ \A i \in 1..(n + 1) : i \in 1..n \/ i = n + 1
      /\ \A i \in 1..n : i \in 0..n /\ i \in 1..(n + 1)
      /\ n + 1 \in 1..(n + 1) /\ n \in 0..n /\ n + 1 \in 0..(n + 1)
  OBVIOUS
<1>top. PICK top \in Position : top = calls[n + 1].entry
  BY Zenon, <1>i, <1>n, CallsType
<1>1. /\ hist' = hist /\ ops' = ops /\ result' = result /\ cache' = cache
      /\ state' = calls[n + 1].state
      /\ linearized' = linearized \ {hist[top].id}
      /\ calls' = SubSeq(calls, 1, n)
      /\ entry' = EntryAfter(top, linearized')
  BY <1>n, <1>top DEF Backtrack
<1>2. Len(calls') = n /\ \A i \in 1..n : calls'[i] = calls[i]
  BY <1>1, <1>n, PopIs DEF CInv, TypeOK, Bitset
<1>3. \A i \in 0..n : Below(i)' = Below(i)
  <2>1. \A i \in 1..n : OpAt(i)' = OpAt(i)
    BY Zenon, <1>1, <1>2 DEF OpAt
  <2>. QED
    BY Zenon, <1>i, <2>1 DEF Below
<1>4. \A i \in 0..n : StateAt(i + 1)' = StateAt(i + 1)
  <2>1. \A i \in 0..n : i + 1 # Len(calls) + 1 /\ (i + 1 = Len(calls') + 1 => i = n)
    BY <1>2, <1>n
  <2>. QED
    BY Zenon, <1>1, <1>2, <1>i, <1>n, <2>1 DEF StateAt
<1>5. \A i \in 0..n : i # n => Cursor(i)' = Cursor(i)
  BY Zenon, <1>2, <1>i, <1>n DEF Cursor
<1>6. Cursor(n) = top /\ Cursor(n)' = entry'
  BY Zenon, <1>2, <1>i, <1>n, <1>top DEF Cursor
<1>7. ~Completable(hist, ops, linearized, state)
  BY Zenon, <1>0, TopIsDead
<1>8. Below(n + 1) = linearized /\ StateAt((n + 1) + 1) = state
  BY Zenon, <1>n, TopLevel
<1>9. ASSUME NEW c \in cache, Completable(hist, ops, c[1], c[2])
      PROVE  \E i \in 1..n : c = <<Below(i)', StateAt(i + 1)'>>
  <2>1. PICK i \in 1..(n + 1) : c = <<Below(i), StateAt(i + 1)>>
    BY Zenon, <1>9, <1>n DEF CompleteInv
  <2>2. i # n + 1
    <3>. SUFFICES ASSUME i = n + 1 PROVE FALSE
      BY Zenon
    <3>1. c[1] = linearized /\ c[2] = state
      BY Zenon, <1>8, <2>1
    <3>. QED
      BY Zenon, <1>7, <1>9, <3>1
  <2>3. i \in 1..n /\ i \in 0..n
    BY Zenon, <1>i, <2>2
  <2>. QED
    BY Zenon, <1>3, <1>4, <2>1, <2>3
<1>10. Tried(hist, ops, Below(n), StateAt(n + 1), entry')
  <2>1. Tried(hist, ops, Below(n), StateAt(n + 1), top)
    BY Zenon, <1>6, <1>i, <1>n DEF CompleteInv
  <2>2. Below(n) = linearized'
    BY Zenon, <1>2, <1>3, <1>i DEF CInv, SearchInv, StackInv, Below
  <2>3. /\ entry' \in 1..End
        /\ \A y \in Position : (y > top /\ y < entry') => hist[y].id \in linearized'
    <3>1. top \in Int
      BY DEF Position
    <3>. QED
      BY Zenon, <1>1, <3>1, EntryAfterIs
  <2>4. OpAt(n + 1) = hist[top].id /\ hist[top].id \in linearized
    BY Zenon, <1>i, <1>n, <1>top DEF CInv, SearchInv, StackInv, OpAt
  <2>5. Below(n) \cup {hist[top].id} = linearized
    BY Zenon, <1>1, <2>2, <2>4
  <2>6. NewState(StateAt(n + 1), ops[hist[top].id]) = state
    BY Zenon, <1>8, <1>i, <1>n, <2>4 DEF CInv, SearchInv, StackInv
  <2>. QED
    BY Zenon, <1>7, <2>1, <2>2, <2>3, <2>5, <2>6, TriedOn
<1>11. ASSUME NEW i \in 0..n
       PROVE  Tried(hist, ops, Below(i)', StateAt(i + 1)', Cursor(i)')
  <2>1. CASE i = n
    BY Zenon, <1>3, <1>4, <1>6, <1>10, <1>i, <2>1
  <2>2. CASE i # n
    BY Zenon, <1>3, <1>4, <1>5, <1>i, <1>n, <2>2 DEF CompleteInv
  <2>. QED
    BY Zenon, <2>1, <2>2
<1>12. result' # "false"
  BY <1>0, <1>1
<1>. QED
  BY Zenon, <1>1, <1>2, <1>9, <1>11, <1>12 DEF CompleteInv

(* Steps that leave the search alone.                                      *)
LEMMA CompleteUnchanged ==
    ASSUME CompleteInv, UNCHANGED <<hist, ops, entry, state, linearized, cache, calls>>,
           result' = "false" => ~Completable(hist, ops, {}, <<>>)
    PROVE  CompleteInv'
<1>1. \A i : Below(i)' = Below(i) /\ StateAt(i)' = StateAt(i) /\ Cursor(i)' = Cursor(i)
  BY Zenon DEF Below, OpAt, StateAt, Cursor
<1>. QED
  BY Zenon, <1>1 DEF CompleteInv

LEMMA ReturnFalseComplete ==
    ASSUME CInv, CompleteInv, ReturnFalse(HeadEntry(linearized))
    PROVE  CompleteInv'
<1>1. /\ Searching(HeadEntry(linearized), "return") /\ calls = <<>>
      /\ UNCHANGED <<hist, ops, entry, state, linearized, cache, calls>>
  BY Zenon DEF ReturnFalse
<1>2. Len(calls) = 0
  BY <1>1
<1>3. linearized = {} /\ state = <<>>
  BY <1>2 DEF CInv, SearchInv, StackInv, StateAt
<1>4. ~Completable(hist, ops, {}, <<>>)
  BY Zenon, <1>1, <1>3, TopIsDead
<1>. QED
  BY Zenon, <1>1, <1>4, CompleteUnchanged

LEMMA CompleteNext == CInv /\ CInv' /\ CompleteInv /\ [Next]_vars => CompleteInv'
<1>. SUFFICES ASSUME CInv, CInv', CompleteInv, [Next]_vars PROVE CompleteInv'
  BY Zenon
<1>1. CASE LET id == hist[entry].id IN Linearize(HeadEntry(linearized), HeadEntry(linearized \cup {id}))
  BY Zenon, <1>1, LinearizeComplete
<1>2. CASE Skip(HeadEntry(linearized), EntryAfter(entry, linearized))
  BY Zenon, <1>2, SkipComplete
<1>3. CASE LET top == calls[Len(calls)].entry
           IN Backtrack(HeadEntry(linearized), EntryAfter(top, linearized \ {hist[top].id}))
  BY Zenon, <1>3, BacktrackComplete
<1>4. CASE ReturnFalse(HeadEntry(linearized))
  BY Zenon, <1>4, ReturnFalseComplete
<1>5. CASE ReturnTrue(HeadEntry(linearized))
  <2>1. result' # "false"
    BY <1>5 DEF ReturnTrue
  <2>. QED
    BY Zenon, <1>5, <2>1, CompleteUnchanged DEF ReturnTrue
<1>6. CASE UNCHANGED vars
  BY Zenon, <1>6, CompleteUnchanged DEF vars, CompleteInv
<1>. QED
  BY Zenon, <1>1, <1>2, <1>3, <1>4, <1>5, <1>6 DEF Next

-----------------------------------------------------------------------------
(* Doubly linked lists. *)

(* z is the node after y, or before y, in a list of the nodes A.           *)
IsNext(y, z, A) == z \in A \cup {End} /\ z > y /\ \A a \in A : a > y => a >= z

IsPrev(y, z, A) == z \in {0} \cup A /\ z < y /\ \A a \in A : a < y => a <= z

(* The pointers, from headEntry on, are a list of the nodes A in order.    *)
Linked(nx, pv, A) ==
    /\ \A y \in {0} \cup A : IsNext(y, nx[y], A)
    /\ \A y \in A : pv[y] \in {0} \cup A /\ nx[pv[y]] = y

(* The pointers of x, which is not in the list of the nodes A, say where   *)
(* it belongs.                                                             *)
Remembers(nx, pv, x, A) == IsNext(x, nx[x], A) /\ IsPrev(x, pv[x], A)

NextPointers == [0..(2 * N) -> 1..End]
PrevPointers == [Position -> 0..(2 * N)]

LEMMA NodeFacts ==
    /\ N \in Nat /\ End \in Nat /\ End > 0 /\ End \notin Position /\ 0 \notin Position
    /\ Position \subseteq 1..End /\ Position \subseteq 0..(2 * N)
    /\ \A y \in Position : y > 0 /\ y < End
    /\ \A y \in 0..(2 * N) : y = 0 \/ y \in Position
    /\ \A y \in 1..End : y = End \/ y \in Position
    /\ \A y \in 1..End : y \in Int /\ y > 0 /\ y <= End
    /\ \A y \in 0..(2 * N) : y \in Int /\ y >= 0 /\ y < End
    /\ 0 \in 0..(2 * N) /\ End \in 1..End
BY HistoryAssumption DEF Position, End

(* Two nodes do not have the same successor.                               *)
LEMMA LinkedOnce ==
    ASSUME NEW A \in SUBSET Position, NEW nx, NEW pv, Linked(nx, pv, A),
           NEW y \in {0} \cup A, NEW z \in {0} \cup A, nx[y] = nx[z]
    PROVE  y = z
<1>1. y \in 0..(2 * N) /\ z \in 0..(2 * N) /\ y \in Int /\ z \in Int
  BY Zenon, NodeFacts
<1>2. nx[y] > y /\ nx[z] > z /\ nx[y] \in Int
  <2>1. nx[y] \in 1..End
    BY Zenon, NodeFacts DEF Linked, IsNext
  <2>. QED
    BY Zenon, <2>1, NodeFacts DEF Linked, IsNext
<1>3. (z > y => z \in A) /\ (y > z => y \in A)
  BY <1>1, NodeFacts
<1>4. (z > y => z >= nx[y]) /\ (y > z => y >= nx[z])
  BY Zenon, <1>3 DEF Linked, IsNext
<1>. QED
  BY ONLY <1>1, <1>2, <1>4, nx[y] = nx[z]

(* Taking x out of the list leaves a list of the others, the pointers of   *)
(* the nodes outside it alone, and those of x saying where x was.          *)
Unlinks(nx, pv, A, x) ==
    /\ A \in SUBSET Position /\ nx \in NextPointers /\ pv \in PrevPointers
    /\ Linked(nx, pv, A) /\ x \in A

Unlinked(nx, pv, A, x, l) ==
    /\ l = [next |-> l.next, prev |-> l.prev]
    /\ l.next \in NextPointers /\ l.prev \in PrevPointers
    /\ Linked(l.next, l.prev, A \ {x})
    /\ Remembers(l.next, l.prev, x, A \ {x})
    /\ \A y \in Position : y \notin A => l.next[y] = nx[y] /\ l.prev[y] = pv[y]

LEMMA UnlinkKeeps ==
    ASSUME NEW nx, NEW pv, NEW A, NEW x, NEW l, Unlinks(nx, pv, A, x),
           l = Unlink([next |-> nx, prev |-> pv], x)
    PROVE  Unlinked(nx, pv, A, x, l)
<1>. /\ A \in SUBSET Position /\ nx \in NextPointers /\ pv \in PrevPointers
     /\ Linked(nx, pv, A) /\ x \in A
  BY Zenon DEF Unlinks
<1>. DEFINE n == nx[x]
            p == pv[x]
            nx1 == [nx EXCEPT ![p] = n]
            pv1 == IF n = End THEN pv ELSE [pv EXCEPT ![n] = p]
<1>1. l = [next |-> nx1, prev |-> pv1]
  BY Zenon DEF Unlink
<1>2. /\ x \in Position /\ x \in Int /\ x > 0 /\ x \in 0..(2 * N) /\ x < End
      /\ n \in 1..End /\ n \in Int /\ n > x /\ n \in A \cup {End}
      /\ p \in 0..(2 * N) /\ p \in Int /\ p \in {0} \cup A /\ nx[p] = x /\ p < x
  <2>1. x \in Position /\ n \in A \cup {End} /\ n > x /\ p \in {0} \cup A /\ nx[p] = x
    BY Zenon DEF Linked, IsNext
  <2>2. p < x
    <3>1. x > p
      BY Zenon, <2>1 DEF Linked, IsNext
    <3>. QED
      BY <2>1, <3>1, NodeFacts
  <2>. QED
    BY Zenon, <2>1, <2>2, NodeFacts
<1>3. n # x /\ p # x
  BY ONLY <1>2
<1>4. /\ nx1 \in NextPointers /\ nx1[p] = n
      /\ \A y \in 0..(2 * N) : y # p => nx1[y] = nx[y]
  BY Zenon, <1>2 DEF NextPointers
<1>5. /\ pv1 \in PrevPointers /\ (n # End => pv1[n] = p)
      /\ \A y \in Position : y # n => pv1[y] = pv[y]
  <2>1. n # End => n \in Position
    BY Zenon, <1>2, NodeFacts
  <2>. QED
    BY Zenon, <1>2, <2>1 DEF PrevPointers
<1>. HIDE DEF nx1, pv1
<1>6. A \subseteq 0..(2 * N) /\ A \subseteq Position /\ A \subseteq Int /\ 0 \in 0..(2 * N) /\ 0 \notin A
  BY Zenon, NodeFacts
<1>7. ASSUME NEW y \in {0} \cup (A \ {x})
      PROVE  IsNext(y, nx1[y], A \ {x})
  <2>1. y \in 0..(2 * N) /\ y \in {0} \cup A /\ y # x /\ IsNext(y, nx[y], A)
    BY Zenon, <1>2, <1>6 DEF Linked
  <2>2. CASE y = p
    <3>1. n \in (A \ {x}) \cup {End}
      BY Zenon, <1>2, <1>3
    <3>2. n > y
      BY ONLY <1>2, <2>2
    <3>3. ASSUME NEW a \in A \ {x}, a > y PROVE a >= n
      <4>1. a \in Int /\ a >= x /\ a # x
        BY Zenon, <1>2, <1>6, <2>1, <2>2, <3>3 DEF IsNext
      <4>2. a > x
        BY ONLY <1>2, <4>1
      <4>. QED
        BY Zenon, <4>2 DEF Linked, IsNext
    <3>. QED
      BY Zenon, <1>4, <2>2, <3>1, <3>2, <3>3 DEF IsNext
  <2>3. CASE y # p
    <3>1. nx1[y] = nx[y]
      BY Zenon, <1>4, <2>1, <2>3
    <3>2. nx[y] # x
      <4>1. nx[y] = nx[p] => y = p
        BY Zenon, <1>2, <2>1, LinkedOnce
      <4>. QED
        BY Zenon, <1>2, <2>3, <4>1
    <3>. QED
      BY Zenon, <2>1, <3>1, <3>2 DEF IsNext
  <2>. QED
    BY Zenon, <2>2, <2>3
<1>8. ASSUME NEW y \in A \ {x}
      PROVE  pv1[y] \in {0} \cup (A \ {x}) /\ nx1[pv1[y]] = y
  <2>1. y \in Position /\ y \in A /\ y # x /\ y # End
    BY Zenon, <1>6, NodeFacts
  <2>2. CASE y = n
    <3>1. pv1[y] = p
      BY Zenon, <1>5, <2>1, <2>2
    <3>. QED
      BY Zenon, <1>2, <1>3, <1>4, <2>2, <3>1
  <2>3. CASE y # n
    <3>1. pv1[y] = pv[y] /\ pv[y] \in {0} \cup A /\ nx[pv[y]] = y
      BY Zenon, <1>5, <2>1, <2>3 DEF Linked
    <3>2. pv[y] # x /\ pv[y] # p
      BY Zenon, <1>2, <2>1, <2>3, <3>1
    <3>3. pv[y] \in 0..(2 * N)
      BY Zenon, <1>6, <3>1
    <3>. QED
      BY Zenon, <1>4, <3>1, <3>2, <3>3
  <2>. QED
    BY Zenon, <2>2, <2>3
<1>9. Remembers(nx1, pv1, x, A \ {x})
  <2>1. nx1[x] = n /\ pv1[x] = p
    BY Zenon, <1>2, <1>3, <1>4, <1>5
  <2>2. IsNext(x, n, A \ {x})
    BY Zenon, <1>3 DEF Linked, IsNext
  <2>3. ASSUME NEW a \in A \ {x}, a < x PROVE a <= p
    <3>1. IsNext(p, x, A)
      BY Zenon, <1>2 DEF Linked
    <3>2. a \in Int /\ (a > p => a >= x)
      BY Zenon, <1>6, <3>1 DEF IsNext
    <3>. QED
      BY ONLY <1>2, <2>3, <3>2
  <2>4. IsPrev(x, p, A \ {x})
    BY Zenon, <1>2, <1>3, <2>3 DEF IsPrev
  <2>. QED
    BY Zenon, <2>1, <2>2, <2>4 DEF Remembers
<1>10. ASSUME NEW y \in Position, y \notin A
       PROVE  nx1[y] = nx[y] /\ pv1[y] = pv[y]
  <2>1. y # p /\ y # n /\ y \in 0..(2 * N)
    BY Zenon, <1>2, <1>10, NodeFacts
  <2>. QED
    BY Zenon, <1>4, <1>5, <2>1
<1>11. Linked(nx1, pv1, A \ {x})
  BY Zenon, <1>7, <1>8 DEF Linked
<1>12. l.next = nx1 /\ l.prev = pv1
  BY <1>1
<1>. QED
  BY Zenon, <1>1, <1>4, <1>5, <1>9, <1>10, <1>11, <1>12 DEF Unlinked

(* Putting x back where its pointers say makes it part of the list, and    *)
(* leaves the pointers of the nodes outside alone.                         *)
Relinks(nx, pv, A, x) ==
    /\ A \in SUBSET Position /\ nx \in NextPointers /\ pv \in PrevPointers
    /\ Linked(nx, pv, A) /\ x \in Position /\ x \notin A /\ Remembers(nx, pv, x, A)

Relinked(nx, pv, A, x, l) ==
    /\ l = [next |-> l.next, prev |-> l.prev]
    /\ l.next \in NextPointers /\ l.prev \in PrevPointers
    /\ Linked(l.next, l.prev, A \cup {x})
    /\ \A y \in Position : y \notin A => l.next[y] = nx[y] /\ l.prev[y] = pv[y]

LEMMA RelinkKeeps ==
    ASSUME NEW nx, NEW pv, NEW A, NEW x, NEW l, Relinks(nx, pv, A, x),
           l = Relink([next |-> nx, prev |-> pv], x)
    PROVE  Relinked(nx, pv, A, x, l)
<1>. /\ A \in SUBSET Position /\ nx \in NextPointers /\ pv \in PrevPointers
     /\ Linked(nx, pv, A) /\ x \in Position /\ x \notin A /\ Remembers(nx, pv, x, A)
  BY Zenon DEF Relinks
<1>. DEFINE n == nx[x]
            p == pv[x]
            nx1 == [nx EXCEPT ![p] = x]
            pv1 == IF n = End THEN pv ELSE [pv EXCEPT ![n] = x]
<1>1. l = [next |-> nx1, prev |-> pv1]
  BY Zenon DEF Relink
<1>2. /\ x \in Int /\ x > 0 /\ x \in 0..(2 * N) /\ x < End /\ x \in 1..End
      /\ n \in 1..End /\ n \in Int /\ n > x /\ n \in A \cup {End}
      /\ p \in 0..(2 * N) /\ p \in Int /\ p >= 0 /\ p \in {0} \cup A /\ p < x
  <2>1. n \in A \cup {End} /\ n > x /\ p \in {0} \cup A /\ p < x
    BY Zenon DEF Remembers, IsNext, IsPrev
  <2>. QED
    BY Zenon, <2>1, NodeFacts
<1>3. n # x /\ p # x /\ x # 0
  BY ONLY <1>2
<1>4. /\ nx1 \in NextPointers /\ nx1[p] = x
      /\ \A y \in 0..(2 * N) : y # p => nx1[y] = nx[y]
  BY Zenon, <1>2 DEF NextPointers
<1>5. /\ pv1 \in PrevPointers /\ (n # End => pv1[n] = x)
      /\ \A y \in Position : y # n => pv1[y] = pv[y]
  <2>1. n # End => n \in Position
    BY Zenon, <1>2, NodeFacts
  <2>. QED
    BY Zenon, <1>2, <2>1 DEF PrevPointers
<1>. HIDE DEF nx1, pv1
<1>6. A \subseteq 0..(2 * N) /\ A \subseteq Position /\ A \subseteq Int /\ 0 \in 0..(2 * N) /\ 0 \notin A
  BY Zenon, NodeFacts
<1>7. /\ IsNext(p, nx[p], A)
      /\ \A a \in A : (a < x => a <= p) /\ (a > x => a >= n)
  BY Zenon, <1>2 DEF Linked, Remembers, IsNext, IsPrev
<1>8. nx[p] = n
  <2>. DEFINE q == nx[p]
  <2>1. q \in A \cup {End} /\ q > p /\ q \in Int /\ q <= End
    BY Zenon, <1>7, NodeFacts DEF IsNext
  <2>2. q <= n
    <3>1. n = End \/ (n \in A /\ n > p)
      BY ONLY <1>2
    <3>2. n >= q \/ n = End
      BY Zenon, <1>7, <3>1 DEF IsNext
    <3>. HIDE DEF n, q
    <3>. QED
      BY ONLY <1>2, <2>1, <3>2
  <2>3. n <= q
    <3>1. q \in A => (q < x => q <= p) /\ (q > x => q >= n) /\ q # x
      BY Zenon, <1>7
    <3>2. n <= End
      BY Zenon, <1>2, NodeFacts
    <3>. HIDE DEF n, q, p
    <3>. QED
      BY ONLY <1>2, <2>1, <3>1, <3>2
  <2>. HIDE DEF n, q
  <2>4. q = n
    BY ONLY <1>2, <2>1, <2>2, <2>3
  <2>. QED
    BY Zenon, <2>4 DEF q
<1>9. ASSUME NEW y \in {0} \cup (A \cup {x})
      PROVE  IsNext(y, nx1[y], A \cup {x})
  <2>1. y \in 0..(2 * N) /\ y \in Int
    BY Zenon, <1>2, <1>6, NodeFacts
  <2>2. CASE y = x
    <3>1. nx1[y] = n
      BY Zenon, <1>3, <1>4, <2>1, <2>2
    <3>2. \A a \in A \cup {x} : a > x => a \in A
      BY ONLY <1>2
    <3>. QED
      BY Zenon, <1>2, <1>7, <2>2, <3>1, <3>2 DEF IsNext
  <2>3. CASE y = p
    <3>1. \A a \in A \cup {x} : a > p => a >= x
      BY ONLY <1>2, <1>6, <1>7
    <3>2. x > p
      BY ONLY <1>2
    <3>. QED
      BY Zenon, <1>4, <2>3, <3>1, <3>2 DEF IsNext
  <2>4. CASE y # x /\ y # p
    <3>1. y \in {0} \cup A /\ nx1[y] = nx[y] /\ IsNext(y, nx[y], A)
      BY Zenon, <1>4, <2>1, <2>4 DEF Linked
    <3>2. ASSUME x > y PROVE x >= nx[y]
      <4>1. y = 0 \/ y <= p
        BY ONLY <1>2, <1>7, <2>1, <3>1, <3>2
      <4>2. p > y /\ p \in A
        BY ONLY <1>2, <2>1, <2>4, <4>1
      <4>3. p >= nx[y] /\ nx[y] \in Int
        BY Zenon, <3>1, <4>2, NodeFacts DEF IsNext
      <4>. QED
        BY ONLY <1>2, <4>3
    <3>. QED
      BY Zenon, <3>1, <3>2 DEF IsNext
  <2>. QED
    BY Zenon, <2>2, <2>3, <2>4
<1>10. ASSUME NEW y \in A \cup {x}
       PROVE  pv1[y] \in {0} \cup (A \cup {x}) /\ nx1[pv1[y]] = y
  <2>1. y \in Position /\ y # End
    BY Zenon, <1>6, NodeFacts
  <2>2. CASE y = x
    BY Zenon, <1>2, <1>3, <1>4, <1>5, <2>1, <2>2
  <2>3. CASE y = n
    <3>1. pv1[y] = x /\ nx1[x] = n
      BY Zenon, <1>2, <1>3, <1>4, <1>5, <2>1, <2>3
    <3>. QED
      BY Zenon, <2>3, <3>1
  <2>4. CASE y # x /\ y # n
    <3>1. pv1[y] = pv[y] /\ pv[y] \in {0} \cup A /\ nx[pv[y]] = y
      BY Zenon, <1>5, <2>1, <2>4 DEF Linked
    <3>2. pv[y] # p
      BY Zenon, <1>8, <2>4, <3>1
    <3>3. pv[y] \in 0..(2 * N)
      BY Zenon, <1>6, <3>1
    <3>. QED
      BY Zenon, <1>4, <3>1, <3>2, <3>3
  <2>. QED
    BY Zenon, <2>2, <2>3, <2>4
<1>11. ASSUME NEW y \in Position, y \notin A
       PROVE  nx1[y] = nx[y] /\ pv1[y] = pv[y]
  <2>1. y # p /\ y # n /\ y \in 0..(2 * N)
    BY Zenon, <1>2, <1>11, NodeFacts
  <2>. QED
    BY Zenon, <1>4, <1>5, <2>1
<1>12. Linked(nx1, pv1, A \cup {x})
  BY Zenon, <1>9, <1>10 DEF Linked
<1>13. l.next = nx1 /\ l.prev = pv1
  BY <1>1
<1>. QED
  BY Zenon, <1>1, <1>4, <1>5, <1>11, <1>12, <1>13 DEF Relinked

-----------------------------------------------------------------------------
(* The list of checkSingle. *)

(* The entries of the operations outside S.                                *)
Left(S) == {y \in Position : hist[y].id \notin S}

(* The two entries of the i-th call of the stack remember where they       *)
(* belong when the operations lifted after it are back: first the return,  *)
(* then the call.                                                          *)
InPlace(i) ==
    /\ Remembers(next, prev, Match(calls[i].entry), Left(Below(i)))
    /\ Remembers(next, prev, calls[i].entry, Left(Below(i)) \cup {Match(calls[i].entry)})

(* The pointers are the list of the entries left, and the entries that     *)
(* were lifted know the way back.                                          *)
LinkInv ==
    /\ next \in NextPointers /\ prev \in PrevPointers
    /\ Linked(next, prev, Left(linearized))
    /\ \A i \in 1..Len(calls) : InPlace(i)

(* The return of an operation, by match.                                   *)
LEMMA MatchIs ==
    ASSUME TypeOK, NEW x \in Position, hist[x].kind = "call"
    PROVE  /\ Match(x) \in Position /\ Match(x) # x
           /\ hist[Match(x)].id = hist[x].id
           /\ \A y \in Position : hist[y].id = hist[x].id => y = x \/ y = Match(x)
<1>1. /\ hist \in [Position -> [kind : {"call", "return"}, id : Id]]
      /\ \A y, z \in Position : hist[y] = hist[z] => y = z
      /\ \A id \in Id : \E y, z \in Position :
            /\ y < z
            /\ hist[y] = [kind |-> "call", id |-> id]
            /\ hist[z] = [kind |-> "return", id |-> id]
  BY Zenon DEF TypeOK, Histories
<1>2. PICK id \in Id : id = hist[x].id
  BY <1>1
<1>3. \E z \in Position : hist[z] = [kind |-> "return", id |-> id]
  BY Zenon, <1>1
<1>4. Match(x) \in Position /\ hist[Match(x)] = [kind |-> "return", id |-> id]
  BY Zenon, <1>2, <1>3 DEF Match
<1>5. PICK m \in Position : m = Match(x)
  BY Zenon, <1>4
<1>6. hist[m].kind = "return" /\ hist[m].id = id
  BY <1>4, <1>5
<1>7. m # x
  BY <1>6
<1>8. ASSUME NEW y \in Position, hist[y].id = id
      PROVE  y = x \/ y = m
  <2>1. hist[y] = hist[x] \/ hist[y] = hist[m]
    <3>1. hist[y] \in [kind : {"call", "return"}, id : Id]
      BY Zenon, <1>1
    <3>2. hist[x] \in [kind : {"call", "return"}, id : Id]
      BY Zenon, <1>1
    <3>. QED
      BY <1>2, <1>4, <1>5, <1>8, <3>1, <3>2
  <2>. QED
    BY Zenon, <1>1, <2>1
<1>. QED
  BY Zenon, <1>2, <1>5, <1>6, <1>7, <1>8

(* The node after an entry is EntryAfter.                                  *)
LEMMA NextIsEntryAfter ==
    ASSUME NEW S, NEW y \in 0..(2 * N), NEW z, IsNext(y, z, Left(S))
    PROVE  z = EntryAfter(y, S)
<1>. DEFINE e == EntryAfter(y, S)
<1>1. y \in Int
  BY Zenon, NodeFacts
<1>2. /\ e \in 1..End
      /\ e \in Position => e > y /\ hist[e].id \notin S
      /\ \A a \in Position : (a > y /\ a < e) => hist[a].id \in S
  BY Zenon, <1>1, EntryAfterIs
<1>. HIDE DEF e
<1>3. e \in Int /\ e <= End /\ (e = End \/ (e \in Left(S) /\ e > y))
  BY Zenon, <1>2, NodeFacts DEF Left
<1>4. z \in Int /\ z <= End /\ (z = End \/ (z > y /\ ~(z < e)))
  BY Zenon, <1>2, NodeFacts DEF Left, IsNext
<1>5. e = End \/ e >= z
  BY Zenon, <1>3 DEF IsNext
<1>6. z = e
  BY ONLY <1>3, <1>4, <1>5
<1>. QED
  BY Zenon, <1>6 DEF e

(* lift takes the two entries of an operation out.                         *)
LEMMA LiftKeeps ==
    ASSUME TypeOK, LinkInv, NEW x \in Left(linearized), hist[x].kind = "call", Lift(x),
           NEW S, S = linearized \cup {hist[x].id}
    PROVE  /\ next' \in NextPointers /\ prev' \in PrevPointers
           /\ Linked(next', prev', Left(S))
           /\ Remembers(next', prev', Match(x), Left(S))
           /\ Remembers(next', prev', x, Left(S) \cup {Match(x)})
           /\ \A y \in Position : hist[y].id \in linearized =>
                 next'[y] = next[y] /\ prev'[y] = prev[y]
<1>. DEFINE A == Left(linearized)
            m == Match(x)
            l1 == Unlink(List, x)
            l2 == Unlink(l1, m)
<1>1. /\ x \in Position /\ m \in Position /\ m # x /\ hist[m].id = hist[x].id
      /\ \A y \in Position : hist[y].id = hist[x].id => y = x \/ y = m
  BY Zenon, MatchIs DEF Left
<1>2. /\ A \in SUBSET Position /\ x \in A /\ m \in A \ {x}
      /\ A \ {x} \in SUBSET Position /\ x \notin A \ {x}
  BY Zenon, <1>1 DEF Left
<1>3. (A \ {x}) \ {m} = Left(S)
  BY Zenon, <1>1 DEF Left
<1>4. A \ {x} = Left(S) \cup {m}
  BY Zenon, <1>1, <1>2, <1>3
<1>5. next' = l2.next /\ prev' = l2.prev
  BY Zenon DEF Lift, Become
<1>6. /\ l1 = [next |-> l1.next, prev |-> l1.prev]
      /\ l1.next \in NextPointers /\ l1.prev \in PrevPointers
      /\ Linked(l1.next, l1.prev, A \ {x})
      /\ Remembers(l1.next, l1.prev, x, A \ {x})
      /\ \A y \in Position : y \notin A => l1.next[y] = next[y] /\ l1.prev[y] = prev[y]
  <2>1. Unlinks(next, prev, A, x) /\ l1 = Unlink([next |-> next, prev |-> prev], x)
    BY Zenon, <1>2 DEF LinkInv, List, Unlinks
  <2>. HIDE DEF A, l1
  <2>2. Unlinked(next, prev, A, x, l1)
    BY Zenon, <2>1, UnlinkKeeps
  <2>. QED
    BY Zenon, <2>2 DEF Unlinked
<1>. HIDE DEF A, m, l1
<1>7. /\ l2.next \in NextPointers /\ l2.prev \in PrevPointers
      /\ Linked(l2.next, l2.prev, (A \ {x}) \ {m})
      /\ Remembers(l2.next, l2.prev, m, (A \ {x}) \ {m})
      /\ \A y \in Position : y \notin A \ {x} =>
            l2.next[y] = l1.next[y] /\ l2.prev[y] = l1.prev[y]
  <2>1. /\ Unlinks(l1.next, l1.prev, A \ {x}, m)
        /\ l2 = Unlink([next |-> l1.next, prev |-> l1.prev], m)
    BY Zenon, <1>2, <1>6 DEF Unlinks
  <2>. HIDE DEF l2
  <2>2. Unlinked(l1.next, l1.prev, A \ {x}, m, l2)
    BY Zenon, <2>1, UnlinkKeeps
  <2>. QED
    BY Zenon, <2>2 DEF Unlinked
<1>. HIDE DEF l2
<1>8. Remembers(l2.next, l2.prev, x, A \ {x})
  BY Zenon, <1>1, <1>2, <1>6, <1>7 DEF Remembers
<1>9. ASSUME NEW y \in Position, hist[y].id \in linearized
      PROVE  l2.next[y] = next[y] /\ l2.prev[y] = prev[y]
  <2>1. y \notin A /\ y \notin A \ {x}
    BY Zenon, <1>9 DEF A, Left
  <2>. QED
    BY Zenon, <1>6, <1>7, <2>1
<1>. QED
  BY Zenon, <1>3, <1>4, <1>5, <1>7, <1>8, <1>9 DEF m

(* unlift puts them back.                                                  *)
LEMMA UnliftKeeps ==
    ASSUME TypeOK, next \in NextPointers, prev \in PrevPointers,
           Linked(next, prev, Left(linearized)),
           NEW x \in Position, hist[x].kind = "call", hist[x].id \in linearized,
           Remembers(next, prev, Match(x), Left(linearized)),
           Remembers(next, prev, x, Left(linearized) \cup {Match(x)}), Unlift(x),
           NEW S, S = linearized \ {hist[x].id}
    PROVE  /\ next' \in NextPointers /\ prev' \in PrevPointers
           /\ Linked(next', prev', Left(S))
           /\ \A y \in Position : hist[y].id \in S =>
                 next'[y] = next[y] /\ prev'[y] = prev[y]
<1>. DEFINE A == Left(linearized)
            m == Match(x)
            l1 == Relink(List, m)
            l2 == Relink(l1, x)
<1>1. /\ m \in Position /\ m # x /\ hist[m].id = hist[x].id
      /\ \A y \in Position : hist[y].id = hist[x].id => y = x \/ y = m
  BY Zenon, MatchIs
<1>2. /\ A \in SUBSET Position /\ m \notin A
      /\ A \cup {m} \in SUBSET Position /\ x \notin A \cup {m}
  BY Zenon, <1>1 DEF Left
<1>3. (A \cup {m}) \cup {x} = Left(S)
  BY Zenon, <1>1 DEF Left
<1>4. next' = l2.next /\ prev' = l2.prev
  BY Zenon DEF Unlift, Become
<1>5. /\ l1 = [next |-> l1.next, prev |-> l1.prev]
      /\ l1.next \in NextPointers /\ l1.prev \in PrevPointers
      /\ Linked(l1.next, l1.prev, A \cup {m})
      /\ \A y \in Position : y \notin A => l1.next[y] = next[y] /\ l1.prev[y] = prev[y]
  <2>1. Relinks(next, prev, A, m) /\ l1 = Relink([next |-> next, prev |-> prev], m)
    BY Zenon, <1>1, <1>2 DEF List, Relinks
  <2>. HIDE DEF A, l1, m
  <2>2. Relinked(next, prev, A, m, l1)
    BY Zenon, <2>1, RelinkKeeps
  <2>. QED
    BY Zenon, <2>2 DEF Relinked
<1>6. Remembers(l1.next, l1.prev, x, A \cup {m})
  BY Zenon, <1>2, <1>5 DEF Remembers
<1>. HIDE DEF A, m, l1
<1>7. /\ l2.next \in NextPointers /\ l2.prev \in PrevPointers
      /\ Linked(l2.next, l2.prev, (A \cup {m}) \cup {x})
      /\ \A y \in Position : y \notin A \cup {m} =>
            l2.next[y] = l1.next[y] /\ l2.prev[y] = l1.prev[y]
  <2>1. /\ Relinks(l1.next, l1.prev, A \cup {m}, x)
        /\ l2 = Relink([next |-> l1.next, prev |-> l1.prev], x)
    BY Zenon, <1>2, <1>5, <1>6 DEF Relinks
  <2>. HIDE DEF l2
  <2>2. Relinked(l1.next, l1.prev, A \cup {m}, x, l2)
    BY Zenon, <2>1, RelinkKeeps
  <2>. QED
    BY Zenon, <2>2 DEF Relinked
<1>. HIDE DEF l2
<1>8. ASSUME NEW y \in Position, hist[y].id \in S
      PROVE  l2.next[y] = next[y] /\ l2.prev[y] = prev[y]
  <2>1. y \notin A /\ y \notin A \cup {m}
    BY Zenon, <1>1, <1>8 DEF A, Left
  <2>. QED
    BY Zenon, <1>5, <1>7, <2>1
<1>. QED
  BY Zenon, <1>3, <1>4, <1>7, <1>8

(* A step that leaves the pointers of the operations of S alone leaves a   *)
(* call of the stack with one of them in place.                            *)
LEMMA StaysInPlace ==
    ASSUME CInv, hist' = hist, NEW i \in 1..Len(calls), calls'[i] = calls[i],
           Below(i)' = Below(i), InPlace(i), NEW S, OpAt(i) \in S,
           \A y \in Position : hist[y].id \in S =>
               next'[y] = next[y] /\ prev'[y] = prev[y]
    PROVE  InPlace(i)'
<1>. DEFINE x == calls[i].entry
            m == Match(x)
<1>1. x \in Position /\ hist[x].id \in S /\ hist[x].kind = "call"
  BY Zenon, CallsType DEF CInv, SearchInv, StackInv, OpAt
<1>2. m \in Position /\ hist[m].id \in S
  BY Zenon, <1>1, MatchIs DEF CInv
<1>3. Match(calls[i].entry)' = m
  BY Zenon DEF Match
<1>4. Left(Below(i))' = Left(Below(i))
  BY Zenon DEF Left
<1>5. /\ next'[x] = next[x] /\ prev'[x] = prev[x]
      /\ next'[m] = next[m] /\ prev'[m] = prev[m]
  BY Zenon, <1>1, <1>2
<1>6. InPlace(i)' <=> /\ Remembers(next', prev', m, Left(Below(i)))
                      /\ Remembers(next', prev', x, Left(Below(i)) \cup {m})
  BY Zenon, <1>3, <1>4 DEF InPlace, Remembers, IsNext, IsPrev
<1>. HIDE DEF m, x
<1>. QED
  BY Zenon, <1>5, <1>6 DEF InPlace, Remembers, m, x

(* headEntry.next is the first entry left.                                 *)
LEMMA HeadIs ==
    ASSUME LinkInv
    PROVE  next[0] = HeadEntry(linearized)
<1>1. IsNext(0, next[0], Left(linearized)) /\ 0 \in 0..(2 * N)
  BY Zenon, NodeFacts DEF LinkInv, Linked
<1>. QED
  BY Zenon, <1>1, NextIsEntryAfter DEF HeadEntry

(* lift and the jump to headEntry.next are the first branch of the search  *)
(* over the entries left.                                                  *)
LEMMA LinkedLinearizeStep ==
    ASSUME CInv, LinkInv, LinkedLinearize
    PROVE  Linearize(HeadEntry(linearized), HeadEntry(linearized \cup {hist[entry].id})) /\ LinkInv'
<1>h. /\ TypeOK /\ Lift(entry) /\ Linearize(HeadEntry(linearized), next'[0])
      /\ Searching(HeadEntry(linearized), "call")
  BY Zenon, HeadIs DEF LinkedLinearize, CInv
<1>0. /\ TypeOK /\ Lift(entry) /\ Linearize(HeadEntry(linearized), next'[0])
      /\ entry \in Position /\ hist[entry].id \notin linearized /\ hist[entry].kind = "call"
  BY Zenon, <1>h, AtEntry DEF Searching
<1>1. entry \in Left(linearized)
  BY Zenon, <1>0 DEF Left
<1>S. PICK S : S = linearized \cup {hist[entry].id}
  BY Zenon
<1>2. /\ next' \in NextPointers /\ prev' \in PrevPointers
      /\ Linked(next', prev', Left(S))
      /\ Remembers(next', prev', Match(entry), Left(S))
      /\ Remembers(next', prev', entry, Left(S) \cup {Match(entry)})
      /\ \A y \in Position : hist[y].id \in linearized =>
            next'[y] = next[y] /\ prev'[y] = prev[y]
  BY Zenon, <1>0, <1>1, <1>S, LiftKeeps
<1>3. next'[0] = EntryAfter(0, S)
  <2>1. IsNext(0, next'[0], Left(S)) /\ 0 \in 0..(2 * N)
    BY Zenon, <1>2, NodeFacts DEF Linked
  <2>. QED
    BY Zenon, <2>1, NextIsEntryAfter
<1>4. Linearize(HeadEntry(linearized), HeadEntry(linearized \cup {hist[entry].id}))
  BY Zenon, <1>0, <1>3, <1>S DEF Linearize, HeadEntry
<1>5. CInv'
  BY Zenon, <1>4, LinearizeKeeps
<1>n. PICK n \in Nat : n = Len(calls)
  BY DEF CInv, TypeOK
<1>6. /\ hist' = hist /\ linearized' = S
      /\ calls' = Append(calls, [entry |-> entry, state |-> state])
  BY Zenon, <1>0, <1>S DEF Linearize
<1>7. /\ Len(calls') = n + 1
      /\ calls'[n + 1] = [entry |-> entry, state |-> state]
      /\ calls'[n + 1].entry = entry
      /\ \A i \in 1..n : calls'[i] = calls[i]
  BY <1>6, <1>n DEF CInv, TypeOK
<1>8. /\ \A i \in 1..n : 1..i \subseteq 1..n
      /\ \A i \in 1..(n + 1) : i \in 1..n \/ i = n + 1
  OBVIOUS
<1>9. \A i \in 1..n : Below(i)' = Below(i)
  <2>1. \A i \in 1..n : OpAt(i)' = OpAt(i)
    BY Zenon, <1>6, <1>7 DEF OpAt
  <2>. QED
    BY Zenon, <1>8, <2>1 DEF Below
<1>10. Left(linearized)' = Left(S) /\ Match(entry) = Match(calls[n + 1].entry)'
  BY Zenon, <1>6, <1>7 DEF Left, Match
<1>11. ASSUME NEW i \in 1..n
       PROVE  InPlace(i)'
  <2>1. OpAt(i) \in linearized /\ InPlace(i)
    BY Zenon, <1>n DEF CInv, SearchInv, StackInv, LinkInv
  <2>. QED
    BY Zenon, <1>2, <1>6, <1>7, <1>9, <1>n, <2>1, StaysInPlace
<1>12. InPlace(n + 1)'
  <2>1. Below(n + 1)' = linearized'
    BY Zenon, <1>5, <1>7 DEF CInv, SearchInv, StackInv, Below
  <2>2. Left(Below(n + 1))' = Left(S)
    BY Zenon, <1>6, <2>1 DEF Left
  <2>. QED
    BY Zenon, <1>2, <1>7, <1>10, <2>2 DEF InPlace, Remembers, IsNext, IsPrev
<1>. QED
  BY Zenon, <1>2, <1>4, <1>7, <1>8, <1>10, <1>11, <1>12 DEF LinkInv, Linked, IsNext, IsPrev

(* unlift and the jump to the next entry of the operation given up are     *)
(* the backtracking of the search over the entries left.                   *)
LEMMA LinkedBacktrackStep ==
    ASSUME CInv, LinkInv, LinkedBacktrack
    PROVE  /\ LET top == calls[Len(calls)].entry
              IN Backtrack(HeadEntry(linearized), EntryAfter(top, linearized \ {hist[top].id}))
           /\ LinkInv'
<1>0. calls # <<>> /\ TypeOK
  BY Zenon DEF LinkedBacktrack, CInv
<1>n. PICK n \in Nat : Len(calls) = n + 1
  <2>1. Len(calls) \in Nat /\ Len(calls) # 0
    BY <1>0 DEF CInv, TypeOK
  <2>. QED
    BY <2>1
<1>i. /\ \A i \in 1..n : 1..i \subseteq 1..n /\ i \in 1..(n + 1)
      /\ n + 1 \in 1..(n + 1)
  OBVIOUS
<1>top. PICK top \in Position : top = calls[n + 1].entry
  BY Zenon, <1>i, <1>n, CallsType
<1>1. Unlift(top) /\ Backtrack(HeadEntry(linearized), next'[top])
  BY Zenon, <1>n, <1>top, HeadIs DEF LinkedBacktrack
<1>2. hist[top].id \in linearized /\ hist[top].kind = "call"
  BY Zenon, <1>i, <1>n, <1>top DEF CInv, SearchInv, StackInv, OpAt
<1>3. /\ Remembers(next, prev, Match(top), Left(linearized))
      /\ Remembers(next, prev, top, Left(linearized) \cup {Match(top)})
  <2>1. Below(n + 1) = linearized
    BY Zenon, <1>n, TopLevel
  <2>2. InPlace(n + 1)
    BY Zenon, <1>i, <1>n DEF LinkInv
  <2>. QED
    BY Zenon, <1>top, <2>1, <2>2 DEF InPlace
<1>S. PICK S : S = linearized \ {hist[top].id}
  BY Zenon
<1>4. /\ next' \in NextPointers /\ prev' \in PrevPointers
      /\ Linked(next', prev', Left(S))
      /\ \A y \in Position : hist[y].id \in S =>
            next'[y] = next[y] /\ prev'[y] = prev[y]
  <2>1. /\ next \in NextPointers /\ prev \in PrevPointers
        /\ Linked(next, prev, Left(linearized))
    BY Zenon DEF LinkInv
  <2>. QED
    BY Zenon, <1>0, <1>1, <1>2, <1>3, <1>S, <2>1, UnliftKeeps
<1>5. next'[top] = EntryAfter(top, S)
  <2>1. top \in Left(S) /\ top \in 0..(2 * N)
    BY Zenon, <1>S, NodeFacts DEF Left
  <2>2. IsNext(top, next'[top], Left(S))
    BY Zenon, <1>4, <2>1 DEF Linked
  <2>. QED
    BY Zenon, <2>1, <2>2, NextIsEntryAfter
<1>6. LET t == calls[Len(calls)].entry
      IN Backtrack(HeadEntry(linearized), EntryAfter(t, linearized \ {hist[t].id}))
  BY Zenon, <1>1, <1>5, <1>S, <1>n, <1>top DEF Backtrack
<1>7. CInv'
  BY Zenon, <1>6, BacktrackKeeps
<1>8. hist' = hist /\ linearized' = S /\ calls' = SubSeq(calls, 1, n)
  BY <1>1, <1>S, <1>n, <1>top DEF Backtrack
<1>9. Len(calls') = n /\ \A i \in 1..n : calls'[i] = calls[i]
  BY <1>8, <1>n, PopIs DEF CInv, TypeOK
<1>10. \A i \in 1..n : OpAt(i)' = OpAt(i)
  BY Zenon, <1>8, <1>9 DEF OpAt
<1>11. ASSUME NEW i \in 1..n
       PROVE  InPlace(i)'
  <2>1. OpAt(i) \in S
    <3>1. linearized' = {OpAt(j)' : j \in 1..n}
      BY Zenon, <1>7, <1>9 DEF CInv, SearchInv, StackInv
    <3>. QED
      BY Zenon, <1>8, <1>10, <3>1
  <2>2. Below(i)' = Below(i)
    BY Zenon, <1>i, <1>10 DEF Below
  <2>3. InPlace(i) /\ i \in 1..Len(calls)
    BY Zenon, <1>i, <1>n DEF LinkInv
  <2>. QED
    BY Zenon, <1>4, <1>8, <1>9, <2>1, <2>2, <2>3, StaysInPlace
<1>12. Left(linearized)' = Left(S)
  BY Zenon, <1>8 DEF Left
<1>. QED
  BY Zenon, <1>4, <1>6, <1>9, <1>11, <1>12 DEF LinkInv, Linked, IsNext, IsPrev

(* The next entry of the list is the next entry left.                      *)
LEMMA LinkedSkipStep ==
    ASSUME CInv, LinkInv, LinkedSkip
    PROVE  Skip(HeadEntry(linearized), EntryAfter(entry, linearized))
<1>0. Skip(HeadEntry(linearized), next[entry])
  BY Zenon, HeadIs DEF LinkedSkip
<1>1. entry \in Position /\ hist[entry].id \notin linearized
  BY Zenon, <1>0, AtEntry DEF Skip
<1>2. entry \in Left(linearized) /\ entry \in 0..(2 * N)
  BY Zenon, <1>1, NodeFacts DEF Left
<1>3. IsNext(entry, next[entry], Left(linearized))
  BY Zenon, <1>2 DEF LinkInv, Linked
<1>4. next[entry] = EntryAfter(entry, linearized)
  BY Zenon, <1>2, <1>3, NextIsEntryAfter
<1>. QED
  BY Zenon, <1>0, <1>4

(* Steps that leave the list alone.                                        *)
LEMMA ListUnchanged ==
    ASSUME LinkInv, UNCHANGED <<hist, linearized, calls, next, prev>>
    PROVE  LinkInv'
<1>1. /\ hist' = hist /\ linearized' = linearized /\ calls' = calls
      /\ next' = next /\ prev' = prev
  OBVIOUS
<1>2. Left(linearized)' = Left(linearized)
  BY Zenon, <1>1 DEF Left
<1>3. \A i : OpAt(i)' = OpAt(i)
  BY Zenon, <1>1 DEF OpAt
<1>4. \A i : Left(Below(i))' = Left(Below(i)) /\ Match(calls[i].entry)' = Match(calls[i].entry)
  BY Zenon, <1>1, <1>3 DEF Left, Below, Match
<1>5. \A i : InPlace(i)' <=> InPlace(i)
  BY Zenon, <1>1, <1>4 DEF InPlace, Remembers, IsNext, IsPrev
<1>. QED
  BY Zenon, <1>1, <1>2, <1>5 DEF LinkInv, Linked, IsNext, IsPrev

LEMMA InitLinked == LinkedInit => LinkInv
<1>. SUFFICES ASSUME LinkedInit PROVE LinkInv
  BY Zenon
<1>1. /\ next = [x \in 0..(2 * N) |-> x + 1] /\ prev = [x \in Position |-> x - 1]
      /\ linearized = {} /\ Len(calls) = 0
  BY DEF LinkedInit, Init
<1>2. N \in Nat /\ 0..(2 * N) = {0} \cup Position
  BY HistoryAssumption DEF Position
<1>3. /\ \A x \in 0..(2 * N) : /\ x + 1 \in 1..End /\ x + 1 > x
                               /\ x + 1 \in Position \cup {End}
                               /\ \A a \in Position : a > x => a >= x + 1
      /\ \A x \in Position : x - 1 \in 0..(2 * N) /\ (x - 1) + 1 = x
  BY <1>2 DEF Position, End
<1>4. Left(linearized) = Position
  BY Zenon, <1>1 DEF Left
<1>5. /\ next \in NextPointers /\ prev \in PrevPointers
      /\ \A x \in 0..(2 * N) : next[x] = x + 1
      /\ \A x \in Position : prev[x] = x - 1
  BY Zenon, <1>1, <1>3 DEF NextPointers, PrevPointers
<1>6. \A y \in 0..(2 * N) : IsNext(y, next[y], Position)
  <2>1. \A y \in 0..(2 * N) : IsNext(y, y + 1, Position)
    BY Zenon, <1>3 DEF IsNext
  <2>. QED
    BY Zenon, <1>5, <2>1
<1>7. \A y \in Position : prev[y] \in 0..(2 * N) /\ next[prev[y]] = y
  BY Zenon, <1>3, <1>5
<1>8. Linked(next, prev, Position)
  BY Zenon, <1>2, <1>6, <1>7 DEF Linked
<1>9. 1..Len(calls) = {}
  BY <1>1
<1>. QED
  BY Zenon, <1>4, <1>5, <1>8, <1>9 DEF LinkInv

(* A step of the search with pointers is a step of the search over the     *)
(* entries left.                                                           *)
LEMMA LinkedStep ==
    CInv /\ LinkInv /\ [LinkedNext]_linkedVars => [Next]_vars /\ LinkInv'
<1>. SUFFICES ASSUME CInv, LinkInv, [LinkedNext]_linkedVars
              PROVE  [Next]_vars /\ LinkInv'
  BY Zenon
<1>1. CASE LinkedLinearize
  BY Zenon, <1>1, LinkedLinearizeStep DEF Next
<1>2. CASE LinkedSkip
  <2>1. UNCHANGED <<hist, linearized, calls, next, prev>>
    BY Zenon, <1>2 DEF LinkedSkip, Skip
  <2>. QED
    BY Zenon, <1>2, <2>1, LinkedSkipStep, ListUnchanged DEF Next
<1>3. CASE LinkedBacktrack
  BY Zenon, <1>3, LinkedBacktrackStep DEF Next
<1>4. CASE LinkedReturn
  <2>1. UNCHANGED <<hist, linearized, calls, next, prev>>
    BY Zenon, <1>4 DEF LinkedReturn, ReturnTrue, ReturnFalse
  <2>2. ReturnFalse(HeadEntry(linearized)) \/ ReturnTrue(HeadEntry(linearized))
    BY Zenon, <1>4, HeadIs DEF LinkedReturn
  <2>. QED
    BY Zenon, <2>1, <2>2, ListUnchanged DEF Next
<1>5. CASE UNCHANGED linkedVars
  <2>1. UNCHANGED <<hist, linearized, calls, next, prev>> /\ UNCHANGED vars
    BY Zenon, <1>5 DEF linkedVars, vars
  <2>. QED
    BY Zenon, <2>1, ListUnchanged
<1>. QED
  BY Zenon, <1>1, <1>2, <1>3, <1>4, <1>5 DEF LinkedNext

LEMMA LinkInvInOrder == LinkInv => ListInOrder
<1>. SUFFICES ASSUME LinkInv, NEW x \in {0} \cup Left(linearized)
              PROVE  /\ next[x] = EntryAfter(x, linearized)
                     /\ next[x] # End => prev[next[x]] = x
  BY Zenon DEF ListInOrder, Left
<1>. DEFINE A == Left(linearized)
            y == next[x]
<1>1. A \in SUBSET Position /\ Linked(next, prev, A)
  BY Zenon DEF LinkInv, Left
<1>2. x \in 0..(2 * N) /\ IsNext(x, y, A)
  BY Zenon, <1>1, NodeFacts DEF Linked
<1>3. y = EntryAfter(x, linearized)
  BY Zenon, <1>2, NextIsEntryAfter
<1>. HIDE DEF A
<1>4. ASSUME y # End PROVE prev[y] = x
  <2>1. y \in A
    BY Zenon, <1>2, <1>4 DEF IsNext
  <2>2. prev[y] \in {0} \cup A /\ next[prev[y]] = next[x]
    BY Zenon, <1>1, <2>1 DEF Linked
  <2>3. PICK p \in {0} \cup A : p = prev[y]
    BY Zenon, <2>2
  <2>4. x \in {0} \cup A /\ next[p] = next[x]
    BY Zenon, <2>2, <2>3 DEF A
  <2>5. p = x
    BY Zenon, <1>1, <2>4, LinkedOnce
  <2>. QED
    BY Zenon, <2>3, <2>5
<1>. QED
  BY Zenon, <1>3, <1>4

LEMMA LinkedInvariant == LinkedSpec => [](WInv /\ CompleteInv /\ LinkInv)
<1>1. LinkedInit => WInv /\ CompleteInv /\ LinkInv
  BY Zenon, InitWInv, InitComplete, InitLinked DEF LinkedInit
<1>2. ASSUME WInv, CompleteInv, LinkInv, [LinkedNext]_linkedVars
      PROVE  WInv' /\ CompleteInv' /\ LinkInv'
  <2>1. CInv
    BY Zenon, <1>2 DEF WInv
  <2>2. [Next]_vars /\ LinkInv'
    BY Zenon, <1>2, <2>1, LinkedStep
  <2>3. WInv'
    BY Zenon, <1>2, <2>2, StepKeeps
  <2>4. CInv'
    BY Zenon, <2>3 DEF WInv
  <2>. QED
    BY Zenon, <1>2, <2>1, <2>2, <2>3, <2>4, CompleteNext
<1>. QED
  BY <1>1, <1>2, PTL DEF LinkedSpec

(* For every number of operations and every history, the pointers of the   *)
(* list of checkSingle are the entries left in time order, with prev the   *)
(* inverse of next: unlift undoes lift in any nesting of the two.          *)
THEOREM PointersInOrder == LinkedSpec => []ListInOrder
BY LinkedInvariant, LinkInvInOrder, PTL

(* checkSingle with its pointers does what the search over the set of the  *)
(* operations left does, step by step.                                     *)
THEOREM LinkedImplementsSearch == LinkedSpec => ImplementsSearch
<1>1. LinkedInit => Init
  BY Zenon DEF LinkedInit
<1>2. WInv /\ LinkInv /\ [LinkedNext]_linkedVars => [Next]_vars
  BY Zenon, LinkedStep DEF WInv
<1>. QED
  BY <1>1, <1>2, LinkedInvariant, PTL DEF LinkedSpec, ImplementsSearch, Spec

-----------------------------------------------------------------------------
(* The stack as a linearization of N operations. *)

INSTANCE FiniteSetTheorems

(* A stack with every operation on it once has N calls.                    *)
LEMMA StackIsWhole ==
    ASSUME CInv, IsLinearization(StackOrder, Len(calls), StackStates)
    PROVE  Len(calls) = N /\ StackOrder \in [1..N -> Id]
<1>n. PICK n \in Nat : n = Len(calls)
  BY Zenon, TopLevel
<1>1. \A i \in 1..n : OpAt(i) \in Id
  BY Zenon, <1>n, CallsType, HistoryType DEF CInv, OpAt
<1>2. StackOrder \in [1..n -> Id]
  BY Zenon, <1>1, <1>n DEF StackOrder
<1>3. ASSUME NEW i \in 1..n, NEW j \in 1..n, StackOrder[i] = StackOrder[j]
      PROVE  i = j
  <2>1. i < j \/ j < i \/ i = j
    OBVIOUS
  <2>. QED
    BY Zenon, <1>3, <1>n, <2>1 DEF IsLinearization
<1>4. StackOrder \in Bijection(1..n, Id)
  <2>1. \A id \in Id : \E i \in 1..n : StackOrder[i] = id
    BY Zenon, <1>n DEF IsLinearization
  <2>. QED
    BY Zenon, <1>2, <1>3, <2>1 DEF Bijection, Injection, Surjection, IsInjective
<1>5. /\ IsFiniteSet(1..n)
      /\ Cardinality(1..n) = n /\ Cardinality(Id) = N
  <2>1. N \in Nat
    BY Zenon, HistoryAssumption
  <2>2. \A k \in Nat : IsFiniteSet(1..k) /\ Cardinality(1..k) = k
    BY FS_Interval
  <2>. QED
    BY Zenon, <2>1, <2>2 DEF Id
<1>6. Cardinality(Id) = Cardinality(1..n)
  BY Zenon, <1>4, <1>5, FS_Bijection DEF ExistsBijection
<1>. QED
  BY Zenon, <1>2, <1>5, <1>6, <1>n

(* Such a stack shows that the history is linearizable.                    *)
LEMMA WitnessMeansLinearizable ==
    ASSUME CInv, IsLinearization(StackOrder, Len(calls), StackStates)
    PROVE  Linearizable
<1>. DEFINE order == StackOrder
            f == StackStates
            Values(g) == g = [i \in 0..N |-> IF i = 0 THEN <<>>
                                             ELSE NewState(g[i - 1], ops[order[i]])]
            st == CHOOSE g : Values(g)
<1>1. /\ N \in Nat /\ Len(calls) = N /\ order \in [1..N -> Id]
      /\ IsLinearization(order, N, f)
  BY Zenon, StackIsWhole, HistoryAssumption
<1>2. /\ f = [i \in 0..N |-> f[i]] /\ f[0] = <<>>
      /\ \A i \in 1..N : f[i] = NewState(f[i - 1], ops[order[i]])
  <2>1. f = [i \in 0..N |-> f[i]]
    BY Zenon, <1>1 DEF StackStates
  <2>. QED
    BY Zenon, <1>1, <2>1 DEF IsLinearization
<1>. HIDE DEF order, f
<1>3. \A i \in 0..N : i = 0 \/ (i \in 1..N /\ i - 1 \in 0..N /\ i - 1 < i)
  BY <1>1
<1>4. Values(f)
  <2>1. \A i \in 0..N : f[i] = IF i = 0 THEN <<>> ELSE NewState(f[i - 1], ops[order[i]])
    BY Zenon, <1>2, <1>3
  <2>. QED
    BY Zenon, <1>2, <2>1
<1>5. Values(st)
  BY Zenon, <1>4
<1>6. /\ st = [i \in 0..N |-> st[i]]
      /\ \A i \in 0..N : st[i] = IF i = 0 THEN <<>> ELSE NewState(st[i - 1], ops[order[i]])
  BY Zenon, <1>5
<1>7. \A i \in 0..N : st[i] = f[i]
  <2>. DEFINE wrong == {i \in 0..N : st[i] # f[i]}
  <2>1. SUFFICES ASSUME wrong # {} PROVE FALSE
    BY Zenon
  <2>2. wrong \in SUBSET Nat
    <3>1. 0..N \subseteq Nat
      BY ONLY <1>1
    <3>. QED
      BY Zenon, <3>1
  <2>3. PICK k \in wrong : \A z \in wrong : k <= z
    BY Zenon, <2>1, <2>2, LeastExists
  <2>4. k \in 0..N /\ st[k] # f[k]
    BY Zenon
  <2>5. k # 0
    BY Zenon, <1>2, <1>6, <2>4
  <2>6. k \in 1..N /\ k - 1 \in 0..N /\ ~(k <= k - 1)
    BY <1>1, <2>4, <2>5
  <2>7. st[k - 1] = f[k - 1]
    BY Zenon, <2>3, <2>6
  <2>. QED
    BY Zenon, <1>2, <1>6, <2>4, <2>5, <2>6, <2>7
<1>8. st = f
  BY Zenon, <1>2, <1>6, <1>7
<1>9. IsLinearization(order, N, st)
  BY Zenon, <1>1, <1>8
<1>. QED
  BY Zenon, <1>1, <1>9 DEF Linearizable

-----------------------------------------------------------------------------
(* Both answers. *)

(* For every number of operations and every history: checkSingle returns   *)
(* true only if the history is linearizable, and false only if it is not.  *)
(* Neither the cache (cacheContains) nor giving up at the first return     *)
(* entry of the list loses a linearization.                                *)
THEOREM VerdictIsRight == Spec => []ResultCorrect
<1>1. Init => WInv /\ CompleteInv
  BY Zenon, InitWInv, InitComplete
<1>2. WInv => CInv
  BY Zenon DEF WInv
<1>3. WInv /\ CompleteInv => ResultCorrect
  BY Zenon, WitnessMeansLinearizable, LinearizableCompletes
  DEF WInv, TrueHasWitness, CompleteInv, ResultCorrect
<1>. QED
  BY <1>1, <1>2, <1>3, StepKeeps, CompleteNext, PTL DEF Spec

(* So the verdict of checkSingle with its pointers is right.               *)
THEOREM LinkedVerdictIsRight == LinkedSpec => []ResultCorrect
BY LinkedImplementsSearch, VerdictIsRight, PTL DEF ImplementsSearch

-----------------------------------------------------------------------------
(* One goroutine per key. *)

\* The keys whose answer the caller has received.
Received == {p \in Partition : routine[p] = "done"}

PartitionsTypeOK ==
    /\ linearizable \in [Partition -> BOOLEAN]
    /\ routine \in [Partition -> {"searching", "sending", "done"}]
    /\ answer \in [Partition -> BOOLEAN]
    /\ kill \in BOOLEAN /\ ok \in BOOLEAN
    /\ count \in Nat
    /\ pc \in {"loop", "returned", "timed out"}

(* While the caller is in its loop nobody has been killed, so that every      *)
(* answer on its way is what checkSingle found; what was received before a    *)
(* false answer is true, and count counts it.                                 *)
PartitionsInv ==
    /\ PartitionsTypeOK
    /\ kill = ~ok
    /\ pc = "loop" => ok
    /\ pc = "loop" =>
          \A p \in Partition :
              routine[p] = "sending" => answer[p] = linearizable[p]
    /\ ~ok => \E p \in Partition : ~linearizable[p]
    /\ ok => /\ \A p \in Received : linearizable[p]
             /\ count = Cardinality(Received)
    /\ pc = "returned" /\ ok => count >= Cardinality(Partition)

-----------------------------------------------------------------------------

(* At the start nobody has answered. *)
LEMMA PartitionsInit == CheckInit => PartitionsInv
<1> SUFFICES ASSUME CheckInit PROVE PartitionsInv
  OBVIOUS
<1>1. PartitionsTypeOK
  BY DEF CheckInit, PartitionsTypeOK
<1>2. Received = {}
  BY DEF CheckInit, Received
<1>3. Cardinality(Received) = 0
  BY <1>2, FS_EmptySet
<1>. QED BY <1>1, <1>2, <1>3 DEF CheckInit, PartitionsInv

(* A goroutine that ends its search changes what it sends only; while the    *)
(* caller collects, that is what the search found.                            *)
LEMMA AnswerPreserves ==
    ASSUME PartitionsInv, NEW p \in Partition, NEW found \in BOOLEAN,
           Answer(p, found), pc = "loop" => found = linearizable[p]
    PROVE  PartitionsInv'
<1>1. PartitionsTypeOK'
  BY DEF Answer, PartitionsInv, PartitionsTypeOK
<1>2. Received' = Received
  BY DEF Answer, PartitionsInv, PartitionsTypeOK, Received
<1>3. (pc = "loop" =>
          \A q \in Partition :
              routine[q] = "sending" => answer[q] = linearizable[q])'
  BY DEF Answer, PartitionsInv, PartitionsTypeOK
<1>. QED BY <1>1, <1>2, <1>3 DEF Answer, PartitionsInv

(* The caller receives one more answer. *)
LEMMA ReceivePreserves ==
    ASSUME PartitionsInv, NEW p \in Partition, Receive(p)
    PROVE  PartitionsInv'
<1>. USE DEF PartitionsInv
<1>1. PartitionsTypeOK'
  BY DEF Receive, PartitionsTypeOK
<1>2. Received' = Received \cup {p} /\ p \notin Received
  BY DEF Receive, Received, PartitionsTypeOK
<1>3. IsFiniteSet(Received)
  BY PartitionAssumption, FS_Subset DEF Received
<1>4. Cardinality(Received') = Cardinality(Received) + 1
  BY <1>2, <1>3, FS_AddElement
<1>5. ok /\ answer[p] = linearizable[p] /\ linearizable' = linearizable
  BY DEF Receive
<1>6. ok' = linearizable[p] /\ kill' = ~ok'
  BY <1>5 DEF Receive, PartitionsTypeOK
<1>7. ok' => /\ \A q \in Received' : linearizable'[q]
             /\ count' = Cardinality(Received')
  BY <1>2, <1>4, <1>5, <1>6 DEF Receive
<1>8. (pc = "loop" =>
          \A q \in Partition :
              routine[q] = "sending" => answer[q] = linearizable[q])'
  BY DEF Receive, PartitionsTypeOK
<1>9. /\ pc' = "loop" => ok'
      /\ pc' = "returned" /\ ok' => count' >= Cardinality(Partition)
  BY DEF Receive
<1>. QED BY <1>1, <1>5, <1>6, <1>7, <1>8, <1>9

(* Every step keeps the invariant: a kill flag that is set ends the loop.     *)
LEMMA PartitionsNext == PartitionsInv /\ [CheckNext]_checkVars => PartitionsInv'
<1> SUFFICES ASSUME PartitionsInv, [CheckNext]_checkVars PROVE PartitionsInv'
  OBVIOUS
<1>1. ASSUME NEW p \in Partition, Finish(p) PROVE PartitionsInv'
  <2>1. linearizable[p] \in BOOLEAN
    BY DEF PartitionsInv, PartitionsTypeOK
  <2>. QED BY <1>1, <2>1, AnswerPreserves DEF Finish
<1>2. ASSUME NEW p \in Partition, Killed(p) PROVE PartitionsInv'
  <2>1. pc # "loop"
    BY <1>2 DEF Killed, PartitionsInv
  <2>. QED BY <1>2, <2>1, AnswerPreserves DEF Killed
<1>3. ASSUME NEW p \in Partition, Receive(p) PROVE PartitionsInv'
  BY <1>3, ReceivePreserves
<1>4. CASE TimeOut
  BY <1>4 DEF TimeOut, PartitionsInv, PartitionsTypeOK, Received
<1>5. CASE UNCHANGED checkVars
  BY <1>5 DEF checkVars, PartitionsInv, PartitionsTypeOK, Received
<1>. QED BY <1>1, <1>2, <1>3, <1>4, <1>5 DEF CheckNext, Runs

(* The invariant holds in every reachable state of CheckOperationsTimeout.    *)
LEMMA PartitionsInvariant == CheckSpec => []PartitionsInv
<1>. QED BY PartitionsInit, PartitionsNext, PTL DEF CheckSpec

-----------------------------------------------------------------------------

(* CheckOperationsTimeout returns false only if the history of some key is    *)
(* not linearizable, although goroutines that find the kill flag set answer   *)
(* false whatever their history is.                                           *)
THEOREM FalseVerdictIsReal == CheckSpec => []FalseIsReal
<1>1. PartitionsInv => FalseIsReal
  BY DEF PartitionsInv, FalseIsReal
<1>. QED BY <1>1, PartitionsInvariant, PTL

(* CheckOperationsTimeout returns true before its timeout only if the history *)
(* of every key is linearizable: the count of true answers is that of the     *)
(* keys only when every key has answered.                                     *)
THEOREM TrueVerdictIsComplete == CheckSpec => []TrueIsComplete
<1>1. PartitionsInv => TrueIsComplete
  <2> SUFFICES ASSUME PartitionsInv, pc = "returned", ok
               PROVE  \A p \in Partition : linearizable[p]
    BY DEF TrueIsComplete
  <2>1. Received \subseteq Partition
    BY DEF Received
  <2>2. Cardinality(Received) >= Cardinality(Partition)
    BY DEF PartitionsInv
  <2>3. Received = Partition
    <3>1. /\ Cardinality(Received) <= Cardinality(Partition)
          /\ Cardinality(Received) \in Nat /\ Cardinality(Partition) \in Nat
          /\ Cardinality(Received) = Cardinality(Partition)
                => Received = Partition
      BY <2>1, PartitionAssumption, FS_Subset, FS_CardinalityType
    <3>. QED BY <2>2, <3>1
  <2>. QED BY <2>3 DEF PartitionsInv
<1>. QED BY <1>1, PartitionsInvariant, PTL

=============================================================================
