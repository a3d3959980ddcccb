--------------------------- MODULE FindKthLargest ---------------------------
(***************************************************************************)
(* findKthLargest of raft/util.go, with which the leader finds the index   *)
(* that a majority has reached: an in-place quickselect.  Its recursion is *)
(* a tail recursion, so a call of QuickSort is a new window [begin, end).  *)
(* Indexes are those of Go, from 0.                                        *)
(***************************************************************************)
EXTENDS Integers, FiniteSets

CONSTANTS
    N,      \* len(nums)
    Value   \* the integers in nums

ASSUME NAssumption == N \in Nat \ {0} /\ Value \subseteq Int

VARIABLES
    input,   \* nums as the caller passed it
    rank,    \* k as the caller passed it
    nums, begin, end, k,   \* the arguments of QuickSort
    pivot, cur, i, j,      \* its locals
    pc,      \* "call", "partition" or "returned"
    result

vars == <<input, rank, nums, begin, end, k, pivot, cur, i, j, pc, result>>

Position == 0 .. N - 1

Init ==
    /\ input \in [Position -> Value] /\ rank \in 1 .. N
    /\ nums = input /\ begin = 0 /\ end = N /\ k = rank
    /\ pivot = input[0] /\ cur = 0 /\ i = 0 /\ j = 0
    /\ pc = "call" /\ result = input[0]

Return(v) ==
    /\ result' = v /\ pc' = "returned"
    /\ UNCHANGED <<input, rank, nums, begin, end, k, pivot, cur, i, j>>

(* QuickSort of one element. *)
OneElement == pc = "call" /\ begin + 1 = end /\ Return(nums[begin])

BeginPartition ==
    /\ pc = "call" /\ begin + 1 # end
    /\ pivot' = nums[begin] /\ cur' = begin + 1 /\ i' = begin /\ j' = end - 1
    /\ pc' = "partition"
    /\ UNCHANGED <<input, rank, nums, begin, end, k, result>>

Swap(f, x, y) == [f EXCEPT ![x] = f[y], ![y] = f[x]]

BugToBigPart ==
    /\ pc = "partition" /\ i # j /\ nums[cur] > pivot
    /\ nums' = Swap(nums, cur, j)
    /\ UNCHANGED <<input, rank, begin, end, k, pivot, cur, i, j, pc, result>>

ToBigPart ==
    /\ pc = "partition" /\ i # j /\ nums[cur] > pivot
    /\ nums' = Swap(nums, cur, j) /\ j' = j - 1
    /\ UNCHANGED <<input, rank, begin, end, k, pivot, cur, i, pc, result>>

BugToSmallPart ==
    /\ pc = "partition" /\ i # j /\ nums[cur] <= pivot
    /\ i' = i + 1 /\ cur' = cur + 1
    /\ UNCHANGED <<input, rank, nums, begin, end, k, pivot, j, pc, result>>

ToSmallPart ==
    /\ pc = "partition" /\ i # j /\ nums[cur] <= pivot
    /\ nums' = Swap(nums, cur, i) /\ i' = i + 1 /\ cur' = cur + 1
    /\ UNCHANGED <<input, rank, begin, end, k, pivot, j, pc, result>>

BigPartSize == end - j - 1

Found == pc = "partition" /\ i = j /\ BigPartSize + 1 = k /\ Return(pivot)

IntoBigPart ==
    /\ pc = "partition" /\ i = j /\ BigPartSize >= k
    /\ begin' = j + 1 /\ pc' = "call"
    /\ UNCHANGED <<input, rank, nums, end, k, pivot, cur, i, j, result>>

BugIntoSmallPart ==
    /\ pc = "partition" /\ i = j /\ BigPartSize + 1 < k
    /\ end' = i /\ k' = k - BigPartSize /\ pc' = "call"
    /\ UNCHANGED <<input, rank, nums, begin, pivot, cur, i, j, result>>

IntoSmallPart ==
    /\ pc = "partition" /\ i = j /\ BigPartSize + 1 < k
    /\ end' = i /\ k' = k - BigPartSize - 1 /\ pc' = "call"
    /\ UNCHANGED <<input, rank, nums, begin, pivot, cur, i, j, result>>

Next ==
    \/ OneElement \/ BeginPartition
    \/ ToBigPart \/ ToSmallPart
    \/ Found \/ IntoBigPart \/ IntoSmallPart

Spec == Init /\ [][Next]_vars

(* The function runs: there is nothing it waits for. *)
FairSpec == Spec /\ WF_vars(Next)

-----------------------------------------------------------------------------
(* Properties. *)

TypeOK ==
    /\ input \in [Position -> Value] /\ nums \in [Position -> Value]
    /\ rank \in 1 .. N /\ k \in 1 .. N
    /\ begin \in Position /\ end \in 1 .. N
    /\ pivot \in Value /\ result \in Value
    /\ cur \in 0 .. N /\ i \in Position /\ j \in Position
    /\ pc \in {"call", "partition", "returned"}

(* v is the r-th largest of the values of f, however the equal ones are    *)
(* ordered.                                                                *)
IsKthLargest(f, r, v) ==
    /\ Cardinality({x \in Position : f[x] > v}) < r
    /\ Cardinality({x \in Position : f[x] >= v}) >= r

(* findKthLargest returns the k-th largest element of its argument, for    *)
(* every order and any repetition of the values.                           *)
ReturnsKthLargest == pc = "returned" => IsKthLargest(input, rank, result)

(* Every window is smaller than the last, and every partition ends.        *)
Returns == <>(pc = "returned")

Rearranges(p) ==
    /\ p \in [Position -> Position]
    /\ \A x, y \in Position : p[x] = p[y] => x = y
    /\ \A y \in Position : \E x \in Position : p[x] = y

(* The swaps lose nothing and duplicate nothing. *)
Permuted ==
    \E p \in [Position -> Position] :
        Rearranges(p) /\ \A x \in Position : nums[x] = input[p[x]]

(* The k-th largest of the window is the rank-th largest of the array: the *)
(* window holds k elements or more, and what is left and right of it is    *)
(* not larger and not smaller than what is in it.                          *)
Window ==
    /\ begin < end /\ k <= end - begin /\ k + (N - end) = rank
    /\ \A x \in Position, y \in begin .. end - 1 :
          /\ x < begin => nums[x] <= nums[y]
          /\ x >= end => nums[x] >= nums[y]

(* The comments in the code: nums[begin, i) is <= pivot, nums(j, end) is   *)
(* >= pivot; and the pivot moves along at position i, just before cur.     *)
Partition ==
    pc = "partition" =>
        /\ begin <= i /\ i <= j /\ j < end
        /\ cur = i + 1 /\ nums[i] = pivot
        /\ \A x \in begin .. i - 1 : nums[x] <= pivot
        /\ \A x \in j + 1 .. end - 1 : nums[x] >= pivot

(* What the loop and the recursion keep. *)
SelectInv == Permuted /\ Window /\ Partition

=============================================================================
