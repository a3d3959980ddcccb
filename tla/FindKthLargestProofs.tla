------------------------ MODULE FindKthLargestProofs ------------------------
(***************************************************************************)
(* findKthLargest returns the k-th largest element, for every length and   *)
(* every array.                                                            *)
(***************************************************************************)
EXTENDS FindKthLargest, TLAPS, FiniteSetTheorems, FunctionTheorems

KInv == TypeOK /\ SelectInv

-----------------------------------------------------------------------------
(* Swaps. *)

LEMMA SwapType ==
    ASSUME NEW f \in [Position -> Value], NEW x \in Position, NEW y \in Position
    PROVE  Swap(f, x, y) \in [Position -> Value]
BY DEF Swap

(* A swap rearranges what was rearranged.                                  *)
LEMMA SwapPermutes ==
    ASSUME TypeOK, Permuted, NEW x \in Position, NEW y \in Position,
           nums' = Swap(nums, x, y), input' = input
    PROVE  Permuted'
<1>1. PICK p \in [Position -> Position] :
         Rearranges(p) /\ \A z \in Position : nums[z] = input[p[z]]
  BY DEF Permuted
<1>. DEFINE q == Swap(p, x, y)
<1>2. q \in [Position -> Position]
  BY DEF Swap
<1>3. \A z \in Position : q[z] = IF z = y THEN p[x] ELSE IF z = x THEN p[y] ELSE p[z]
  BY DEF Swap
<1>4. \A z \in Position :
         nums'[z] = IF z = y THEN nums[x] ELSE IF z = x THEN nums[y] ELSE nums[z]
  BY DEF Swap, TypeOK
<1>. HIDE DEF q
<1>5. \A z \in Position : nums'[z] = input'[q[z]]
  BY <1>1, <1>3, <1>4
<1>6. ASSUME NEW a \in Position, NEW b \in Position, q[a] = q[b]
      PROVE  a = b
  BY <1>1, <1>3, <1>6 DEF Rearranges
<1>7. ASSUME NEW b \in Position
      PROVE  \E a \in Position : q[a] = b
  <2>1. PICK a \in Position : p[a] = b
    BY <1>1 DEF Rearranges
  <2>2. CASE a = x
    BY <2>1, <2>2, <1>3
  <2>3. CASE a = y
    BY <2>1, <2>3, <1>3
  <2>4. CASE a # x /\ a # y
    BY <2>1, <2>4, <1>3
  <2>. QED BY <2>2, <2>3, <2>4
<1>8. Rearranges(q)
  BY <1>2, <1>6, <1>7 DEF Rearranges
<1>. QED
  BY <1>2, <1>5, <1>8 DEF Permuted

(* A swap inside the window keeps what is known of the window.             *)
LEMMA SwapWindow ==
    ASSUME TypeOK, Window, NEW x \in begin .. end - 1, NEW y \in begin .. end - 1,
           nums' = Swap(nums, x, y), UNCHANGED <<begin, end, k, rank>>
    PROVE  Window'
<1>1. x \in Position /\ y \in Position /\ begin \in Int /\ end \in Int /\ N \in Nat
  BY NAssumption DEF TypeOK, Position
<1>2. \A z \in Position :
         nums'[z] = IF z = y THEN nums[x] ELSE IF z = x THEN nums[y] ELSE nums[z]
  BY <1>1 DEF Swap, TypeOK
<1>3. ASSUME NEW a \in Position, NEW b \in begin .. end - 1
      PROVE  /\ a < begin => nums'[a] <= nums'[b]
             /\ a >= end => nums'[a] >= nums'[b]
  <2>1. b \in Position
    BY <1>1 DEF TypeOK, Position
  <2>2. a < begin \/ a >= end => nums'[a] = nums[a]
    BY <1>1, <1>2 DEF Position
  <2>3. \E c \in begin .. end - 1 : nums'[b] = nums[c]
    BY <1>2, <2>1
  <2>. QED BY <2>2, <2>3 DEF Window
<1>. QED
  BY <1>3 DEF Window

-----------------------------------------------------------------------------
(* Every step keeps the invariant. *)

LEMMA KInit == Init => KInv
<1>. SUFFICES ASSUME Init PROVE KInv
  OBVIOUS
<1>0. N \in Nat /\ N > 0
  BY NAssumption
<1>1. TypeOK
  BY <1>0 DEF Init, TypeOK, Position
<1>2. Permuted
  <2>. DEFINE p == [x \in Position |-> x]
  <2>1. p \in [Position -> Position] /\ Rearranges(p)
    BY DEF Rearranges
  <2>2. \A x \in Position : nums[x] = input[p[x]]
    BY DEF Init
  <2>. QED BY <2>1, <2>2 DEF Permuted
<1>3. Window /\ Partition
  BY <1>0 DEF Init, Window, Partition, Position
<1>. QED BY <1>1, <1>2, <1>3 DEF KInv, SelectInv

LEMMA KBegin == KInv /\ BeginPartition => KInv'
<1>. SUFFICES ASSUME KInv, BeginPartition PROVE KInv'
  OBVIOUS
<1>1. N \in Nat /\ N > 0 /\ begin \in Int /\ end \in Int /\ begin + 1 < end
  BY NAssumption DEF KInv, SelectInv, Window, TypeOK, Position, BeginPartition
<1>2. TypeOK'
  BY <1>1 DEF KInv, TypeOK, Position, BeginPartition
<1>3. Permuted' /\ Window'
  BY DEF KInv, SelectInv, Permuted, Rearranges, Window, BeginPartition
<1>4. Partition'
  BY <1>1 DEF Partition, BeginPartition
<1>. QED BY <1>2, <1>3, <1>4 DEF KInv, SelectInv

LEMMA KReturn ==
    ASSUME KInv, NEW v \in Value, Return(v)
    PROVE  KInv'
<1>1. TypeOK'
  BY DEF KInv, TypeOK, Return
<1>2. Permuted' /\ Window' /\ Partition'
  BY DEF KInv, SelectInv, Permuted, Rearranges, Window, Partition, Return
<1>. QED BY <1>1, <1>2 DEF KInv, SelectInv

(* The element at cur is larger than the pivot and goes to the right part. *)
LEMMA KBigPart == KInv /\ ToBigPart => KInv'
<1>. SUFFICES ASSUME KInv, ToBigPart PROVE KInv'
  OBVIOUS
<1>1. /\ N \in Nat /\ begin \in Int /\ end \in Int /\ i \in Int /\ j \in Int
      /\ 0 <= begin /\ begin <= i /\ i < j /\ j < end /\ end <= N /\ cur = i + 1
  BY NAssumption DEF KInv, SelectInv, TypeOK, Partition, Position, ToBigPart
<1>2. cur \in begin .. end - 1 /\ j \in begin .. end - 1
      /\ cur \in Position /\ j \in Position
  BY <1>1 DEF Position
<1>3. nums \in [Position -> Value] /\ nums' = Swap(nums, cur, j)
  BY DEF KInv, TypeOK, ToBigPart
<1>4. TypeOK'
  <2>1. nums' \in [Position -> Value]
    BY <1>2, <1>3, SwapType
  <2>. QED BY <1>1, <2>1 DEF KInv, TypeOK, Position, ToBigPart
<1>5. Permuted'
  BY <1>2, <1>3, SwapPermutes DEF KInv, SelectInv, ToBigPart
<1>6. Window'
  BY <1>2, <1>3, SwapWindow DEF KInv, SelectInv, ToBigPart
<1>7. Partition'
  <2>1. \A z \in Position :
           nums'[z] = IF z = j THEN nums[cur] ELSE IF z = cur THEN nums[j] ELSE nums[z]
    BY <1>2, <1>3 DEF Swap
  <2>2. nums[cur] > pivot /\ j' = j - 1
        /\ UNCHANGED <<begin, end, i, cur, pivot>>
    BY DEF ToBigPart
  <2>3. nums[i] = pivot
        /\ (\A x \in begin .. i - 1 : nums[x] <= pivot)
        /\ (\A x \in j + 1 .. end - 1 : nums[x] >= pivot)
    BY DEF KInv, SelectInv, Partition, ToBigPart
  <2>4. i \in Position /\ nums'[i] = pivot
    BY <1>1, <2>1, <2>3 DEF Position
  <2>5. ASSUME NEW x \in begin .. i - 1 PROVE nums'[x] <= pivot
    BY <1>1, <2>1, <2>3 DEF Position
  <2>6. ASSUME NEW x \in j .. end - 1 PROVE nums'[x] >= pivot
    <3>1. x \in Position
      BY <1>1 DEF Position
    <3>2. CASE x = j
      <4>1. nums[cur] \in Int /\ pivot \in Int
        BY <1>2, <1>3, NAssumption DEF KInv, TypeOK
      <4>. QED BY <2>1, <2>2, <3>1, <3>2, <4>1
    <3>3. CASE x # j
      BY <1>1, <2>1, <2>3, <3>1, <3>3
    <3>. QED BY <3>2, <3>3
  <2>7. (j - 1) + 1 = j
    BY <1>1
  <2>. QED BY <1>1, <2>2, <2>4, <2>5, <2>6, <2>7 DEF Partition
<1>. QED BY <1>4, <1>5, <1>6, <1>7 DEF KInv, SelectInv

(* The element at cur changes places with the pivot. *)
LEMMA KSmallPart == KInv /\ ToSmallPart => KInv'
<1>. SUFFICES ASSUME KInv, ToSmallPart PROVE KInv'
  OBVIOUS
<1>1. /\ N \in Nat /\ begin \in Int /\ end \in Int /\ i \in Int /\ j \in Int
      /\ 0 <= begin /\ begin <= i /\ i < j /\ j < end /\ end <= N /\ cur = i + 1
  BY NAssumption DEF KInv, SelectInv, TypeOK, Partition, Position, ToSmallPart
<1>2. cur \in begin .. end - 1 /\ i \in begin .. end - 1
      /\ cur \in Position /\ i \in Position
  BY <1>1 DEF Position
<1>3. nums \in [Position -> Value] /\ nums' = Swap(nums, cur, i)
  BY DEF KInv, TypeOK, ToSmallPart
<1>4. TypeOK'
  <2>1. nums' \in [Position -> Value]
    BY <1>2, <1>3, SwapType
  <2>. QED BY <1>1, <2>1 DEF KInv, TypeOK, Position, ToSmallPart
<1>5. Permuted'
  BY <1>2, <1>3, SwapPermutes DEF KInv, SelectInv, ToSmallPart
<1>6. Window'
  BY <1>2, <1>3, SwapWindow DEF KInv, SelectInv, ToSmallPart
<1>7. Partition'
  <2>1. \A z \in Position :
           nums'[z] = IF z = i THEN nums[cur] ELSE IF z = cur THEN nums[i] ELSE nums[z]
    BY <1>2, <1>3 DEF Swap
  <2>2. nums[cur] <= pivot /\ i' = i + 1 /\ cur' = cur + 1
        /\ UNCHANGED <<begin, end, j, pivot>>
    BY DEF ToSmallPart
  <2>3. nums[i] = pivot
        /\ (\A x \in begin .. i - 1 : nums[x] <= pivot)
        /\ (\A x \in j + 1 .. end - 1 : nums[x] >= pivot)
    BY DEF KInv, SelectInv, Partition, ToSmallPart
  <2>4. nums'[i + 1] = pivot
    BY <1>1, <1>2, <2>1, <2>3
  <2>5. ASSUME NEW x \in begin .. (i + 1) - 1 PROVE nums'[x] <= pivot
    BY <1>1, <2>1, <2>2, <2>3 DEF Position
  <2>6. ASSUME NEW x \in j + 1 .. end - 1 PROVE nums'[x] >= pivot
    BY <1>1, <2>1, <2>3 DEF Position
  <2>. QED BY <1>1, <2>2, <2>4, <2>5, <2>6 DEF Partition
<1>. QED BY <1>4, <1>5, <1>6, <1>7 DEF KInv, SelectInv

(* The next window is the right part: everything left of it is at most the *)
(* pivot, everything in it at least the pivot.                             *)
LEMMA KIntoBig == KInv /\ IntoBigPart => KInv'
<1>. SUFFICES ASSUME KInv, IntoBigPart PROVE KInv'
  OBVIOUS
<1>1. /\ N \in Nat /\ begin \in Int /\ end \in Int /\ i \in Int /\ k \in Int
      /\ 0 <= begin /\ begin <= i /\ i = j /\ j < end /\ end <= N
      /\ 1 <= k /\ k <= end - j - 1 /\ begin' = j + 1
  BY NAssumption
     DEF KInv, SelectInv, TypeOK, Partition, Position, IntoBigPart, BigPartSize
<1>2. TypeOK'
  BY <1>1 DEF KInv, TypeOK, Position, IntoBigPart
<1>3. Permuted' /\ Partition'
  BY DEF KInv, SelectInv, Permuted, Rearranges, Partition, IntoBigPart
<1>4. ASSUME NEW x \in Position, NEW y \in j + 1 .. end - 1
      PROVE  /\ x < j + 1 => nums[x] <= nums[y]
             /\ x >= end => nums[x] >= nums[y]
  <2>1. y \in begin .. end - 1 /\ y \in Position /\ x \in Int
    BY <1>1 DEF Position
  <2>2. nums[x] \in Int /\ nums[y] \in Int /\ pivot \in Int
    BY <2>1, NAssumption DEF KInv, TypeOK
  <2>3. nums[y] >= pivot
    BY DEF KInv, SelectInv, Partition, IntoBigPart
  <2>4. (x < begin => nums[x] <= nums[y]) /\ (x >= end => nums[x] >= nums[y])
    BY <2>1 DEF KInv, SelectInv, Window
  <2>5. x \in begin .. i - 1 => nums[x] <= pivot
    BY DEF KInv, SelectInv, Partition, IntoBigPart
  <2>6. x = i => nums[x] = pivot
    BY DEF KInv, SelectInv, Partition, IntoBigPart
  <2>. QED BY <1>1, <2>1, <2>2, <2>3, <2>4, <2>5, <2>6
<1>5. UNCHANGED <<nums, end, k, rank>> /\ k + (N - end) = rank
  BY DEF IntoBigPart, KInv, SelectInv, Window
<1>6. Window'
  BY <1>1, <1>4, <1>5 DEF Window
<1>. QED BY <1>2, <1>3, <1>6 DEF KInv, SelectInv

(* The next window is the left part. *)
LEMMA KIntoSmall == KInv /\ IntoSmallPart => KInv'
<1>. SUFFICES ASSUME KInv, IntoSmallPart PROVE KInv'
  OBVIOUS
<1>1. /\ N \in Nat /\ begin \in Int /\ end \in Int /\ i \in Int /\ k \in Int
      /\ 0 <= begin /\ begin <= i /\ i = j /\ j < end /\ end <= N
      /\ k <= end - begin /\ k > end - j /\ k + (N - end) = rank
      /\ k <= N /\ rank \in Int
  BY NAssumption
     DEF KInv, SelectInv, TypeOK, Partition, Window, Position, IntoSmallPart, BigPartSize
<1>2. end' = i /\ k' = k - (end - j - 1) - 1 /\ UNCHANGED <<nums, begin, rank>>
  BY DEF IntoSmallPart, BigPartSize
<1>3. TypeOK'
  <2>1. i \in 1 .. N /\ k - (end - j - 1) - 1 \in 1 .. N
    BY <1>1
  <2>. QED BY <1>2, <2>1 DEF KInv, TypeOK, IntoSmallPart
<1>4. Permuted' /\ Partition'
  BY DEF KInv, SelectInv, Permuted, Rearranges, Partition, IntoSmallPart
<1>5. ASSUME NEW x \in Position, NEW y \in begin .. i - 1
      PROVE  /\ x < begin => nums[x] <= nums[y]
             /\ x >= i => nums[x] >= nums[y]
  <2>1. y \in begin .. end - 1 /\ y \in Position /\ x \in Int
    BY <1>1 DEF Position
  <2>2. nums[x] \in Int /\ nums[y] \in Int /\ pivot \in Int
    BY <2>1, NAssumption DEF KInv, TypeOK
  <2>3. nums[y] <= pivot
    BY DEF KInv, SelectInv, Partition, IntoSmallPart
  <2>4. (x < begin => nums[x] <= nums[y]) /\ (x >= end => nums[x] >= nums[y])
    BY <2>1 DEF KInv, SelectInv, Window
  <2>5. x \in j + 1 .. end - 1 => nums[x] >= pivot
    BY DEF KInv, SelectInv, Partition, IntoSmallPart
  <2>6. x = i => nums[x] = pivot
    BY DEF KInv, SelectInv, Partition, IntoSmallPart
  <2>. QED BY <1>1, <2>1, <2>2, <2>3, <2>4, <2>5, <2>6
<1>6. i > begin /\ k - (end - j - 1) - 1 <= i - begin
      /\ (k - (end - j - 1) - 1) + (N - i) = rank
  BY <1>1
<1>7. Window'
  BY <1>2, <1>5, <1>6 DEF Window
<1>. QED BY <1>3, <1>4, <1>7 DEF KInv, SelectInv

-----------------------------------------------------------------------------
(* What is returned. *)

(* A rearrangement keeps the number of positions whose value is in S.      *)
LEMMA SameCount ==
    ASSUME TypeOK, Permuted, NEW S
    PROVE  Cardinality({x \in Position : input[x] \in S})
             = Cardinality({x \in Position : nums[x] \in S})
<1>1. PICK p \in [Position -> Position] :
         Rearranges(p) /\ \A z \in Position : nums[z] = input[p[z]]
  BY DEF Permuted
<1>. DEFINE A == {x \in Position : nums[x] \in S}
            B == {x \in Position : input[x] \in S}
            q == [x \in A |-> p[x]]
<1>2. q \in [A -> B]
  BY <1>1
<1>3. \A a, b \in A : q[a] = q[b] => a = b
  BY <1>1 DEF Rearranges
<1>4. ASSUME NEW y \in B PROVE \E x \in A : q[x] = y
  BY <1>1 DEF Rearranges
<1>5. q \in Bijection(A, B)
  <2>. HIDE DEF q, A, B
  <2>. QED BY <1>2, <1>3, <1>4, Fun_IsBij
<1>6. IsFiniteSet(A)
  <2>1. IsFiniteSet(0 .. N - 1)
    BY NAssumption, FS_Interval
  <2>2. A \in SUBSET (0 .. N - 1)
    BY DEF Position
  <2>. HIDE DEF A
  <2>. QED BY <2>1, <2>2, FS_Subset
<1>7. ExistsBijection(A, B)
  BY <1>5, Fun_ExistsBij
<1>. HIDE DEF A, B
<1>8. Cardinality(B) = Cardinality(A)
  BY <1>6, <1>7, FS_Bijection
<1>. QED BY <1>8 DEF A, B

(* A value with nothing larger before it and nothing smaller after it is   *)
(* the one that the array, sorted, has at its position.                    *)
LEMMA KthAt ==
    ASSUME TypeOK, Permuted, NEW z \in Position, rank = N - z,
           \A x \in Position : /\ x < z => nums[x] <= nums[z]
                               /\ x > z => nums[x] >= nums[z]
    PROVE  IsKthLargest(input, rank, nums[z])
<1>. DEFINE v == nums[z]
            Above == {x \in Position : nums[x] > v}
            NotBelow == {x \in Position : nums[x] >= v}
<1>0. /\ N \in Nat /\ z \in Int /\ 0 <= z /\ z < N
      /\ \A x \in Position : x \in Int /\ nums[x] \in Int /\ input[x] \in Int
  <2>1. N \in Nat /\ z \in Int /\ 0 <= z /\ z < N
    BY NAssumption DEF Position
  <2>2. ASSUME NEW x \in Position PROVE x \in Int /\ nums[x] \in Value /\ input[x] \in Value
    BY DEF Position, TypeOK
  <2>. QED BY <2>1, <2>2, NAssumption
<1>1. Cardinality(Above) < rank
  <2>1. IsFiniteSet(z + 1 .. N - 1) /\ Cardinality(z + 1 .. N - 1) < rank
    <3>1. z + 1 \in Int /\ N - 1 \in Int
      BY <1>0
    <3>2. IsFiniteSet(z + 1 .. N - 1)
          /\ Cardinality(z + 1 .. N - 1) = IF z + 1 > N - 1 THEN 0 ELSE (N - 1) - (z + 1) + 1
      BY <3>1, FS_Interval
    <3>. QED BY <1>0, <3>2
  <2>2. Above \in SUBSET (z + 1 .. N - 1)
    BY <1>0 DEF Position
  <2>3. Cardinality(Above) <= Cardinality(z + 1 .. N - 1) /\ IsFiniteSet(Above)
    BY <2>1, <2>2, FS_Subset
  <2>4. Cardinality(Above) \in Nat /\ Cardinality(z + 1 .. N - 1) \in Nat
    BY <2>1, <2>3, FS_CardinalityType
  <2>. HIDE DEF Above
  <2>. QED BY <1>0, <2>1, <2>3, <2>4
<1>2. Cardinality(NotBelow) >= rank
  <2>1. z .. N - 1 \in SUBSET NotBelow
    BY <1>0 DEF Position
  <2>2. IsFiniteSet(0 .. N - 1) /\ NotBelow \in SUBSET (0 .. N - 1)
    BY <1>0, FS_Interval DEF Position
  <2>3. IsFiniteSet(NotBelow)
    BY <2>2, FS_Subset
  <2>4. Cardinality(z .. N - 1) = rank
    BY <1>0, FS_Interval
  <2>5. Cardinality(z .. N - 1) <= Cardinality(NotBelow)
    BY <2>1, <2>3, FS_Subset
  <2>6. Cardinality(NotBelow) \in Nat
    BY <2>3, FS_CardinalityType
  <2>. HIDE DEF NotBelow
  <2>. QED BY <1>0, <2>4, <2>5, <2>6
<1>3. Cardinality({x \in Position : input[x] > v}) = Cardinality(Above)
  <2>. DEFINE S == {u \in Int : u > v}
  <2>1. Cardinality({x \in Position : input[x] \in S})
          = Cardinality({x \in Position : nums[x] \in S})
    BY SameCount
  <2>2. {x \in Position : input[x] \in S} = {x \in Position : input[x] > v}
    BY <1>0
  <2>3. {x \in Position : nums[x] \in S} = Above
    BY <1>0
  <2>. QED BY <2>1, <2>2, <2>3
<1>4. Cardinality({x \in Position : input[x] >= v}) = Cardinality(NotBelow)
  <2>. DEFINE S == {u \in Int : u >= v}
  <2>1. Cardinality({x \in Position : input[x] \in S})
          = Cardinality({x \in Position : nums[x] \in S})
    BY SameCount
  <2>2. {x \in Position : input[x] \in S} = {x \in Position : input[x] >= v}
    BY <1>0
  <2>3. {x \in Position : nums[x] \in S} = NotBelow
    BY <1>0
  <2>. QED BY <2>1, <2>2, <2>3
<1>. QED BY <1>1, <1>2, <1>3, <1>4 DEF IsKthLargest

KthInv == KInv /\ ReturnsKthLargest

LEMMA KOneElement == KInv /\ OneElement => KthInv'
<1>. SUFFICES ASSUME KInv, OneElement PROVE KthInv'
  OBVIOUS
<1>1. /\ N \in Nat /\ begin \in Position /\ begin \in Int /\ end = begin + 1
      /\ rank = N - begin /\ begin \in begin .. end - 1
  BY NAssumption DEF KInv, SelectInv, TypeOK, Window, Position, OneElement
<1>2. nums[begin] \in Value
  BY <1>1 DEF KInv, TypeOK
<1>3. \A x \in Position : /\ x < begin => nums[x] <= nums[begin]
                          /\ x > begin => nums[x] >= nums[begin]
  BY <1>1 DEF KInv, SelectInv, Window, Position
<1>4. IsKthLargest(input, rank, nums[begin])
  BY <1>1, <1>3, KthAt DEF KInv, SelectInv
<1>5. KInv'
  BY <1>2, KReturn DEF OneElement
<1>6. ReturnsKthLargest'
  BY <1>4 DEF ReturnsKthLargest, IsKthLargest, OneElement, Return
<1>. QED BY <1>5, <1>6 DEF KthInv

LEMMA KFound == KInv /\ Found => KthInv'
<1>. SUFFICES ASSUME KInv, Found PROVE KthInv'
  OBVIOUS
<1>1. /\ N \in Nat /\ i \in Position /\ i \in Int /\ begin \in Int /\ end \in Int
      /\ i = j /\ begin <= i /\ i < end /\ rank = N - i /\ nums[i] = pivot
  BY NAssumption
     DEF KInv, SelectInv, TypeOK, Window, Partition, Position, Found, BigPartSize
<1>2. pivot \in Value
  BY DEF KInv, TypeOK
<1>3. ASSUME NEW x \in Position
      PROVE  /\ x < i => nums[x] <= nums[i]
             /\ x > i => nums[x] >= nums[i]
  <2>1. i \in begin .. end - 1 /\ x \in Int
    BY <1>1 DEF Position
  <2>2. (x < begin => nums[x] <= nums[i]) /\ (x >= end => nums[x] >= nums[i])
    BY <2>1 DEF KInv, SelectInv, Window
  <2>3. x \in begin .. i - 1 => nums[x] <= pivot
    BY DEF KInv, SelectInv, Partition, Found
  <2>4. x \in j + 1 .. end - 1 => nums[x] >= pivot
    BY DEF KInv, SelectInv, Partition, Found
  <2>. QED BY <1>1, <2>1, <2>2, <2>3, <2>4
<1>4. IsKthLargest(input, rank, nums[i])
  BY <1>1, <1>3, KthAt DEF KInv, SelectInv
<1>5. KInv'
  BY <1>2, KReturn DEF Found
<1>6. ReturnsKthLargest'
  BY <1>1, <1>4 DEF ReturnsKthLargest, IsKthLargest, Found, Return
<1>. QED BY <1>5, <1>6 DEF KthInv

LEMMA KStutter == KthInv /\ UNCHANGED vars => KthInv'
BY DEF KthInv, KInv, TypeOK, SelectInv, Permuted, Rearranges, Window, Partition,
       ReturnsKthLargest, IsKthLargest, vars

LEMMA KNext == KthInv /\ [Next]_vars => KthInv'
<1>. SUFFICES ASSUME KthInv, [Next]_vars PROVE KthInv'
  OBVIOUS
<1>0. KInv
  BY DEF KthInv
<1>1. pc' # "returned" => ReturnsKthLargest'
  BY DEF ReturnsKthLargest
<1>2. CASE OneElement
  BY <1>0, <1>2, KOneElement
<1>3. CASE BeginPartition
  BY <1>0, <1>1, <1>3, KBegin DEF KthInv, BeginPartition
<1>4. CASE ToBigPart
  BY <1>0, <1>1, <1>4, KBigPart DEF KthInv, ToBigPart
<1>5. CASE ToSmallPart
  BY <1>0, <1>1, <1>5, KSmallPart DEF KthInv, ToSmallPart
<1>6. CASE Found
  BY <1>0, <1>6, KFound
<1>7. CASE IntoBigPart
  BY <1>0, <1>1, <1>7, KIntoBig DEF KthInv, IntoBigPart
<1>8. CASE IntoSmallPart
  BY <1>0, <1>1, <1>8, KIntoSmall DEF KthInv, IntoSmallPart
<1>9. CASE UNCHANGED vars
  BY <1>9, KStutter
<1>. QED
  BY <1>2, <1>3, <1>4, <1>5, <1>6, <1>7, <1>8, <1>9 DEF Next

LEMMA KAlways == Spec => []KthInv
<1>1. Init => KthInv
  BY KInit DEF KthInv, ReturnsKthLargest, Init
<1>. QED BY <1>1, KNext, PTL DEF Spec

(* findKthLargest of raft/util.go returns the k-th largest of nums, for    *)
(* every array that is not empty, every k from 1 to its length and any     *)
(* repetition of values.                                                   *)
THEOREM FindKthLargestCorrect == Spec => []ReturnsKthLargest
<1>1. KthInv => ReturnsKthLargest
  BY DEF KthInv
<1>. QED BY <1>1, KAlways, PTL

(* The swaps of findKthLargest lose nothing, the k-th largest never leaves *)
(* the window it looks at, and what its comments say of the two parts of   *)
(* the window holds at every step of the loop.                             *)
THEOREM PartsInOrder == Spec => []SelectInv
<1>1. KthInv => SelectInv
  BY DEF KthInv, KInv
<1>. QED BY <1>1, KAlways, PTL

=============================================================================
