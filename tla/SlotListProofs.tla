---------------------------- MODULE SlotListProofs ----------------------------
(***************************************************************************)
(* What SlotList's operators do to a list of any length.                   *)
(***************************************************************************)
EXTENDS SlotList, FiniteSetTheorems, SequenceTheorems, WellFoundedInduction, TLAPS

(* A non-empty set of natural numbers has a smallest member. *)
LEMMA Smallest ==
  ASSUME NEW T \in SUBSET Nat, T # {}
  PROVE  \E m \in T : \A n \in T : m <= n
<1>1. PICK m \in T : \A n \in T : ~ (<<n, m>> \in OpToRel(<, Nat))
  BY WFMin, NatLessThanWellFounded
<1>2. \A n \in T : ~ (n < m)
  BY <1>1 DEF OpToRel
<1>3. QED
  BY <1>2

(* rawInsertSlot's for loop always finds its place: the assert(0) after it *)
(* is out of reach, whatever the order of the list.                        *)
THEOREM LoopFindsPlace ==
  ASSUME NEW S, NEW list \in Seq(S), NEW slot \in S, NEW priority \in [S -> Int],
         list # <<>>, ~ (priority[slot] <= priority[list[Len(list)]])
  PROVE  \E i \in DOMAIN list : IsFirstLower(i, list, slot, priority)
<1> DEFINE T == {i \in DOMAIN list : priority[list[i]] < priority[slot]}
<1>1. Len(list) \in DOMAIN list /\ DOMAIN list = 1..Len(list)
  OBVIOUS
<1>2. Len(list) \in T /\ T \in SUBSET Nat
  BY <1>1
<1>3. PICK m \in T : \A n \in T : m <= n
  BY <1>2, Smallest
<1>4. IsFirstLower(m, list, slot, priority)
  BY <1>1, <1>3 DEF IsFirstLower
<1>5. QED
  BY <1>3, <1>4

-----------------------------------------------------------------------------
(* new is list with slot put in at place i. *)
InsertedAt(new, list, i, slot) ==
  /\ Len(new) = Len(list) + 1
  /\ \A k \in 1..(i - 1) : new[k] = list[k]
  /\ new[i] = slot
  /\ \A k \in i..Len(list) : new[k + 1] = list[k]

(* An insertion adds the slot and loses nothing. *)
LEMMA InsertedMembers ==
  ASSUME NEW S, NEW list \in Seq(S), NEW new \in Seq(S), NEW slot \in S,
         NEW i \in 1..(Len(list) + 1), InsertedAt(new, list, i, slot)
  PROVE  /\ Members(new) = Members(list) \cup {slot}
         /\ NoDuplicates(list) /\ slot \notin Members(list) => NoDuplicates(new)
<1>1. /\ DOMAIN list = 1..Len(list) /\ DOMAIN new = 1..(Len(list) + 1)
      /\ Len(list) \in Nat
  BY LenProperties DEF InsertedAt
<1>2. \A k \in DOMAIN new : \/ k < i /\ k \in DOMAIN list /\ new[k] = list[k]
                            \/ k = i /\ new[k] = slot
                            \/ k > i /\ k - 1 \in DOMAIN list /\ new[k] = list[k - 1]
  <2>1. TAKE k \in DOMAIN new
  <2>2. CASE k > i
    <3>1. k - 1 \in i..Len(list) /\ (k - 1) + 1 = k
      BY <1>1, <2>2
    <3>2. new[(k - 1) + 1] = list[k - 1]
      BY <3>1 DEF InsertedAt
    <3>3. QED
      BY <1>1, <2>2, <3>1, <3>2
  <2>3. CASE k <= i
    BY <1>1, <2>3 DEF InsertedAt
  <2>4. QED
    BY <1>1, <2>2, <2>3
<1>3. \A k \in DOMAIN list : \E n \in DOMAIN new : new[n] = list[k]
  <2>1. TAKE k \in DOMAIN list
  <2>2. CASE k < i
    BY <1>1, <2>2 DEF InsertedAt
  <2>3. CASE k >= i
    <3>1. k + 1 \in DOMAIN new /\ new[k + 1] = list[k]
      BY <1>1, <2>3 DEF InsertedAt
    <3>2. QED
      BY <3>1
  <2>4. QED
    BY <1>1, <2>2, <2>3
<1>4. i \in DOMAIN new /\ new[i] = slot
  BY <1>1 DEF InsertedAt
<1>5. Members(new) = Members(list) \cup {slot}
  BY <1>2, <1>3, <1>4 DEF Members
<1>6. ASSUME NoDuplicates(list), slot \notin Members(list) PROVE NoDuplicates(new)
  <2>1. SUFFICES ASSUME NEW k \in DOMAIN new, NEW n \in DOMAIN new, new[k] = new[n]
                 PROVE  k = n
    BY DEF NoDuplicates
  <2>2. \A m \in DOMAIN list : list[m] # slot
    BY <1>6 DEF Members
  <2>3. \A l, m \in DOMAIN list : list[l] = list[m] => l = m
    BY <1>6 DEF NoDuplicates
  <2>4. k \in Int /\ n \in Int /\ i \in Int
    BY <1>1
  <2>5. CASE k < i
    BY <1>2, <2>1, <2>2, <2>3, <2>4, <2>5
  <2>6. CASE k = i
    BY <1>2, <2>1, <2>2, <2>4, <2>6
  <2>7. CASE k > i
    BY <1>2, <2>1, <2>2, <2>3, <2>4, <2>7
  <2>8. QED
    BY <2>4, <2>5, <2>6, <2>7
<1>7. QED
  BY <1>5, <1>6

(* Put in behind every slot of equal or higher priority and before every   *)
(* slot of lower priority, it leaves a sorted list sorted.                 *)
LEMMA InsertedSorted ==
  ASSUME NEW S, NEW list \in Seq(S), NEW new \in Seq(S), NEW slot \in S,
         NEW i \in 1..(Len(list) + 1), InsertedAt(new, list, i, slot),
         NEW priority \in [S -> Int], Sorted(list, priority),
         \A k \in 1..(i - 1) : priority[slot] <= priority[list[k]],
         \A k \in i..Len(list) : priority[list[k]] <= priority[slot]
  PROVE  Sorted(new, priority)
<1>1. /\ DOMAIN list = 1..Len(list) /\ DOMAIN new = 1..(Len(list) + 1)
      /\ Len(list) \in Nat
  BY LenProperties DEF InsertedAt
<1>2. \A k, n \in 1..Len(list) : k < n => priority[list[n]] <= priority[list[k]]
  BY <1>1 DEF Sorted
<1>3. SUFFICES ASSUME NEW k \in DOMAIN new, NEW n \in DOMAIN new, k < n
               PROVE  priority[new[n]] <= priority[new[k]]
  BY DEF Sorted
<1>4. /\ k \in 1..(Len(list) + 1) /\ n \in 1..(Len(list) + 1)
      /\ k \in Int /\ n \in Int /\ i \in Int /\ Len(list) \in Int
      /\ 1 <= k /\ k < n /\ n <= Len(list) + 1 /\ 1 <= i
  BY <1>1, <1>3
<1>5. CASE n < i
  BY <1>1, <1>2, <1>3, <1>4, <1>5 DEF InsertedAt
<1>6. CASE n = i
  <2>1. k \in 1..(i - 1)
    BY <1>4, <1>6
  <2>2. QED
    BY <2>1, <1>6 DEF InsertedAt
<1>7. CASE n > i
  <2>1. n - 1 \in i..Len(list) /\ (n - 1) + 1 = n
    BY <1>4, <1>7, SMTT(30)
  <2>2. new[n] = list[n - 1]
    BY <2>1, SMTT(30) DEF InsertedAt
  <2>3. CASE k < i
    <3>1. new[k] = list[k] /\ k < n - 1 /\ k \in 1..Len(list)
      BY <1>1, <1>4, <2>1, <2>3 DEF InsertedAt
    <3>2. QED
      BY <1>1, <1>2, <2>1, <2>2, <3>1
  <2>4. CASE k = i
    BY <2>1, <2>2, <2>4 DEF InsertedAt
  <2>5. CASE k > i
    <3>1. k - 1 \in i..Len(list) /\ (k - 1) + 1 = k
      BY <1>4, <2>5, SMTT(30)
    <3>2. new[k] = list[k - 1]
      BY <3>1, SMTT(30) DEF InsertedAt
    <3>3. k - 1 < n - 1
      BY <1>4, SMTT(30)
    <3>4. k - 1 \in 1..Len(list)
      BY <1>4, <2>5, SMTT(30)
    <3>5. n - 1 \in 1..Len(list)
      BY <1>4, <1>7, SMTT(30)
    <3>6. QED
      BY <1>2, <2>2, <3>2, <3>3, <3>4, <3>5
  <2>6. QED
    BY <1>4, <2>3, <2>4, <2>5
<1>8. QED
  BY <1>4, <1>5, <1>6, <1>7

(* InsertBefore and Append are insertions. *)
LEMMA InsertBeforeInserts ==
  ASSUME NEW S, NEW list \in Seq(S), NEW slot \in S, NEW i \in DOMAIN list
  PROVE  /\ InsertBefore(list, i, slot) \in Seq(S)
         /\ InsertedAt(InsertBefore(list, i, slot), list, i, slot)
<1>1. /\ DOMAIN list = 1..Len(list) /\ Len(list) \in Nat /\ Len(list) + 1 \in Nat
      /\ i \in 1..Len(list) /\ \A k \in 1..Len(list) : list[k] \in S
  BY LenProperties
<1>2. InsertBefore(list, i, slot) \in [1..(Len(list) + 1) -> S]
  <2>1. ASSUME NEW k \in 1..(Len(list) + 1), k > i PROVE list[k - 1] \in S
    <3>1. k - 1 \in 1..Len(list)
      BY <1>1, <2>1
    <3>2. QED
      BY <1>1, <3>1
  <2>2. ASSUME NEW k \in 1..(Len(list) + 1), k < i PROVE list[k] \in S
    BY <1>1, <2>2
  <2>3. QED
    BY <1>1, <2>1, <2>2 DEF InsertBefore
<1>3. InsertBefore(list, i, slot) \in Seq(S)
  BY <1>1, <1>2
<1>4. Len(InsertBefore(list, i, slot)) = Len(list) + 1
  BY <1>1, <1>3 DEF InsertBefore
<1>5. QED
  BY <1>1, <1>3, <1>4 DEF InsertBefore, InsertedAt

LEMMA AppendInserts ==
  ASSUME NEW S, NEW list \in Seq(S), NEW slot \in S
  PROVE  /\ Append(list, slot) \in Seq(S)
         /\ InsertedAt(Append(list, slot), list, Len(list) + 1, slot)
BY AppendProperties, LenProperties DEF InsertedAt

(* The inserted slot is added and nothing is lost; equal or higher         *)
(* priorities stay in front of it, so slots of equal priority keep the     *)
(* order in which they were added, and a sorted list stays sorted.         *)
THEOREM InsertKeepsOrder ==
  ASSUME NEW S, NEW list \in Seq(S), NEW slot \in S, NEW priority \in [S -> Int]
  PROVE  LET new == RawInsertSlot(list, slot, priority) IN
         /\ new \in Seq(S)
         /\ Members(new) = Members(list) \cup {slot}
         /\ NoDuplicates(list) /\ slot \notin Members(list) => NoDuplicates(new)
         /\ Sorted(list, priority) => Sorted(new, priority)
<1>0. /\ DOMAIN list = 1..Len(list) /\ Len(list) \in Nat
      /\ \A k \in 1..Len(list) : priority[list[k]] \in Int
      /\ priority[slot] \in Int
  BY LenProperties
<1>1. SUFFICES
        \E i \in 1..(Len(list) + 1) :
          /\ RawInsertSlot(list, slot, priority) \in Seq(S)
          /\ InsertedAt(RawInsertSlot(list, slot, priority), list, i, slot)
          /\ Sorted(list, priority) =>
               /\ \A k \in 1..(i - 1) : priority[slot] <= priority[list[k]]
               /\ \A k \in i..Len(list) : priority[list[k]] <= priority[slot]
  <2>1. SUFFICES
          ASSUME NEW i \in 1..(Len(list) + 1), NEW new \in Seq(S),
                 new = RawInsertSlot(list, slot, priority),
                 InsertedAt(new, list, i, slot),
                 Sorted(list, priority) =>
                   /\ \A k \in 1..(i - 1) : priority[slot] <= priority[list[k]]
                   /\ \A k \in i..Len(list) : priority[list[k]] <= priority[slot]
          PROVE  /\ Members(new) = Members(list) \cup {slot}
                 /\ NoDuplicates(list) /\ slot \notin Members(list) => NoDuplicates(new)
                 /\ Sorted(list, priority) => Sorted(new, priority)
    OBVIOUS
  <2>2. /\ Members(new) = Members(list) \cup {slot}
        /\ NoDuplicates(list) /\ slot \notin Members(list) => NoDuplicates(new)
    BY <2>1, InsertedMembers
  <2>3. ASSUME Sorted(list, priority) PROVE Sorted(new, priority)
    <3>1. /\ \A k \in 1..(i - 1) : priority[slot] <= priority[list[k]]
          /\ \A k \in i..Len(list) : priority[list[k]] <= priority[slot]
      BY <2>1, <2>3
    <3>2. QED
      BY <2>1, <2>3, <3>1, InsertedSorted
  <2>4. QED
    BY <2>2, <2>3
<1>2. CASE list = <<>>
  <2>1. <<slot>> \in Seq(S) /\ Len(list) = 0 /\ Len(<<slot>>) = 1
    BY <1>2
  <2>2. InsertedAt(<<slot>>, list, 1, slot)
    BY <2>1 DEF InsertedAt
  <2>3. 1 \in 1..(Len(list) + 1)
    BY <2>1
  <2>4. QED
    BY <1>2, <2>1, <2>2, <2>3 DEF RawInsertSlot
<1>3. CASE list # <<>> /\ priority[slot] <= priority[list[Len(list)]]
  <2>1. RawInsertSlot(list, slot, priority) = Append(list, slot)
    BY <1>3 DEF RawInsertSlot
  <2>2. Len(list) \in 1..Len(list)
    BY <1>0, <1>3, EmptySeq
  <2>3. ASSUME Sorted(list, priority), NEW k \in 1..Len(list)
        PROVE  priority[slot] <= priority[list[k]]
    <3>1. CASE k = Len(list)
      BY <1>3, <3>1
    <3>2. CASE k < Len(list)
      <4>1. priority[list[Len(list)]] <= priority[list[k]]
        BY <1>0, <2>2, <2>3, <3>2 DEF Sorted
      <4>2. priority[list[Len(list)]] \in Int /\ priority[list[k]] \in Int
        BY <1>0, <2>2
      <4>3. QED
        BY <1>0, <1>3, <4>1, <4>2
    <3>3. k \in Int /\ Len(list) \in Int /\ k <= Len(list)
      BY <1>0
    <3>4. QED
      BY <3>1, <3>2, <3>3
  <2>4. Len(list) + 1 \in 1..(Len(list) + 1) /\ (Len(list) + 1) - 1 = Len(list)
    BY <1>0
  <2>5. \A k \in (Len(list) + 1)..Len(list) : FALSE
    BY <1>0
  <2>6. QED
    BY <2>1, <2>3, <2>4, <2>5, AppendInserts
<1>4. CASE list # <<>> /\ ~ (priority[slot] <= priority[list[Len(list)]])
  <2>1. PICK i \in DOMAIN list :
          /\ IsFirstLower(i, list, slot, priority)
          /\ RawInsertSlot(list, slot, priority) = InsertBefore(list, i, slot)
    BY <1>4, LoopFindsPlace DEF RawInsertSlot
  <2>2. i \in 1..(Len(list) + 1) /\ i \in 1..Len(list)
    BY <1>0
  <2>3. ASSUME Sorted(list, priority), NEW k \in i..Len(list)
        PROVE  priority[list[k]] <= priority[slot]
    <3>1. k = i \/ priority[list[k]] <= priority[list[i]]
      BY <1>0, <2>2, <2>3 DEF Sorted
    <3>2. k \in 1..Len(list) /\ priority[list[i]] < priority[slot]
      BY <1>0, <2>1, <2>2 DEF IsFirstLower
    <3>3. QED
      BY <1>0, <2>2, <3>1, <3>2
  <2>4. WITNESS i \in 1..(Len(list) + 1)
  <2>5. QED
    BY <2>1, <2>3, InsertBeforeInserts DEF IsFirstLower
<1>5. QED
  BY <1>2, <1>3, <1>4

-----------------------------------------------------------------------------
(* UpTo counts the members of a finite set of numbers in their order. *)
LEMMA UpToCounts ==
  ASSUME NEW N \in SUBSET Nat, IsFiniteSet(N)
  PROVE  /\ \A i \in N : Cardinality(UpTo(N, i)) \in 1..Cardinality(N)
         /\ \A i, j \in N : i < j => Cardinality(UpTo(N, i)) < Cardinality(UpTo(N, j))
<1>1. ASSUME NEW i \in N
      PROVE  /\ IsFiniteSet(UpTo(N, i))
             /\ Cardinality(UpTo(N, i)) \in Nat
             /\ Cardinality(UpTo(N, i)) <= Cardinality(N)
             /\ Cardinality(UpTo(N, i)) # 0
  <2>1. UpTo(N, i) \in SUBSET N /\ i \in UpTo(N, i)
    BY DEF UpTo
  <2>2. IsFiniteSet(UpTo(N, i)) /\ Cardinality(UpTo(N, i)) <= Cardinality(N)
    BY <2>1, FS_Subset
  <2>3. QED
    BY <2>1, <2>2, FS_CardinalityType, FS_EmptySet
<1>2. Cardinality(N) \in Nat
  BY FS_CardinalityType
<1>3. ASSUME NEW i \in N, NEW j \in N, i < j
      PROVE  Cardinality(UpTo(N, i)) < Cardinality(UpTo(N, j))
  <2>0. \A n \in N : n \in Int
    OBVIOUS
  <2>1. UpTo(N, i) \in SUBSET UpTo(N, j) /\ j \in UpTo(N, j) /\ j \notin UpTo(N, i)
    <3>1. \A n \in N : n <= i => n <= j
      BY <1>3, <2>0
    <3>2. j <= j /\ ~ (j <= i)
      BY <1>3, <2>0
    <3>3. QED
      BY <3>1, <3>2 DEF UpTo
  <2>2. /\ Cardinality(UpTo(N, i)) <= Cardinality(UpTo(N, j))
        /\ Cardinality(UpTo(N, j)) # Cardinality(UpTo(N, i))
    BY <1>1, <2>1, FS_Subset
  <2>3. QED
    BY <1>1, <2>2
<1>4. QED
  BY <1>1, <1>2, <1>3

(* Every number up to the size of the set counts some member. *)
LEMMA NthExists ==
  ASSUME NEW N \in SUBSET Nat, IsFiniteSet(N), NEW k \in 1..Cardinality(N)
  PROVE  \E i \in N : Cardinality(UpTo(N, i)) = k
<1> DEFINE Missing == {n \in 1..Cardinality(N) :
                        \A i \in N : Cardinality(UpTo(N, i)) # n}
<1>0. Cardinality(N) \in Nat
  BY FS_CardinalityType
<1>1. SUFFICES ASSUME Missing # {} PROVE FALSE
  OBVIOUS
<1>2. PICK m \in Missing : \A n \in Missing : m <= n
  <2>1. Missing \in SUBSET Nat
    BY <1>0
  <2>2. QED
    BY <1>1, <2>1, Smallest
<1>3. m \in Nat /\ 1 <= m /\ m <= Cardinality(N)
  BY <1>0
<1>4. PICK below \in SUBSET N :
        /\ IsFiniteSet(below) /\ Cardinality(below) = m - 1
        /\ \A i \in below, j \in N \ below : i <= j
  <2>1. CASE m = 1
    <3>1. {} \in SUBSET N /\ IsFiniteSet({}) /\ Cardinality({}) = m - 1
      BY <2>1, FS_EmptySet
    <3>2. QED
      BY <3>1
  <2>2. CASE m # 1
    <3>1. m - 1 \in 1..Cardinality(N) /\ ~ (m <= m - 1)
      BY <1>0, <1>3, <2>2
    <3>2. m - 1 \notin Missing
      BY <1>2, <3>1
    <3>3. PICK i \in N : Cardinality(UpTo(N, i)) = m - 1
      BY <3>1, <3>2
    <3>4. /\ UpTo(N, i) \in SUBSET N /\ IsFiniteSet(UpTo(N, i))
          /\ \A j \in UpTo(N, i), l \in N \ UpTo(N, i) : j <= l
      BY FS_Subset DEF UpTo
    <3>5. QED
      BY <3>3, <3>4
  <2>3. QED
    BY <2>1, <2>2
<1>5. N \ below # {}
  <2>1. SUFFICES ASSUME N = below PROVE FALSE
    BY <1>4
  <2>2. QED
    BY <1>3, <1>4, <2>1
<1>6. PICK i \in N \ below : \A j \in N \ below : i <= j
  BY <1>5, Smallest
<1>7. UpTo(N, i) = below \cup {i}
  <2>1. \A j \in N : j <= i => j \in below \/ j = i
    BY <1>6
  <2>2. QED
    BY <1>4, <1>6, <2>1 DEF UpTo
<1>8. Cardinality(UpTo(N, i)) = m
  BY <1>3, <1>4, <1>6, <1>7, FS_AddElement
<1>9. QED
  BY <1>2, <1>6, <1>8

(* What is left when some slots are taken out is what was there, in the    *)
(* order in which it was there.                                            *)
LEMMA WithoutKeepsOthers ==
  ASSUME NEW S, NEW list \in Seq(S), NEW slots
  PROVE  LET new == Without(list, slots) IN
         /\ new \in Seq(S)
         /\ Members(new) = Members(list) \ slots
         /\ \A i, j \in Kept(list, slots) : i <= j =>
              \E k, n \in DOMAIN new :
                k <= n /\ new[k] = list[i] /\ new[n] = list[j]
         /\ NoDuplicates(list) => NoDuplicates(new)
         /\ \A priority \in [S -> Int] :
              Sorted(list, priority) => Sorted(new, priority)
<1> DEFINE N == Kept(list, slots)
           new == Without(list, slots)
<1>1. /\ DOMAIN list = 1..Len(list) /\ Len(list) \in Nat
      /\ \A k \in 1..Len(list) : list[k] \in S
  BY LenProperties
<1>2. /\ N \in SUBSET Nat /\ N \in SUBSET (1..Len(list))
      /\ IsFiniteSet(N) /\ Cardinality(N) \in Nat
  <2>1. N \in SUBSET Nat /\ N \in SUBSET (1..Len(list))
    BY <1>1 DEF Kept
  <2>2. IsFiniteSet(1..Len(list))
    BY <1>1, FS_Interval
  <2>3. QED
    BY <2>1, <2>2, FS_Subset, FS_CardinalityType
<1>3. ASSUME NEW k \in 1..Cardinality(N)
      PROVE  Nth(N, k) \in N /\ Cardinality(UpTo(N, Nth(N, k))) = k
  <2>1. \E i \in N : Cardinality(UpTo(N, i)) = k
    BY <1>2, NthExists
  <2>2. QED
    BY <2>1 DEF Nth
<1>4. new = [k \in 1..Cardinality(N) |-> list[Nth(N, k)]]
  BY DEF Without
<1> HIDE DEF N, new
<1>5. new \in [1..Cardinality(N) -> S]
  BY <1>1, <1>2, <1>3, <1>4
<1>6. new \in Seq(S) /\ DOMAIN new = 1..Cardinality(N)
  BY <1>2, <1>5
<1>7. \A k, n \in DOMAIN new : k < n => Nth(N, k) < Nth(N, n)
  <2>1. SUFFICES ASSUME NEW k \in 1..Cardinality(N), NEW n \in 1..Cardinality(N),
                        k < n, ~ (Nth(N, k) < Nth(N, n))
                 PROVE  FALSE
    BY <1>6
  <2>2. /\ Nth(N, k) \in N /\ Nth(N, n) \in N
        /\ Nth(N, k) \in Nat /\ Nth(N, n) \in Nat /\ k \in Nat /\ n \in Nat
    <3>1. Nth(N, k) \in N /\ Nth(N, n) \in N
      BY <1>3
    <3>2. k \in Nat /\ n \in Nat
      BY <1>2
    <3>3. QED
      BY <1>2, <3>1, <3>2
  <2>3. CASE Nth(N, k) = Nth(N, n)
    BY <1>3, <2>1, <2>2, <2>3
  <2>4. CASE Nth(N, n) < Nth(N, k)
    <3>1. n < k
      BY <1>2, <1>3, <2>2, <2>4, UpToCounts
    <3>2. QED
      BY <2>1, <2>2, <3>1
  <2>5. QED
    BY <2>1, <2>2, <2>3, <2>4
<1>8. ASSUME NEW i \in N
       PROVE  LET k == Cardinality(UpTo(N, i)) IN k \in DOMAIN new /\ new[k] = list[i]
  <2> DEFINE k == Cardinality(UpTo(N, i))
  <2>1. k \in 1..Cardinality(N) /\ i \in Nat
    BY <1>2, UpToCounts
  <2>2. Nth(N, k) \in N /\ Nth(N, k) \in Nat /\ Cardinality(UpTo(N, Nth(N, k))) = k
    BY <1>2, <1>3, <2>1
  <2>3. ~ (Nth(N, k) < i) /\ ~ (i < Nth(N, k))
    <3>1. \A x, y \in N : x < y => Cardinality(UpTo(N, x)) < Cardinality(UpTo(N, y))
      BY <1>2, UpToCounts
    <3>2. k \in Int
      BY <1>2, <2>1
    <3>3. QED
      BY <2>2, <3>1, <3>2
  <2>4. Nth(N, k) = i
    BY <2>1, <2>2, <2>3
  <2>5. QED
    BY <1>4, <1>6, <2>1, <2>4
<1>9. Members(new) = Members(list) \ slots
  <2>1. ASSUME NEW k \in DOMAIN new
        PROVE  new[k] \in Members(list) \ slots
    <3>1. new[k] = list[Nth(N, k)] /\ Nth(N, k) \in N
      BY <1>3, <1>4, <1>6
    <3>2. QED
      BY <3>1 DEF N, Kept, Members
  <2>2. ASSUME NEW i \in DOMAIN list, list[i] \notin slots PROVE i \in N
    BY <2>2 DEF N, Kept
  <2>3. QED
    BY <1>8, <2>1, <2>2 DEF Members
<1>10. ASSUME NEW i \in N, NEW j \in N, i <= j
       PROVE  \E k, n \in DOMAIN new :
                k <= n /\ new[k] = list[i] /\ new[n] = list[j]
  <2> DEFINE k == Cardinality(UpTo(N, i))
             n == Cardinality(UpTo(N, j))
  <2>1. i \in Nat /\ j \in Nat /\ k \in Nat /\ n \in Nat
    BY <1>2, UpToCounts
  <2>2. k <= n
    BY <1>2, <1>10, <2>1, UpToCounts
  <2>3. QED
    BY <1>8, <2>2
<1>11. ASSUME NoDuplicates(list) PROVE NoDuplicates(new)
  <2>1. SUFFICES ASSUME NEW k \in DOMAIN new, NEW n \in DOMAIN new, new[k] = new[n]
                 PROVE  k = n
    BY DEF NoDuplicates
  <2>2. Nth(N, k) = Nth(N, n)
    BY <1>1, <1>2, <1>3, <1>4, <1>6, <1>11, <2>1 DEF NoDuplicates
  <2>3. QED
    BY <1>3, <1>6, <2>2
<1>12. ASSUME NEW priority \in [S -> Int], Sorted(list, priority)
       PROVE  Sorted(new, priority)
  <2>1. SUFFICES ASSUME NEW k \in DOMAIN new, NEW n \in DOMAIN new, k < n
                 PROVE  priority[new[n]] <= priority[new[k]]
    BY DEF Sorted
  <2>2. Nth(N, k) \in DOMAIN list /\ Nth(N, n) \in DOMAIN list /\ Nth(N, k) < Nth(N, n)
    BY <1>1, <1>2, <1>3, <1>6, <1>7, <2>1
  <2>3. QED
    BY <1>4, <1>6, <1>12, <2>2 DEF Sorted
<1>13. QED
  BY <1>6, <1>9, <1>10, <1>11, <1>12 DEF N, new

(* Removal takes out the slot and nothing else, keeps the order, and the   *)
(* slot is gone however often it was in the list.                          *)
THEOREM RemoveKeepsOthers ==
  ASSUME NEW S, NEW list \in Seq(S), NEW slot
  PROVE  LET new == RawRemoveSlot(list, slot) IN
         /\ new \in Seq(S)
         /\ Members(new) = Members(list) \ {slot}
         /\ NoDuplicates(list) => NoDuplicates(new)
         /\ \A priority \in [S -> Int] :
              Sorted(list, priority) => Sorted(new, priority)
BY WithoutKeepsOthers DEF RawRemoveSlot
=============================================================================
