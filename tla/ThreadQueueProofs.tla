--------------------------- MODULE ThreadQueueProofs ---------------------------
(***************************************************************************)
(* Machine-checked proofs about ThreadQueue, for every finite set of       *)
(* threads, every set of values and every bound.  NoLostWakeup is          *)
(* inductive together with TypeOK because it counts: push adds a value and *)
(* wakes a thread, and whoever takes a value is at most one thread fewer   *)
(* awake.                                                                  *)
(***************************************************************************)
EXTENDS ThreadQueue, FiniteSetTheorems, TLAPS

IInv == TypeOK /\ NoLostWakeup

(* Woken threads can be counted. *)
LEMMA WokenFinite ==
  ASSUME TypeOK
  PROVE  IsFiniteSet(Woken) /\ Cardinality(Woken) \in Nat
<1>1. Woken \in SUBSET Threads
  BY DEF Woken, TypeOK
<1>2. QED
  BY <1>1, QueueAssumption, FS_Subset, FS_CardinalityType

(* One thread that wakes up, and one that stops being awake. *)
LEMMA WokenCounts ==
  ASSUME TypeOK, NEW t \in Threads
  PROVE  /\ t \notin Woken =>
              Cardinality(Woken \cup {t}) = Cardinality(Woken) + 1
         /\ Cardinality(Woken \cup {t}) >= Cardinality(Woken)
         /\ Cardinality(Woken \ {t}) >= Cardinality(Woken) - 1
<1>1. Cardinality(Woken \cup {t}) =
        IF t \in Woken THEN Cardinality(Woken) ELSE Cardinality(Woken) + 1
  BY WokenFinite, FS_AddElement
<1>2. Cardinality(Woken \ {t}) =
        IF t \in Woken THEN Cardinality(Woken) - 1 ELSE Cardinality(Woken)
  BY WokenFinite, FS_RemoveElement
<1>3. QED
  BY <1>1, <1>2, WokenFinite

(* Head and tail of a queue that is not empty. *)
LEMMA TakeEffect ==
  ASSUME TypeOK, NEW t \in Threads, ~empty, Take(t)
  PROVE  /\ mQueue' \in Seq(Values) /\ Len(mQueue') = Len(mQueue) - 1
         /\ out' \in [Threads -> Values \cup {Nothing}]
<1>1. Head(mQueue) \in Values /\ Tail(mQueue) \in Seq(Values)
  BY DEF TypeOK, empty
<1>2. Len(Tail(mQueue)) = Len(mQueue) - 1
  BY DEF TypeOK, empty
<1>3. QED
  BY <1>1, <1>2 DEF Take, TypeOK

LEMMA InitEstablishes == Init => IInv
BY DEF Init, IInv, TypeOK, NoLostWakeup

(* push: a value more, and a thread more awake if anybody slept. *)
LEMMA PushPreserves ==
  ASSUME IInv, NEW v \in Values, Push(v)
  PROVE  IInv'
<1> USE DEF IInv
<1>1. /\ mQueue' \in Seq(Values) /\ Len(mQueue') = Len(mQueue) + 1
      /\ UNCHANGED <<mValid, asking, out>>
  BY DEF Push, TypeOK
<1>2. mCondition' \subseteq mCondition
  BY DEF Push, NotifyOne
<1>3. TypeOK'
  BY <1>1, <1>2 DEF TypeOK
<1>4. CASE mCondition = {}
  BY <1>1, <1>3, <1>4 DEF Push, NotifyOne, NoLostWakeup
<1>5. CASE mCondition # {}
  <2>1. PICK t \in mCondition : mCondition' = mCondition \ {t}
    BY <1>5 DEF Push, NotifyOne
  <2>2. t \in Threads /\ t \notin Woken /\ Woken' = Woken \cup {t}
    BY <1>1, <2>1 DEF TypeOK, Woken
  <2>3. Cardinality(Woken') = Cardinality(Woken) + 1
    BY <2>2, WokenCounts
  <2>4. Len(mQueue') <= Cardinality(Woken')
    BY <1>1, <1>5, <2>3, WokenFinite DEF NoLostWakeup, TypeOK
  <2>5. QED
    BY <1>1, <1>3, <1>5, <2>4 DEF NoLostWakeup
<1>6. QED
  BY <1>4, <1>5

(* tryPop takes a value and wakes nobody. *)
LEMMA TryPopPreserves ==
  ASSUME IInv, NEW t \in Threads, TryPop(t)
  PROVE  IInv'
<1> USE DEF IInv
<1>1. UNCHANGED <<mValid, asking, mCondition>> /\ Woken' = Woken
  BY DEF TryPop, Woken
<1>2. CASE empty \/ ~isValid
  BY <1>1, <1>2 DEF TryPop, ReturnFalse, TypeOK, NoLostWakeup
<1>3. CASE ~empty /\ isValid
  <2>1. /\ mQueue' \in Seq(Values) /\ Len(mQueue') = Len(mQueue) - 1
        /\ out' \in [Threads -> Values \cup {Nothing}]
    BY <1>3, TakeEffect DEF TryPop
  <2>2. Len(mQueue) \in Nat
    BY DEF TypeOK
  <2>3. QED
    BY <1>1, <2>1, <2>2, WokenFinite DEF TypeOK, NoLostWakeup
<1>4. QED
  BY <1>2, <1>3

(* waitPop goes to sleep beside an empty queue only, and leaves with at    *)
(* most one value.                                                         *)
LEMMA WaitPopPreserves ==
  ASSUME IInv, NEW t \in Threads, WaitPop(t)
  PROVE  IInv'
<1> USE DEF IInv
<1>1. CASE Block(t)
  <2>1. TypeOK'
    BY <1>1 DEF Block, TypeOK
  <2>2. Len(mQueue') = 0 /\ mValid'
    BY <1>1 DEF Block, empty, isValid
  <2>3. Cardinality(Woken') \in Nat
    <3>1. Woken' \in SUBSET Threads
      BY <2>1 DEF TypeOK, Woken
    <3>2. QED
      BY <3>1, QueueAssumption, FS_Subset, FS_CardinalityType
  <2>4. QED
    BY <2>1, <2>2, <2>3 DEF NoLostWakeup
<1>2. CASE ~Block(t)
  <2>1. /\ t \notin mCondition /\ (~empty \/ ~isValid)
        /\ IF isValid THEN Take(t) ELSE ReturnFalse(t)
        /\ asking' = asking \ {t}
        /\ UNCHANGED <<mValid, mCondition>>
    BY <1>2 DEF WaitPop
  <2>2. Woken' = Woken \ {t}
    BY <2>1 DEF Woken
  <2>3. CASE isValid
    <3>1. /\ mQueue' \in Seq(Values) /\ Len(mQueue') = Len(mQueue) - 1
          /\ out' \in [Threads -> Values \cup {Nothing}]
      BY <2>1, <2>3, TakeEffect
    <3>2. TypeOK'
      BY <2>1, <3>1 DEF TypeOK
    <3>3. /\ Cardinality(Woken') >= Cardinality(Woken) - 1
          /\ Cardinality(Woken') \in Nat /\ Cardinality(Woken) \in Nat
      <4>1. IsFiniteSet(Woken')
        BY <2>2, WokenFinite, FS_Subset
      <4>2. QED
        BY <2>2, <4>1, WokenCounts, WokenFinite, FS_CardinalityType
    <3>4. Len(mQueue) \in Nat
      BY DEF TypeOK
    <3>5. QED
      BY <2>1, <3>1, <3>2, <3>3, <3>4 DEF NoLostWakeup
  <2>4. CASE ~isValid
    BY <2>1, <2>4 DEF TypeOK, NoLostWakeup, ReturnFalse, isValid
  <2>5. QED
    BY <2>3, <2>4
<1>3. QED
  BY <1>1, <1>2

(* After clear and invalidate nobody sleeps. *)
LEMMA NotifyAllPreserves == IInv /\ (Clear \/ Invalidate) => IInv'
<1>1. ASSUME IInv, Clear PROVE IInv'
  <2>1. mQueue' \in Seq(Values)
    BY <1>1 DEF Clear
  <2>2. QED
    BY <1>1, <2>1 DEF IInv, Clear, NotifyAll, TypeOK, NoLostWakeup
<1>2. ASSUME IInv, Invalidate PROVE IInv'
  BY <1>2 DEF IInv, Invalidate, NotifyAll, TypeOK, NoLostWakeup
<1>3. QED
  BY <1>1, <1>2

(* A spurious wake-up adds a thread that is awake. *)
LEMMA SpuriousWakePreserves ==
  ASSUME IInv, NEW t \in Threads, SpuriousWake(t)
  PROVE  IInv'
<1> USE DEF IInv
<1>1. /\ t \in mCondition /\ mCondition' = mCondition \ {t}
      /\ UNCHANGED <<mQueue, mValid, asking, out>>
  BY DEF SpuriousWake
<1>2. t \notin Woken /\ Woken' = Woken \cup {t}
  BY <1>1 DEF TypeOK, Woken
<1>3. Cardinality(Woken') = Cardinality(Woken) + 1
  BY <1>2, WokenCounts
<1>4. Len(mQueue) \in Nat
  BY DEF TypeOK
<1>5. QED
  BY <1>1, <1>3, <1>4, WokenFinite DEF TypeOK, NoLostWakeup

LEMMA NextPreserves == IInv /\ [Next]_vars => IInv'
<1> SUFFICES ASSUME IInv, [Next]_vars PROVE IInv'
  OBVIOUS
<1>1. CASE UNCHANGED vars
  BY <1>1 DEF vars, IInv, TypeOK, NoLostWakeup, Woken
<1>2. CASE Next
  BY <1>2, PushPreserves, TryPopPreserves, WaitPopPreserves,
     NotifyAllPreserves, SpuriousWakePreserves DEF Next
<1>3. QED
  BY <1>1, <1>2

(* For every finite set of threads: nobody is handed anything that was not *)
(* pushed, and no wake-up of push, clear or invalidate is lost.            *)
THEOREM QueueIsCorrect == Spec => [](TypeOK /\ NoLostWakeup)
<1>1. Spec => []IInv
  BY InitEstablishes, NextPreserves, PTL DEF Spec
<1>2. QED
  BY <1>1, PTL DEF IInv

(* Nobody is handed anything but a value that was pushed, and only a       *)
(* thread inside waitPop sleeps.                                           *)
THEOREM NothingInvented == Spec => []TypeOK
  BY QueueIsCorrect, PTL

-----------------------------------------------------------------------------
(* Every step of the queue is a step of the abstract one or leaves it      *)
(* alone.                                                                  *)
LEMMA StepImplements == IInv /\ [Next]_vars => [Fifo!Next]_Fifo!vars
<1> SUFFICES ASSUME IInv, [Next]_vars PROVE [Fifo!Next]_Fifo!vars
  OBVIOUS
<1> USE DEF Fifo!Next, Fifo!vars
<1>1. CASE UNCHANGED vars
  BY <1>1 DEF vars
<1>2. ASSUME NEW v \in Values, Push(v) PROVE Fifo!Next
  BY <1>2 DEF Push, Fifo!Put
<1>3. ASSUME NEW t \in Threads \ asking, TryPop(t) PROVE Fifo!Next
  BY <1>3 DEF TryPop, ReturnFalse, Take, empty, isValid, IInv, TypeOK,
              Fifo!Give, Fifo!Refuse, Fifo!Answer
<1>4. ASSUME NEW t \in Threads, WaitPop(t) PROVE Fifo!Next
  <2>1. CASE Block(t)
    BY <2>1 DEF Block, Fifo!Ask
  <2>2. CASE ~Block(t)
    BY <1>4, <2>2 DEF WaitPop, ReturnFalse, Take, empty, isValid,
              Fifo!Give, Fifo!Refuse, Fifo!Answer
  <2>3. QED
    BY <2>1, <2>2
<1>5. CASE Clear
  BY <1>5 DEF Clear, Fifo!Discard
<1>6. CASE Invalidate
  BY <1>6 DEF Invalidate, Fifo!Close
<1>7. ASSUME NEW t \in Threads, SpuriousWake(t) PROVE UNCHANGED Fifo!vars
  BY <1>7 DEF SpuriousWake
<1>8. QED
  BY <1>1, <1>2, <1>3, <1>4, <1>5, <1>6, <1>7 DEF Next

(* The safety part of ImplementsFifo: values come out in order, each to    *)
(* one thread, and a waiting thread is refused only by invalidate.         *)
THEOREM ImplementsFifoSafely ==
  Spec => Fifo!Init /\ [][Fifo!Next]_Fifo!vars
<1>1. Init => Fifo!Init
  BY DEF Init, Fifo!Init
<1>2. Spec => []IInv
  BY InitEstablishes, NextPreserves, PTL DEF Spec
<1>3. QED
  BY <1>1, <1>2, StepImplements, PTL DEF Spec
=============================================================================
