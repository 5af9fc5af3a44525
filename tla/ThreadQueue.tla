------------------------------ MODULE ThreadQueue ------------------------------
(***************************************************************************)
(* evil::ThreadQueue (evil/thread/thread-queue.h), the blocking queue.     *)
(*                                                                         *)
(* Every method runs under mMutex from its first line to its last, except  *)
(* while waitPop is blocked in mCondition.wait, so one action is one       *)
(* stretch under mMutex.  A notified thread has only left the wait set: it *)
(* takes mMutex again and evaluates the predicate again, and others may    *)
(* have taken the value meanwhile.  Spurious wake-ups are allowed.         *)
(*                                                                         *)
(* A definition named X_Y is X with the slip Y; nothing uses it.           *)
(***************************************************************************)
EXTENDS Integers, Sequences, FiniteSets

CONSTANTS
  Threads,        \* that use the queue
  Values,         \* that go through it
  Nothing,        \* what tryPop and waitPop give when they return false
  MaxLength       \* bound: push is called on a shorter queue only

ASSUME QueueAssumption ==
  /\ IsFiniteSet(Threads)
  /\ Nothing \notin Values
  /\ MaxLength \in Nat

VARIABLES
  mQueue, mValid,
  asking,         \* threads inside waitPop
  mCondition,     \* those of them that are blocked in mCondition.wait
  out             \* of each thread: what its last pop gave

vars == <<mQueue, mValid, asking, mCondition, out>>

Init == /\ mQueue = <<>>
        /\ mValid = TRUE
        /\ asking = {}
        /\ mCondition = {}
        /\ out = [t \in Threads |-> Nothing]

empty   == mQueue = <<>>
isValid == mValid
Woken   == asking \ mCondition

-----------------------------------------------------------------------------
NotifyOne == IF mCondition = {} THEN UNCHANGED mCondition
             ELSE \E t \in mCondition : mCondition' = mCondition \ {t}

NotifyAll == mCondition' = {}

Push_WithoutNotify(v) ==
  mQueue' = Append(mQueue, v) /\ UNCHANGED <<mValid, asking, mCondition, out>>

Push_NotifiesIfEmpty(v) ==
  /\ mQueue' = Append(mQueue, v)
  /\ IF empty THEN NotifyOne ELSE UNCHANGED mCondition
  /\ UNCHANGED <<mValid, asking, out>>

Push(v) == /\ mQueue' = Append(mQueue, v)
           /\ NotifyOne
           /\ UNCHANGED <<mValid, asking, out>>

Take_Newest(t) ==
  /\ mQueue' = SubSeq(mQueue, 1, Len(mQueue) - 1)
  /\ out' = [out EXCEPT ![t] = mQueue[Len(mQueue)]]

Take_ForgetsPop(t) == out' = [out EXCEPT ![t] = Head(mQueue)] /\ UNCHANGED mQueue

(* out = std::move(mQueue.front()); mQueue.pop(); *)
Take(t) == /\ mQueue' = Tail(mQueue)
           /\ out' = [out EXCEPT ![t] = Head(mQueue)]

ReturnFalse(t) == out' = [out EXCEPT ![t] = Nothing] /\ UNCHANGED mQueue

TryPop(t) == /\ IF empty \/ ~isValid THEN ReturnFalse(t) ELSE Take(t)
             /\ UNCHANGED <<mValid, asking, mCondition>>

(* The predicate of the wait is false: (back) to sleep. *)
Block(t) == /\ empty /\ isValid
            /\ asking' = asking \cup {t}
            /\ mCondition' = mCondition \cup {t}
            /\ UNCHANGED <<mQueue, mValid, out>>

WaitPop_WithoutPredicate(t) ==
  /\ t \notin mCondition
  /\ \/ t \notin asking /\ Block(t)
     \/ /\ t \in asking \/ ~empty \/ ~isValid
        /\ IF isValid /\ empty
           THEN out' = [out EXCEPT ![t] = "garbage"] /\ UNCHANGED mQueue
           ELSE IF isValid THEN Take(t) ELSE ReturnFalse(t)
        /\ asking' = asking \ {t}
        /\ UNCHANGED <<mValid, mCondition>>

(* waitPop, from its call or from a wake-up to its return or the next      *)
(* wait.                                                                   *)
WaitPop(t) ==
  /\ t \notin mCondition
  /\ \/ Block(t)
     \/ /\ ~empty \/ ~isValid
        /\ IF isValid THEN Take(t) ELSE ReturnFalse(t)
        /\ asking' = asking \ {t}
        /\ UNCHANGED <<mValid, mCondition>>

Clear == mQueue' = <<>> /\ NotifyAll /\ UNCHANGED <<mValid, asking, out>>

Invalidate == mValid' = FALSE /\ NotifyAll /\ UNCHANGED <<mQueue, asking, out>>

(* wait() may return without a notification. *)
SpuriousWake(t) == /\ t \in mCondition
                   /\ mCondition' = mCondition \ {t}
                   /\ UNCHANGED <<mQueue, mValid, asking, out>>

-----------------------------------------------------------------------------
(* A thread inside waitPop calls nothing else. *)
Next == \/ \E t \in Threads \ asking :
             \/ Len(mQueue) < MaxLength /\ \E v \in Values : Push(v)
             \/ TryPop(t) \/ Clear \/ Invalidate
        \/ \E t \in Threads : WaitPop(t) \/ SpuriousWake(t)

(* A thread that has been woken gets mMutex and goes on.  Nobody has to    *)
(* call anything, and nothing is assumed of spurious wake-ups.             *)
Fairness == \A t \in Threads : WF_vars(t \in asking /\ WaitPop(t))

Spec == Init /\ [][Next]_vars /\ Fairness

-----------------------------------------------------------------------------
(* The shape of the state; nobody is handed anything but a value that was  *)
(* pushed, woken from a wait or not.                                       *)
TypeOK == /\ mQueue \in Seq(Values)
          /\ mValid \in BOOLEAN
          /\ asking \subseteq Threads
          /\ mCondition \subseteq asking
          /\ out \in [Threads -> Values \cup {Nothing}]

(* No wake-up of push is lost: while anybody sleeps, at least as many      *)
(* threads are awake inside waitPop as there are values for them to take,  *)
(* whatever tryPop and new callers of waitPop take in front of them.  And  *)
(* nobody sleeps on an invalid queue.                                      *)
NoLostWakeup == mCondition # {} => /\ mValid
                                   /\ Len(mQueue) <= Cardinality(Woken)

(* Seen from outside ThreadQueue is the abstract queue, fairness included: *)
(* values do not lie in the queue beside sleeping threads, and whoever     *)
(* waits when the queue is invalidated returns.                            *)
Fifo == INSTANCE FifoQueue WITH items <- mQueue, open <- mValid
ImplementsFifo == Fifo!Spec
=============================================================================
