---------------------------- MODULE ReadWriteMutex ----------------------------
(***************************************************************************)
(* evil::ReadWriteMutex (evil/thread/read-write-mutex.h) with its RAII     *)
(* user evil::ReadWriteLock (evil/thread/read-write-lock.h).               *)
(*                                                                         *)
(* Every method runs under mMutex from its first line to its last, except  *)
(* while it is blocked in a wait(), so one action is one stretch under     *)
(* mMutex: from taking it (or taking it again after a wait) to giving it   *)
(* back (or blocking in a wait).  A notified guard has only left the wait  *)
(* set: it has to take mMutex and test its condition again, and anybody    *)
(* may come first.  Spurious wake-ups are allowed.                         *)
(*                                                                         *)
(* A definition named X_Y is X with the slip Y; nothing uses it.           *)
(***************************************************************************)
EXTENDS Integers, FiniteSets

CONSTANT Guards     \* ReadWriteLock objects that may be alive at one time

(* muNumReads is a 32-bit unsigned and counts guards, so it cannot wrap    *)
(* while fewer than 2^32 guards exist: it is a plain integer here.         *)
ASSUME GuardsAssumption == IsFiniteSet(Guards)

VARIABLES
  mode,           \* mode[g]: the stage of guard g, as in ReadWriteLock
  muNumReads,     \* read locks counted
  mbIsWriting,    \* the write lock is taken
  readCond,       \* guards blocked in mReadCond.wait
  writeCond       \* guards blocked in mWriteCond.wait

vars == <<mode, muNumReads, mbIsWriting, readCond, writeCond>>

Modes == {"out", "wantRead", "wantWrite", "reading", "writing"}

Readers == {g \in Guards : mode[g] = "reading"}
Writers == {g \in Guards : mode[g] = "writing"}
Waiting == {g \in Guards : mode[g] \in {"wantRead", "wantWrite"}}

Move(g, from, to) == /\ mode[g] = from
                     /\ mode' = [mode EXCEPT ![g] = to]

Init == /\ mode = [g \in Guards |-> "out"]
        /\ muNumReads = 0
        /\ mbIsWriting = FALSE
        /\ readCond = {}
        /\ writeCond = {}

-----------------------------------------------------------------------------
(* notify_one on mWriteCond: wakes one blocked guard, if there is one.     *)
NotifyOneWriter ==
  \/ writeCond = {} /\ UNCHANGED writeCond
  \/ \E w \in writeCond : writeCond' = writeCond \ {w}

(* The ReadWriteLock constructor calls readLock or writeLock. *)
Request(g) ==
  /\ Move(g, "out", "wantRead") \/ Move(g, "out", "wantWrite")
  /\ UNCHANGED <<muNumReads, mbIsWriting, readCond, writeCond>>

(* readLock, at the test of its while loop. *)
ReadLock(g) ==
  /\ mode[g] = "wantRead" /\ g \notin readCond
  /\ \/ /\ mbIsWriting
        /\ readCond' = readCond \cup {g}
        /\ UNCHANGED <<mode, muNumReads>>
     \/ /\ ~mbIsWriting
        /\ Move(g, "wantRead", "reading")
        /\ muNumReads' = muNumReads + 1
        /\ UNCHANGED readCond
  /\ UNCHANGED <<mbIsWriting, writeCond>>

ReadUnlock_NotifyWhileReadersRemain(g) ==
  /\ Move(g, "reading", "out")
  /\ muNumReads' = muNumReads - 1
  /\ IF muNumReads' # 0 THEN NotifyOneWriter ELSE UNCHANGED writeCond
  /\ UNCHANGED <<mbIsWriting, readCond>>

ReadUnlock_Uncounted(g) ==
  /\ Move(g, "reading", "out")
  /\ NotifyOneWriter
  /\ UNCHANGED <<mbIsWriting, readCond, muNumReads>>

ReadUnlock(g) ==
  /\ Move(g, "reading", "out")
  /\ muNumReads' = muNumReads - 1
  /\ IF muNumReads' = 0 THEN NotifyOneWriter ELSE UNCHANGED writeCond
  /\ UNCHANGED <<mbIsWriting, readCond>>

WriteLock_IgnoresReaders(g) ==
  /\ mode[g] = "wantWrite" /\ g \notin writeCond
  /\ \/ /\ mbIsWriting
        /\ writeCond' = writeCond \cup {g}
        /\ UNCHANGED <<mode, mbIsWriting>>
     \/ /\ ~mbIsWriting
        /\ Move(g, "wantWrite", "writing")
        /\ mbIsWriting' = TRUE
        /\ UNCHANGED writeCond
  /\ UNCHANGED <<muNumReads, readCond>>

(* writeLock, at the test of its while loop. *)
WriteLock(g) ==
  /\ mode[g] = "wantWrite" /\ g \notin writeCond
  /\ \/ /\ mbIsWriting \/ muNumReads # 0
        /\ writeCond' = writeCond \cup {g}
        /\ UNCHANGED <<mode, mbIsWriting>>
     \/ /\ ~mbIsWriting /\ muNumReads = 0
        /\ Move(g, "wantWrite", "writing")
        /\ mbIsWriting' = TRUE
        /\ UNCHANGED writeCond
  /\ UNCHANGED <<muNumReads, readCond>>

WriteUnlock_ForgetsReaders(g) ==
  /\ Move(g, "writing", "out")
  /\ mbIsWriting' = FALSE
  /\ NotifyOneWriter
  /\ UNCHANGED <<muNumReads, readCond>>

WriteUnlock_ForgetsWriters(g) ==
  /\ Move(g, "writing", "out")
  /\ mbIsWriting' = FALSE
  /\ readCond' = {}
  /\ UNCHANGED <<muNumReads, writeCond>>

WriteUnlock_CountsDown(g) ==
  /\ Move(g, "writing", "out")
  /\ mbIsWriting' = FALSE
  /\ muNumReads' = muNumReads - 1
  /\ readCond' = {}
  /\ NotifyOneWriter

(* writeUnlock: notify_all on mReadCond, notify_one on mWriteCond. *)
WriteUnlock(g) ==
  /\ Move(g, "writing", "out")
  /\ mbIsWriting' = FALSE
  /\ readCond' = {}
  /\ NotifyOneWriter
  /\ UNCHANGED muNumReads

(* wait() may return without a notification. *)
SpuriousWake(g) ==
  /\ g \in readCond \cup writeCond
  /\ readCond' = readCond \ {g}
  /\ writeCond' = writeCond \ {g}
  /\ UNCHANGED <<mode, muNumReads, mbIsWriting>>

Next == \E g \in Guards :
          \/ Request(g)
          \/ ReadLock(g)  \/ ReadUnlock(g)
          \/ WriteLock(g) \/ WriteUnlock(g)
          \/ SpuriousWake(g)

(* A guard that contends for mMutex gets it, and a guard that holds the    *)
(* lock is destroyed in the end (it is a local variable of a method that   *)
(* returns).  Nothing is assumed of wake-ups.                              *)
Fairness == \A g \in Guards : /\ WF_vars(ReadLock(g))
                              /\ WF_vars(WriteLock(g))
                              /\ WF_vars(ReadUnlock(g))
                              /\ WF_vars(WriteUnlock(g))

Spec == Init /\ [][Next]_vars /\ Fairness

-----------------------------------------------------------------------------
(* The shape of the state; that muNumReads is a natural number says that   *)
(* no unlock takes the unsigned counter below zero.                        *)
TypeOK ==
  /\ mode \in [Guards -> Modes]
  /\ muNumReads \in Nat
  /\ mbIsWriting \in BOOLEAN
  /\ readCond \subseteq {g \in Guards : mode[g] = "wantRead"}
  /\ writeCond \subseteq {g \in Guards : mode[g] = "wantWrite"}

(* "Writes can only occur when no other read or write is in progress":     *)
(* two holders at the same time are both readers.                          *)
Exclusion == \A g, h \in Guards :
  mode[g] = "writing" /\ mode[h] \in {"reading", "writing"} => g = h

(* The two fields that stand for the holders always agree with them: the   *)
(* counter is the number of readers and the flag says there is a writer.   *)
CountersExact == /\ muNumReads = Cardinality(Readers)
                 /\ mbIsWriting <=> Writers # {}

(* No wake-up is lost: while nobody writes no reader is blocked, and when  *)
(* the lock is free and writers are blocked, at least one writer has been  *)
(* woken and is on its way to test the condition again.                    *)
NoLostWakeup ==
  /\ ~mbIsWriting => readCond = {}
  /\ ~mbIsWriting /\ muNumReads = 0 /\ writeCond # {} =>
       \E g \in Guards \ writeCond : mode[g] = "wantWrite"

(* Once no more locks are asked for, everybody who waits is served: the    *)
(* waiters never sleep on beside a free lock, and each of them gets it.    *)
WaitersServed ==
  <>[][~ \E g \in Guards : Request(g)]_vars => <>[](Waiting = {})

(* ReadWriteMutex implements the lock its users are promised.  The mode of *)
(* a guard is the same in both; the counter, the flag and the two wait     *)
(* sets are hidden.                                                        *)
Promised == INSTANCE ReadWriteLock
ImplementsLock == Promised!Spec
=============================================================================
