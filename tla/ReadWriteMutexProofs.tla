------------------------- MODULE ReadWriteMutexProofs -------------------------
(***************************************************************************)
(* Machine-checked proofs about ReadWriteMutex, for every finite set of    *)
(* guards.  The fields muNumReads and mbIsWriting stand for sets of        *)
(* holders, so the invariant that carries everything is CountersExact;     *)
(* Exclusion follows from it at each acquisition, and NoLostWakeup needs   *)
(* the two together to know when the lock is free.                         *)
(***************************************************************************)
EXTENDS ReadWriteMutex, FiniteSetTheorems, TLAPS

IInv == TypeOK /\ CountersExact /\ Exclusion /\ NoLostWakeup

(* The readers are a finite set, so that their number can be counted. *)
LEMMA ReadersFinite == IsFiniteSet(Readers) /\ Cardinality(Readers) \in Nat
<1>1. Readers \in SUBSET Guards
  BY DEF Readers
<1>2. QED
  BY <1>1, GuardsAssumption, FS_Subset, FS_CardinalityType

(* What a guard's change of mode does to the sets of holders. *)
LEMMA MoveEffect ==
  ASSUME TypeOK, NEW g \in Guards, NEW from \in Modes, NEW to \in Modes,
         Move(g, from, to)
  PROVE  /\ mode' \in [Guards -> Modes]
         /\ mode[g] = from /\ mode'[g] = to
         /\ \A h \in Guards \ {g} : mode'[h] = mode[h]
         /\ Readers' = IF to = "reading" THEN Readers \cup {g}
                                         ELSE Readers \ {g}
         /\ Writers' = IF to = "writing" THEN Writers \cup {g}
                                         ELSE Writers \ {g}
BY DEF TypeOK, Move, Readers, Writers

LEMMA InitEstablishes == Init => IInv
<1> SUFFICES ASSUME Init PROVE IInv
  OBVIOUS
<1>1. TypeOK
  BY DEF Init, TypeOK, Modes
<1>2. Readers = {} /\ Writers = {}
  BY DEF Init, Readers, Writers
<1>3. CountersExact
  BY <1>2, FS_EmptySet DEF Init, CountersExact
<1>4. Exclusion /\ NoLostWakeup
  BY DEF Init, Exclusion, NoLostWakeup
<1>5. QED
  BY <1>1, <1>3, <1>4 DEF IInv

(* Asking for a lock moves no holder and no blocked guard. *)
LEMMA RequestPreserves ==
  ASSUME IInv, NEW g \in Guards, Request(g)
  PROVE  IInv'
<1> USE DEF IInv
<1>0. PICK to \in {"wantRead", "wantWrite"} : Move(g, "out", to)
  BY DEF Request
<1> USE <1>0
<1>1. Readers' = Readers /\ Writers' = Writers
  BY MoveEffect DEF Modes, Readers, Writers
<1>2. TypeOK'
  BY MoveEffect DEF Modes, TypeOK, Request
<1>3. CountersExact'
  BY <1>1 DEF CountersExact, Request
<1>4. Exclusion'
  BY MoveEffect DEF Modes, Exclusion
<1>5. NoLostWakeup'
  BY MoveEffect DEF Modes, NoLostWakeup, Request
<1>6. QED
  BY <1>2, <1>3, <1>4, <1>5

(* A reader that is let in counts itself, and there is no writer. *)
LEMMA ReadLockPreserves ==
  ASSUME IInv, NEW g \in Guards, ReadLock(g)
  PROVE  IInv'
<1> USE DEF IInv
<1>1. CASE mbIsWriting
  <2>1. /\ UNCHANGED <<mode, muNumReads, mbIsWriting, writeCond>>
        /\ readCond' = readCond \cup {g}
    BY <1>1 DEF ReadLock
  <2>2. Readers' = Readers /\ Writers' = Writers
    BY <2>1 DEF Readers, Writers
  <2>3. QED
    BY <1>1, <2>1, <2>2
    DEF TypeOK, CountersExact, Exclusion, NoLostWakeup, ReadLock
<1>2. CASE ~mbIsWriting
  <2>1. /\ Move(g, "wantRead", "reading")
        /\ muNumReads' = muNumReads + 1
        /\ UNCHANGED <<mbIsWriting, readCond, writeCond>>
    BY <1>2 DEF ReadLock
  <2>2. /\ Readers' = Readers \cup {g} /\ Writers' = Writers \ {g}
        /\ g \notin Readers /\ g \notin Writers
    BY <2>1, MoveEffect DEF Modes, Readers, Writers, Move
  <2>3. TypeOK'
    BY <2>1, MoveEffect DEF Modes, TypeOK, ReadLock
  <2>4. CountersExact'
    BY <2>1, <2>2, ReadersFinite, FS_AddElement, SMTT(20) DEF CountersExact
  <2>5. Exclusion'
    BY <1>2, <2>1, MoveEffect DEF Modes, Exclusion, CountersExact, Writers
  <2>6. NoLostWakeup'
    BY <2>1, MoveEffect DEF Modes, NoLostWakeup, TypeOK
  <2>7. QED
    BY <2>3, <2>4, <2>5, <2>6
<1>3. QED
  BY <1>1, <1>2

(* The last reader to leave wakes a writer. *)
LEMMA ReadUnlockPreserves ==
  ASSUME IInv, NEW g \in Guards, ReadUnlock(g)
  PROVE  IInv'
<1> USE DEF IInv
<1>1. /\ Move(g, "reading", "out")
      /\ muNumReads' = muNumReads - 1
      /\ writeCond' \subseteq writeCond
      /\ UNCHANGED <<mbIsWriting, readCond>>
  BY DEF ReadUnlock, NotifyOneWriter
<1>2. /\ Readers' = Readers \ {g} /\ Writers' = Writers \ {g}
      /\ g \in Readers /\ g \notin Writers
  BY <1>1, MoveEffect DEF Modes, Readers, Writers, Move
<1>3. CountersExact' /\ muNumReads' \in Nat
  <2>1. IsFiniteSet(Readers') /\ Cardinality(Readers') = Cardinality(Readers) - 1
    BY <1>2, ReadersFinite, FS_RemoveElement
  <2>2. Cardinality(Readers') \in Nat
    BY <2>1, FS_CardinalityType
  <2>3. QED
    BY <1>1, <1>2, <2>1, <2>2 DEF CountersExact
<1>4. TypeOK'
  BY <1>1, <1>3, MoveEffect DEF Modes, TypeOK
<1>5. Exclusion'
  BY <1>1, MoveEffect DEF Modes, Exclusion
<1>6. NoLostWakeup'
  <2>1. ASSUME writeCond' # {}, muNumReads' = 0
        PROVE  \E h \in Guards \ writeCond' : mode'[h] = "wantWrite"
    <3>1. PICK w \in writeCond : writeCond' = writeCond \ {w}
      BY <2>1 DEF ReadUnlock, NotifyOneWriter
    <3>2. w \in Guards /\ mode[w] = "wantWrite" /\ w # g
      BY <1>1 DEF TypeOK, Move
    <3>3. QED
      BY <1>1, <3>1, <3>2, MoveEffect DEF Modes
  <2>2. QED
    BY <1>1, <2>1 DEF NoLostWakeup
<1>7. QED
  BY <1>3, <1>4, <1>5, <1>6

(* A writer is let in only beside nobody: the counter is zero, and by      *)
(* CountersExact that means there is no reader.                            *)
LEMMA WriteLockPreserves ==
  ASSUME IInv, NEW g \in Guards, WriteLock(g)
  PROVE  IInv'
<1> USE DEF IInv
<1>1. CASE mbIsWriting \/ muNumReads # 0
  <2>1. /\ UNCHANGED <<mode, muNumReads, mbIsWriting, readCond>>
        /\ writeCond' = writeCond \cup {g}
    BY <1>1 DEF WriteLock
  <2>2. Readers' = Readers /\ Writers' = Writers
    BY <2>1 DEF Readers, Writers
  <2>3. QED
    BY <1>1, <2>1, <2>2
    DEF TypeOK, CountersExact, Exclusion, NoLostWakeup, WriteLock
<1>2. CASE ~mbIsWriting /\ muNumReads = 0
  <2>1. /\ Move(g, "wantWrite", "writing")
        /\ mbIsWriting' = TRUE
        /\ UNCHANGED <<muNumReads, readCond, writeCond>>
    BY <1>2 DEF WriteLock
  <2>2. Readers = {} /\ Writers = {}
    BY <1>2, ReadersFinite, FS_EmptySet DEF CountersExact
  <2>3. Readers' = {} /\ Writers' = {g}
    BY <2>1, <2>2, MoveEffect DEF Modes
  <2>4. TypeOK'
    BY <2>1, MoveEffect DEF Modes, TypeOK, WriteLock
  <2>5. CountersExact'
    BY <1>2, <2>1, <2>3, FS_EmptySet DEF CountersExact
  <2>6. Exclusion'
    BY <2>3 DEF Exclusion, Readers, Writers
  <2>7. NoLostWakeup'
    BY <2>1 DEF NoLostWakeup
  <2>8. QED
    BY <2>4, <2>5, <2>6, <2>7
<1>3. QED
  BY <1>1, <1>2 DEF TypeOK

(* A writer that leaves wakes every reader and one writer. *)
LEMMA WriteUnlockPreserves ==
  ASSUME IInv, NEW g \in Guards, WriteUnlock(g)
  PROVE  IInv'
<1> USE DEF IInv
<1>1. /\ Move(g, "writing", "out")
      /\ mbIsWriting' = FALSE
      /\ readCond' = {}
      /\ writeCond' \subseteq writeCond
      /\ UNCHANGED muNumReads
  BY DEF WriteUnlock, NotifyOneWriter
<1>2. Readers' = Readers /\ Writers' = {}
  BY <1>1, MoveEffect DEF Modes, Readers, Writers, Move, Exclusion
<1>3. TypeOK'
  BY <1>1, MoveEffect DEF Modes, TypeOK
<1>4. CountersExact'
  BY <1>1, <1>2 DEF CountersExact
<1>5. Exclusion'
  BY <1>1, MoveEffect DEF Modes, Exclusion
<1>6. NoLostWakeup'
  <2>1. ASSUME writeCond' # {}
        PROVE  \E h \in Guards \ writeCond' : mode'[h] = "wantWrite"
    <3>1. PICK w \in writeCond : writeCond' = writeCond \ {w}
      BY <2>1 DEF WriteUnlock, NotifyOneWriter
    <3>2. w \in Guards /\ mode[w] = "wantWrite" /\ w # g
      BY <1>1 DEF TypeOK, Move
    <3>3. QED
      BY <1>1, <3>1, <3>2, MoveEffect DEF Modes
  <2>2. QED
    BY <1>1, <2>1 DEF NoLostWakeup
<1>7. QED
  BY <1>3, <1>4, <1>5, <1>6

(* A spurious wake-up only shrinks the wait sets. *)
LEMMA SpuriousWakePreserves ==
  ASSUME IInv, NEW g \in Guards, SpuriousWake(g)
  PROVE  IInv'
<1> USE DEF IInv
<1>1. Readers' = Readers /\ Writers' = Writers
  BY DEF SpuriousWake, Readers, Writers
<1>2. QED
  BY <1>1 DEF SpuriousWake, TypeOK, CountersExact, Exclusion, NoLostWakeup

LEMMA NextPreserves == IInv /\ [Next]_vars => IInv'
<1> SUFFICES ASSUME IInv, [Next]_vars PROVE IInv'
  OBVIOUS
<1>1. CASE UNCHANGED vars
  BY <1>1 DEF vars, IInv, TypeOK, CountersExact, Exclusion, NoLostWakeup,
              Readers, Writers
<1>2. CASE Next
  BY <1>2, RequestPreserves, ReadLockPreserves, ReadUnlockPreserves,
     WriteLockPreserves, WriteUnlockPreserves, SpuriousWakePreserves DEF Next
<1>3. QED
  BY <1>1, <1>2

(* For every finite set of guards and in every reachable state the two     *)
(* fields agree with the holders, writers are alone, and no wake-up of     *)
(* readUnlock or writeUnlock is lost.                                      *)
THEOREM LockIsCorrect ==
  Spec => [](TypeOK /\ CountersExact /\ Exclusion /\ NoLostWakeup)
<1>1. Spec => []IInv
  BY InitEstablishes, NextPreserves, PTL DEF Spec
<1>2. QED
  BY <1>1, PTL DEF IInv

(* The counter and the flag are numbers and truth values throughout, and   *)
(* only guards that wait for a condition are in its wait set.              *)
THEOREM TypeCorrect == Spec => []TypeOK
  BY LockIsCorrect, PTL

(* readLock and writeLock never let a writer in beside anybody else.       *)
THEOREM WritersAlone == Spec => []Exclusion
  BY LockIsCorrect, PTL

(* muNumReads and mbIsWriting, whatever is locked and unlocked, say how    *)
(* many readers and writers there are: muNumReads never wraps.             *)
THEOREM FieldsExact == Spec => []CountersExact
  BY LockIsCorrect, PTL

-----------------------------------------------------------------------------
(* Every step of the mutex is a step of the promised lock or leaves it     *)
(* alone: the test of the fields is the test of the holders.               *)
LEMMA StepImplements == IInv /\ [Next]_vars => [Promised!Next]_mode
<1> SUFFICES ASSUME IInv, [Next]_vars PROVE [Promised!Next]_mode
  OBVIOUS
<1> USE DEF IInv, Move, Promised!Move, Promised!Next,
            Readers, Writers, Promised!Readers, Promised!Writers
<1>1. CASE UNCHANGED vars
  BY <1>1 DEF vars
<1>2. ASSUME NEW g \in Guards, Request(g) PROVE Promised!Next
  BY <1>2 DEF Request, Promised!Request
<1>3. ASSUME NEW g \in Guards, ReadLock(g) PROVE [Promised!Next]_mode
  BY <1>3 DEF ReadLock, CountersExact, Promised!AcquireRead
<1>4. ASSUME NEW g \in Guards, ReadUnlock(g) PROVE Promised!Next
  BY <1>4 DEF ReadUnlock, Promised!Release
<1>5. ASSUME NEW g \in Guards, WriteLock(g) PROVE [Promised!Next]_mode
  <2>1. muNumReads = 0 => Readers = {}
    BY ReadersFinite, FS_EmptySet DEF CountersExact
  <2>2. QED
    BY <1>5, <2>1 DEF WriteLock, CountersExact, Promised!AcquireWrite
<1>6. ASSUME NEW g \in Guards, WriteUnlock(g) PROVE Promised!Next
  BY <1>6 DEF WriteUnlock, Promised!Release
<1>7. ASSUME NEW g \in Guards, SpuriousWake(g) PROVE UNCHANGED mode
  BY <1>7 DEF SpuriousWake
<1>8. QED
  BY <1>1, <1>2, <1>3, <1>4, <1>5, <1>6, <1>7 DEF Next

(* The safety part of ImplementsLock: counters and condition variables     *)
(* give exactly the behaviours of the abstract lock.                       *)
THEOREM ImplementsLockSafely ==
  Spec => Promised!Init /\ [][Promised!Next]_mode
<1>1. Init => Promised!Init
  BY DEF Init, Promised!Init
<1>2. Spec => []IInv
  BY InitEstablishes, NextPreserves, PTL DEF Spec
<1>3. QED
  BY <1>1, <1>2, StepImplements, PTL DEF Spec
=============================================================================
